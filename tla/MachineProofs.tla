--------------------------- MODULE MachineProofs ---------------------------
(***************************************************************************)
(* Proofs about the parts that change what is installed or kept on the     *)
(* user's machine: AppUpdate, ToolProvisioner, ClientConfig and            *)
(* Diagnostics. The lemmas about lists and about runs of a recursive       *)
(* function come from PoolProofs.                                          *)
(***************************************************************************)
EXTENDS AppUpdate, ToolProvisioner, ClientConfig, Diagnostics,
        PoolProofs, SequenceTheorems

-----------------------------------------------------------------------------
(***************************************************************************)
(* AppUpdate. The inductive invariant: an installation is announced to     *)
(* rides for as long as it takes, and a requested restart for good, which  *)
(* no other installation may call off; the commands that find or fetch an  *)
(* update run only while none is verified.                                 *)
(***************************************************************************)

RidesAreWarned == (Held("install") \/ leaving) => installing
RestartIsLast == leaving => ~Held("install")
NothingToLose == (Held("check") \/ Held("download")) => ~pendingUpdate.verified

UpdateInv ==
    /\ InstallsAndRidesExclude
    /\ RidesAreWarned
    /\ RestartIsLast
    /\ NothingToLose

\* The invariant holds when the application starts (AppUpdaterState::default).
LEMMA UpdateInvInit == UpdateInit => UpdateInv
  BY DEF UpdateInit, UpdateInv, InstallsAndRidesExclude, ActiveRide, RidesAreWarned,
         RestartIsLast, NothingToLose, Held, Nothing

\* Every command of a ride or of the updater keeps it.
LEMMA UpdateInvStep == UpdateInv /\ [UpdateNext]_updateVars => UpdateInv'
<1> SUFFICES ASSUME UpdateInv, [UpdateNext]_updateVars PROVE UpdateInv'
  OBVIOUS
<1> USE DEF UpdateInv, InstallsAndRidesExclude, ActiveRide, RidesAreWarned,
            RestartIsLast, NothingToLose, Held, Free
<1>1. CASE UNCHANGED updateVars
  BY <1>1 DEF updateVars
<1>2. ASSUME NEW r \in Ride, BeginRide(r) PROVE UpdateInv'
  BY <1>2 DEF BeginRide
<1>3. ASSUME NEW r \in Ride, EndTransition(r) PROVE UpdateInv'
  <2>1. ActiveRide
    BY <1>3 DEF EndTransition
  <2>2. ~installing' /\ ~leaving' /\ command' # "install"
    BY <2>1, <1>3 DEF EndTransition
  <2> QED BY <2>2, <1>3 DEF EndTransition
<1>4. ASSUME NEW r \in Ride, EndRide(r) PROVE UpdateInv'
  <2>1. ActiveRide
    BY <1>4 DEF EndRide
  <2>2. ~installing' /\ ~leaving' /\ command' # "install"
    BY <2>1, <1>4 DEF EndRide
  <2> QED BY <2>2, <1>4 DEF EndRide
<1>5. CASE BeginCheck
  BY <1>5 DEF BeginCheck
<1>6. CASE CheckAnswered
  BY <1>6 DEF CheckAnswered
<1>7. CASE BeginDownload
  BY <1>7 DEF BeginDownload
<1>8. CASE DownloadEnds
  BY <1>8 DEF DownloadEnds
<1>9. CASE BeginInstall
  BY <1>9 DEF BeginInstall, MayInstall
<1>10. CASE InstallEnds
  BY <1>10 DEF InstallEnds
<1>11. CASE Restart
  BY <1>11 DEF Restart, MayInstall
<1>12. CASE Relaunch
  BY <1>12 DEF Relaunch, Nothing
<1> QED
  BY <1>1, <1>2, <1>3, <1>4, <1>5, <1>6, <1>7, <1>8, <1>9, <1>10, <1>11, <1>12 DEF UpdateNext

\* The invariant holds of every behaviour.
LEMMA UpdateInvariant == UpdateSpec => []UpdateInv
  BY UpdateInvInit, UpdateInvStep, PTL DEF UpdateSpec

\* A ride neither runs nor changes while an update is installed or a restart is on
\* its way (RideTransitionGuard and UpdateInstallGuard exclude each other).
THEOREM RidesAreSafe == UpdateSpec => []InstallsAndRidesExclude
<1>1. UpdateInv => InstallsAndRidesExclude
  BY DEF UpdateInv
<1> QED BY <1>1, UpdateInvariant, PTL

\* What a step may do to a verified update, VerifiedIsKept's action.
Keeps ==
    pendingUpdate.verified /\ pendingUpdate' # pendingUpdate =>
        pendingUpdate' = Nothing /\ (Relaunch \/ installed' = pendingUpdate.offer)

\* A verified update is lost to its own installation or the end of the process only:
\* no check or download touches it (check_signed_app_update, download_app_update).
THEOREM UpdateStays == UpdateSpec => VerifiedIsKept
<1>1. UpdateInv /\ [UpdateNext]_updateVars => [Keeps]_updateVars
  <2> SUFFICES ASSUME UpdateInv, UpdateNext PROVE Keeps
    OBVIOUS
  <2> USE DEF UpdateInv, NothingToLose, Held, Free, Keeps
  <2>1. ASSUME NEW r \in Ride, BeginRide(r) \/ EndTransition(r) \/ EndRide(r) PROVE Keeps
    BY <2>1 DEF BeginRide, EndTransition, EndRide
  <2>2. CASE BeginCheck
    BY <2>2 DEF BeginCheck
  <2>3. CASE CheckAnswered
    BY <2>3 DEF CheckAnswered
  <2>4. CASE BeginDownload
    BY <2>4 DEF BeginDownload
  <2>5. CASE DownloadEnds
    BY <2>5 DEF DownloadEnds
  <2>6. CASE BeginInstall
    BY <2>6 DEF BeginInstall
  <2>7. CASE InstallEnds
    BY <2>7 DEF InstallEnds
  <2>8. CASE Restart
    BY <2>8 DEF Restart
  <2>9. CASE Relaunch
    BY <2>9 DEF Relaunch
  <2> QED
    BY <2>1, <2>2, <2>3, <2>4, <2>5, <2>6, <2>7, <2>8, <2>9 DEF UpdateNext
<1> QED
  BY <1>1, UpdateInvariant, PTL DEF UpdateSpec, VerifiedIsKept, Keeps

-----------------------------------------------------------------------------
(***************************************************************************)
(* ToolProvisioner. The invariant follows an installation through its      *)
(* steps.                                                                  *)
(***************************************************************************)

\* The steps of an installation, and those behind the smoke test.
JobSteps == {"none", "resolve", "download", "smoke", "clear", "place", "point", "record",
             "prune", "npm"}
Installing == {"clear", "place", "point", "record", "prune"}

JobRecord == [pc : JobSteps, plan : 0 .. Releases, had : 0 .. Releases, whole : BOOLEAN,
              told : {"nothing", "installed", "failed"}]

ToolShapes ==
  /\ official \in Version /\ known \in 0 .. official
  /\ bin \in [Version -> {"absent", "good", "changed"}]
  /\ current \in 0 .. Releases
  /\ job \in JobRecord

\* An installation replaces an older version than its own, so that what it clears
\* is not what the pointer names.
OnlyNewer ==
  /\ job.pc = "resolve" => job.had = 0 \/ known > job.had
  /\ job.pc \in {"download", "smoke"} \cup Installing => job.plan > job.had
  /\ job.pc \in {"resolve", "download", "smoke", "clear", "place", "point"} => current \in {0, job.had}
  /\ job.pc \in {"record", "prune"} => current \in {0, job.plan}

\* The version that is installed passed its smoke test and is there once placed.
PlanIsSound ==
  /\ job.pc \in Installing => job.plan \notin Broken
  /\ job.pc = "point" => bin[job.plan] # "absent"

ToolInv == ToolShapes /\ OnlyNewer /\ PlanIsSound /\ PointerIsSound

\* An installation goes on.
LEMMA JobGoesOn ==
  ASSUME NEW j \in JobRecord, NEW pc \in JobSteps, NEW told \in {"nothing", "installed", "failed"}
  PROVE  /\ [j EXCEPT !.pc = pc] \in JobRecord
         /\ [j EXCEPT !.pc = pc].pc = pc
         /\ [j EXCEPT !.pc = pc, !.told = told] \in JobRecord
         /\ [j EXCEPT !.pc = pc, !.told = told].pc = pc
BY DEF JobRecord

\* Steps of an installation that leave the disk alone.
LEMMA JobStepsKeep ==
  ASSUME ToolInv, BeginInstallTool \/ Resolve \/ Download \/ SmokeTest \/ InstallFails \/ NpmEnds \/ ToolCrash
  PROVE  ToolInv'
<1> USE ProvisionerAssumption DEF ToolInv, ToolShapes, JobAt, JobGoes, JobEnds, Disk, World, JobSteps, JobRecord, Version
<1>1. UNCHANGED <<bin, current, official>>
  BY DEF BeginInstallTool, Resolve, Download, SmokeTest, InstallFails, NpmEnds, ToolCrash
<1>2. CASE BeginInstallTool
  <2>1. Managed \in 0 .. Releases /\ current \in {0, Managed}
    BY DEF Managed, PointerIsSound
  <2>2. Launchable \in BOOLEAN
    BY DEF Launchable
  <2>3. ToolShapes'
    BY <1>1, <1>2, <2>1, <2>2 DEF BeginInstallTool
  <2>4. /\ job'.pc = "resolve" /\ job'.had = Managed /\ UNCHANGED known
        /\ Managed = 0 \/ known > Managed
    BY <1>2 DEF BeginInstallTool, ShouldProvision
  <2> QED BY <1>1, <2>1, <2>3, <2>4 DEF OnlyNewer, PlanIsSound, PointerIsSound, Installing
<1>3. CASE Resolve
  <2>1. PICK plan \in {known, official} :
           /\ job' = [job EXCEPT !.pc = "download", !.plan = plan]
           /\ plan = known => known # 0
           /\ known' \in {known, official}
    <3>1. CASE /\ known' \in {known, official}
               /\ job' = [job EXCEPT !.pc = "download", !.plan = official]
      BY <3>1
    <3>2. CASE /\ known # 0 /\ known' = known
               /\ job' = [job EXCEPT !.pc = "download", !.plan = known]
      BY <3>2
    <3> QED BY <1>3, <3>1, <3>2 DEF Resolve
  <2>2. job.pc = "resolve" /\ plan \in Version /\ plan > job.had /\ known' \in 0 .. official'
    <3>1. job.pc = "resolve" /\ (job.had = 0 \/ known > job.had)
      BY <1>3 DEF Resolve, OnlyNewer
    <3>2. job.had \in Nat /\ known \in Nat /\ official \in Nat /\ known <= official /\ official > 0
          /\ official <= Releases /\ Releases \in Nat
      OBVIOUS
    <3> QED BY <3>1, <3>2, <2>1, <1>1
  <2>3. /\ job'.pc = "download" /\ job'.plan = plan /\ job'.had = job.had
    BY <2>1
  <2>4. job' \in JobRecord
    <3>1. plan \in 0 .. Releases
      BY <2>2
    <3> QED BY <3>1, <2>1
  <2>5. ToolShapes'
    BY <1>1, <2>2, <2>4
  <2> QED BY <1>1, <2>1, <2>2, <2>3, <2>5 DEF OnlyNewer, PlanIsSound, PointerIsSound, Installing
<1>4. CASE Download \/ SmokeTest
  <2>1. PICK pc \in {"smoke", "clear"} :
           /\ job' = [job EXCEPT !.pc = pc] /\ UNCHANGED known
           /\ job.pc = IF pc = "smoke" THEN "download" ELSE "smoke"
           /\ pc = "clear" => job.plan \notin Broken
    BY <1>4 DEF Download, SmokeTest, Passes
  <2>2. ToolShapes'
    BY <1>1, <2>1
  <2>3. job'.pc = pc /\ job'.plan = job.plan /\ job'.had = job.had
    BY <2>1
  <2> QED BY <1>1, <2>1, <2>2, <2>3 DEF OnlyNewer, PlanIsSound, PointerIsSound, Installing
<1> HIDE DEF JobRecord
<1>5. CASE InstallFails \/ NpmEnds \/ ToolCrash
  <2>1. UNCHANGED known /\ job \in JobRecord
    BY <1>5 DEF InstallFails, NpmEnds, ToolCrash
  <2>2. /\ job' \in JobRecord
        /\ job'.pc \in {"none", "npm"}
    <3>1. CASE InstallFails
      <4>1. JobEnds("failed") \/ JobGoes("npm")
        BY <3>1 DEF InstallFails
      <4>2. CASE JobEnds("failed")
        BY <2>1, <4>2, JobGoesOn
      <4>3. CASE JobGoes("npm")
        BY <2>1, <4>3, JobGoesOn
      <4> QED BY <4>1, <4>2, <4>3
    <3>2. CASE NpmEnds
      <4>1. PICK ok \in BOOLEAN :
              job' = [job EXCEPT !.pc = "none", !.told = IF ok THEN "installed" ELSE "failed"]
        BY <3>2, Zenon DEF NpmEnds
      <4>2. CASE ok
        <5>1. job' = [job EXCEPT !.pc = "none", !.told = "installed"]
          BY <4>1, <4>2
        <5> QED BY <2>1, <5>1, JobGoesOn
      <4>3. CASE ~ok
        <5>1. job' = [job EXCEPT !.pc = "none", !.told = "failed"]
          BY <4>1, <4>3
        <5> QED BY <2>1, <5>1, JobGoesOn
      <4> QED BY <4>2, <4>3
    <3>3. CASE ToolCrash
      <4>1. job' = [NoJob EXCEPT !.told = IF job.pc = "none" THEN job.told ELSE "nothing"]
        BY <3>3 DEF ToolCrash
      <4>2. NoJob \in JobRecord /\ NoJob.pc = "none"
        BY DEF NoJob, JobRecord
      <4>3. \A told \in {"nothing", "installed", "failed"} :
              [NoJob EXCEPT !.told = told] \in JobRecord /\ [NoJob EXCEPT !.told = told].pc = "none"
        BY <4>2 DEF JobRecord
      <4>4. job.told \in {"nothing", "installed", "failed"}
        BY <2>1 DEF JobRecord
      <4> QED BY <4>1, <4>3, <4>4
    <3> QED BY <1>5, <3>1, <3>2, <3>3
  <2>4. ToolShapes' /\ job'.pc \in {"none", "npm"}
    BY <1>1, <2>1, <2>2
  <2> QED BY <1>1, <2>4 DEF OnlyNewer, PlanIsSound, PointerIsSound, Installing
<1> QED BY <1>2, <1>3, <1>4, <1>5

\* Its steps on the disk.
LEMMA DiskStepsKeep ==
  ASSUME ToolInv, ClearTarget \/ Place \/ Point \/ RecordProvenance \/ Prune
  PROVE  ToolInv'
<1> USE ProvisionerAssumption DEF ToolInv, ToolShapes, JobAt, JobGoes, JobEnds, Disk, World, JobSteps, JobRecord, Version
<1>1. /\ UNCHANGED <<official, known>> /\ job.pc \in Installing
      /\ job.plan \in Version /\ job.plan > job.had /\ job.plan \notin Broken
  BY DEF ClearTarget, Place, Point, RecordProvenance, Prune, Installing, OnlyNewer, PlanIsSound
<1>2. CASE ClearTarget \/ Place
  <2>1. PICK pc \in {"place", "point"}, b \in {"absent", "good"} :
           /\ bin' = [bin EXCEPT ![job.plan] = b] /\ job' = [job EXCEPT !.pc = pc]
           /\ job.pc \in {"clear", "place"} /\ UNCHANGED current
           /\ pc = "point" => b = "good"
    BY <1>2 DEF ClearTarget, Place
  <2>2. ToolShapes'
    BY <1>1, <2>1
  <2>3. current # job.plan
    BY <1>1, <2>1 DEF OnlyNewer
  <2>4. job'.pc = pc /\ job'.plan = job.plan /\ job'.had = job.had
    BY <2>1
  <2>5. PointerIsSound'
    BY <1>1, <2>1, <2>3 DEF PointerIsSound
  <2> QED BY <1>1, <2>1, <2>2, <2>4, <2>5 DEF OnlyNewer, PlanIsSound, Installing
<1>3. CASE Point
  <2>1. /\ current' = job.plan /\ bin' = bin /\ bin[job.plan] # "absent"
        /\ job' = [job EXCEPT !.pc = "record"]
    BY <1>3 DEF Point, PlanIsSound
  <2>2. job'.pc = "record" /\ job'.plan = job.plan /\ job'.had = job.had
    BY <2>1
  <2> QED BY <1>1, <2>1, <2>2 DEF OnlyNewer, PlanIsSound, PointerIsSound, Installing
<1>4. CASE RecordProvenance
  <2>1. UNCHANGED <<bin, current>> /\ job.pc = "record" /\ job' = [job EXCEPT !.pc = "prune"]
    BY <1>4 DEF RecordProvenance
  <2>2. job'.pc = "prune" /\ job'.plan = job.plan /\ job'.had = job.had
    BY <2>1
  <2> QED BY <1>1, <2>1, <2>2 DEF OnlyNewer, PlanIsSound, PointerIsSound, Installing
<1>5. CASE Prune
  <2>1. PICK gone \in SUBSET Others(job.plan) :
           bin' = [v \in Version |-> IF v \in gone THEN "absent" ELSE bin[v]]
    <3> DEFINE may == IF Others(job.plan) = {} THEN {}
                      ELSE Others(job.plan) \ {Max(Others(job.plan))}
    <3>1. may \subseteq Others(job.plan)
      OBVIOUS
    <3>2. \E gone \in SUBSET may : bin' = [v \in Version |-> IF v \in gone THEN "absent" ELSE bin[v]]
      BY <1>5 DEF Prune
    <3> HIDE DEF may
    <3> QED BY <3>1, <3>2
  <2>2. current \in {0, job.plan} /\ current' = current /\ job' = [job EXCEPT !.pc = "none", !.told = "installed"]
    BY <1>5 DEF Prune, OnlyNewer
  <2>3. job.plan \notin gone
    BY <2>1 DEF Others
  <2>4. ToolShapes' /\ job'.pc = "none"
    BY <1>1, <2>1, <2>2
  <2>5. PointerIsSound'
    BY <1>1, <2>1, <2>2, <2>3 DEF PointerIsSound
  <2> QED BY <2>4, <2>5 DEF OnlyNewer, PlanIsSound, Installing
<1> QED BY <1>2, <1>3, <1>4, <1>5

\* Everything around it.
LEMMA OtherToolStepsKeep ==
  ASSUME ToolInv,
         \/ RefreshCache \/ CancelInstall \/ Publish \/ UserInstalls
         \/ \E v \in Version : ForeignWrite(v)
         \/ \E l \in Launch : \/ BeginLaunchTool(l) \/ ReadPointer(l) \/ ReadProvenance(l)
                              \/ CheckHash(l) \/ StartTool(l)
  PROVE  ToolInv'
<1> USE ProvisionerAssumption DEF ToolInv, ToolShapes, JobRecord, Disk, World, Around, Version
<1>1. CASE RefreshCache \/ CancelInstall \/ Publish \/ UserInstalls
  <2>1. UNCHANGED <<bin, current, job>> /\ official' \in Version /\ known' \in 0 .. official' /\ known <= known'
    BY <1>1 DEF RefreshCache, CancelInstall, Publish, UserInstalls
  <2> QED BY <2>1 DEF OnlyNewer, PlanIsSound, PointerIsSound
<1>2. ASSUME NEW v \in Version, ForeignWrite(v)
      PROVE  ToolInv'
  <2>1. UNCHANGED <<official, known, current, job>> /\ bin' = [bin EXCEPT ![v] = "changed"]
    BY <1>2 DEF ForeignWrite
  <2> QED BY <2>1 DEF OnlyNewer, PlanIsSound, PointerIsSound
<1>3. ASSUME NEW l \in Launch,
             BeginLaunchTool(l) \/ ReadPointer(l) \/ ReadProvenance(l) \/ CheckHash(l) \/ StartTool(l)
      PROVE  ToolInv'
  <2>1. UNCHANGED <<official, known, bin, job>> /\ current' \in {0, current}
    BY <1>3 DEF BeginLaunchTool, ReadPointer, ReadProvenance, CheckHash, StartTool
  <2> QED BY <2>1 DEF OnlyNewer, PlanIsSound, PointerIsSound
<1> QED BY <1>1, <1>2, <1>3

\* The pointer names a version that is there and passed its smoke test, for any
\* number of releases and launches (tool_provisioner.rs, install_release).
THEOREM PointerStaysSound == ToolSpec => []PointerIsSound
<1>1. ToolInit => ToolInv
  BY ProvisionerAssumption DEF ToolInit, NoJob, ToolInv, ToolShapes, OnlyNewer, PlanIsSound, PointerIsSound,
     JobSteps, JobRecord, Installing, Version
<1>2. ToolInv /\ [ToolNext]_toolVars => ToolInv'
  <2> SUFFICES ASSUME ToolInv, [ToolNext]_toolVars PROVE ToolInv'
    OBVIOUS
  <2>1. CASE UNCHANGED toolVars
    BY <2>1 DEF toolVars, ToolInv, ToolShapes, OnlyNewer, PlanIsSound, PointerIsSound
  <2> QED BY <2>1, JobStepsKeep, DiskStepsKeep, OtherToolStepsKeep DEF ToolNext
<1>3. ToolInv => PointerIsSound
  BY DEF ToolInv
<1> QED BY <1>1, <1>2, <1>3, PTL DEF ToolSpec

-----------------------------------------------------------------------------
(***************************************************************************)
(* Sequences and sets.                                                     *)
(***************************************************************************)

\* The sequences in a sequence are joined one after the other.
FlattenRun(f, seqs) ==
  /\ f[1] = seqs[1]
  /\ \A i \in 2 .. Len(seqs) : f[i] = f[i - 1] \o seqs[i]
  /\ FlattenSeq(seqs) = f[Len(seqs)]

\* There is such a run: first such a list is built number by number, so that the one
\* FlattenSeq chooses exists, and then the chosen one is shown to be a list, number
\* by number.
LEMMA FlattenRuns ==
  ASSUME NEW S, NEW seqs \in Seq(Seq(S)), seqs # <<>>
  PROVE  \E f \in [1 .. Len(seqs) -> Seq(S)] : FlattenRun(f, seqs)
<1> DEFINE n == Len(seqs)
           Step(g) == [i \in 1 .. n |-> IF i = 1 THEN seqs[i] ELSE g[i - 1] \o seqs[i]]
           f == CHOOSE g : g = Step(g)
<1>1. n \in Nat /\ seqs \in [1 .. n -> Seq(S)]
  OBVIOUS
<1>2. n # 0
  BY <1>1
<1>3. FlattenSeq(seqs) = f[n]
  BY <1>2 DEF FlattenSeq
<1> DEFINE Sofar(m, g) == \A i \in 1 .. m : g[i] = IF i = 1 THEN seqs[i] ELSE g[i - 1] \o seqs[i]
           Built == {m \in Nat : m <= n => \E g \in [1 .. m -> Seq(S)] : Sofar(m, g)}
<1>4. n \in Built
  <2>1. 0 \in Built
    <3>1. [i \in 1 .. 0 |-> <<>>] \in [1 .. 0 -> Seq(S)]
      OBVIOUS
    <3> DEFINE g0 == [i \in 1 .. 0 |-> <<>>]
    <3>2. Sofar(0, g0)
      OBVIOUS
    <3> HIDE DEF g0, Sofar
    <3> QED BY <3>1, <3>2 DEF g0
  <2>2. ASSUME NEW m \in Built PROVE m + 1 \in Built
    <3> SUFFICES ASSUME m + 1 <= n
                 PROVE  \E g \in [1 .. m + 1 -> Seq(S)] : Sofar(m + 1, g)
      <4> HIDE DEF Sofar
      <4> QED OBVIOUS
    <3>1. PICK h \in [1 .. m -> Seq(S)] : Sofar(m, h)
      <4>1. m \in Nat /\ m <= n
        BY <1>1
      <4>2. \E h \in [1 .. m -> Seq(S)] : Sofar(m, h)
        <5> HIDE DEF Sofar
        <5> QED BY <4>1
      <4> HIDE DEF Sofar
      <4> QED BY <4>2
    <3> DEFINE last == IF m = 0 THEN seqs[1] ELSE h[m] \o seqs[m + 1]
               g == [i \in 1 .. m + 1 |-> IF i = m + 1 THEN last ELSE h[i]]
    <3>2. m \in Nat /\ m + 1 \in 1 .. n /\ seqs[m + 1] \in Seq(S) /\ 1 \in 1 .. n /\ seqs[1] \in Seq(S)
      BY <1>1
    <3>3. last \in Seq(S)
      <4>1. CASE m = 0
        BY <4>1, <3>2
      <4>2. CASE m # 0
        <5>1. h[m] \in Seq(S)
          BY <4>2, <3>2
        <5> QED BY <5>1, <4>2, <3>2
      <4> QED BY <4>1, <4>2
    <3>4. g \in [1 .. m + 1 -> Seq(S)]
      <4> HIDE DEF last
      <4> QED BY <3>2, <3>3
    <3>5. Sofar(m + 1, g)
      <4> SUFFICES ASSUME NEW i \in 1 .. m + 1
                   PROVE  g[i] = IF i = 1 THEN seqs[i] ELSE g[i - 1] \o seqs[i]
        OBVIOUS
      <4>1. CASE i = m + 1
        <5>1. g[i] = last
          BY <4>1, <3>2
        <5>2. i # 1 => g[i - 1] = h[m] /\ m # 0 /\ i - 1 = m
          BY <4>1, <3>2
        <5> QED BY <5>1, <5>2, <4>1, <3>2
      <4>2. CASE i # m + 1
        <5>1. i \in 1 .. m /\ g[i] = h[i] /\ (i # 1 => i - 1 \in 1 .. m /\ g[i - 1] = h[i - 1])
          BY <4>2, <3>2
        <5> QED BY <5>1, <3>1
      <4> QED BY <4>1, <4>2
    <3> HIDE DEF g, Sofar
    <3> QED BY <3>4, <3>5
  <2>3. Built \in SUBSET Nat
    OBVIOUS
  <2>4. Built = Nat
    <3> HIDE DEF Built
    <3> QED BY <2>1, <2>2, <2>3, AllNumbers
  <2> QED BY <1>1, <2>4
<1>5. PICK g \in [1 .. n -> Seq(S)] : Sofar(n, g)
  BY <1>1, <1>4
<1>6. g = Step(g)
  BY <1>5
<1>7. f = Step(f)
  <2> HIDE DEF Step
  <2> QED BY <1>6
<1> HIDE DEF f
<1>8. \A i \in 1 .. n : f[i] = IF i = 1 THEN seqs[i] ELSE f[i - 1] \o seqs[i]
  <2> DEFINE F == Step(f)
  <2>1. \A i \in 1 .. n : F[i] = IF i = 1 THEN seqs[i] ELSE f[i - 1] \o seqs[i]
    OBVIOUS
  <2>2. f = F
    BY <1>7
  <2> HIDE DEF F
  <2> QED BY <2>1, <2>2
<1> DEFINE Typed == {m \in Nat : m \in 1 .. n => f[m] \in Seq(S)}
<1>9. 0 \in Typed
  OBVIOUS
<1>10. ASSUME NEW m \in Typed PROVE m + 1 \in Typed
  <2> SUFFICES ASSUME m + 1 \in 1 .. n PROVE f[m + 1] \in Seq(S)
    OBVIOUS
  <2>1. seqs[m + 1] \in Seq(S)
    BY <1>1
  <2>2. CASE m = 0
    BY <2>1, <2>2, <1>8
  <2>3. CASE m # 0
    <3>1. m \in 1 .. n /\ f[m] \in Seq(S) /\ m + 1 # 1 /\ (m + 1) - 1 = m
      BY <2>3, <1>1
    <3>2. f[m + 1] = f[m] \o seqs[m + 1]
      BY <2>3, <1>8, <3>1
    <3> QED BY <3>1, <3>2, <2>1
  <2> QED BY <2>2, <2>3
<1>11. Typed = Nat
  <2> Typed \in SUBSET Nat
    OBVIOUS
  <2> HIDE DEF Typed
  <2> QED BY <1>9, <1>10, AllNumbers
<1>12. f \in [1 .. n -> Seq(S)]
  <2>1. ASSUME NEW i \in 1 .. n PROVE f[i] \in Seq(S)
    <3>1. i \in Nat
      BY <1>1
    <3>2. i \in Typed
      <4> HIDE DEF Typed
      <4> QED BY <1>11, <3>1
    <3> QED BY <3>2
  <2> DEFINE Joined(i) == IF i = 1 THEN seqs[i] ELSE f[i - 1] \o seqs[i]
             F == [i \in 1 .. n |-> Joined(i)]
  <2>2. f = F
    BY <1>7
  <2> HIDE DEF Joined
  <2>3. F = [i \in 1 .. n |-> F[i]]
    OBVIOUS
  <2> HIDE DEF F
  <2> QED BY <2>1, <2>2, <2>3
<1>13. n \in 1 .. n /\ 1 \in 1 .. n /\ \A i \in 2 .. n : i \in 1 .. n /\ i # 1
  BY <1>1, <1>2
<1>14. FlattenRun(f, seqs)
  BY <1>3, <1>8, <1>13 DEF FlattenRun, n
<1> QED BY <1>12, <1>14

\* The sequences in a sequence, joined, hold the same kind of elements.
LEMMA FlattenIsTyped ==
  ASSUME NEW S, NEW seqs \in Seq(Seq(S))
  PROVE  FlattenSeq(seqs) \in Seq(S)
<1>1. CASE seqs = <<>>
  BY <1>1 DEF FlattenSeq
<1>2. CASE seqs # <<>>
  <2>1. PICK f \in [1 .. Len(seqs) -> Seq(S)] : FlattenRun(f, seqs)
    BY <1>2, FlattenRuns
  <2>2. Len(seqs) \in 1 .. Len(seqs)
    BY <1>2
  <2> QED BY <2>1, <2>2 DEF FlattenRun
<1> QED BY <1>1, <1>2

\* The elements of a finite set in a sequence.
LEMMA SetToSeqIsTyped ==
  ASSUME NEW S, IsFiniteSet(S)
  PROVE  SetToSeq(S) \in Seq(S)
<1>1. Cardinality(S) \in Nat /\ ExistsBijection(1 .. Cardinality(S), S)
  BY FS_CardinalityType
<1>2. PICK f \in [1 .. Cardinality(S) -> S] : IsInjective(f)
  BY <1>1 DEF ExistsBijection, Bijection, Injection
<1>3. SetToSeq(S) \in [1 .. Cardinality(S) -> S]
  BY <1>2 DEF SetToSeq
<1> QED BY <1>1, <1>3


-----------------------------------------------------------------------------
(***************************************************************************)
(* ClientConfig. The invariant is about the list of operations a task      *)
(* still has to carry out, any of which may fail and before any of which   *)
(* the application may die.                                                *)
(***************************************************************************)

\* There are finitely many records.
LEMMA InstancesAreFinite ==
  ASSUME NEW R \in SUBSET Instance
  PROVE  IsFiniteSet(R)
<1> DEFINE P == (Tool \X CarAccess) \X BOOLEAN
           key == [r \in R |-> <<<<r.tool, r.access>>, r.ready>>]
<1>1. IsFiniteSet(P)
  <2>1. IsFiniteSet(Tool \X CarAccess)
    BY ClientAssumption, FS_Product
  <2>2. IsFiniteSet(BOOLEAN)
    <3>1. IsFiniteSet({}) 
      BY FS_EmptySet
    <3>2. IsFiniteSet({} \cup {TRUE}) /\ IsFiniteSet(({} \cup {TRUE}) \cup {FALSE})
      BY <3>1, FS_AddElement
    <3>3. BOOLEAN = ({} \cup {TRUE}) \cup {FALSE}
      OBVIOUS
    <3> QED BY <3>2, <3>3
  <2> QED BY <2>1, <2>2, FS_Product
<1>2. key \in Injection(R, P)
  <2>1. key \in [R -> P]
    BY DEF Instance
  <2>2. ASSUME NEW r \in R, NEW s \in R, key[r] = key[s] PROVE r = s
    <3>1. r.tool = s.tool /\ r.access = s.access /\ r.ready = s.ready
      BY <2>2
    <3>2. r \in Instance /\ s \in Instance
      OBVIOUS
    <3> QED BY <3>1, <3>2 DEF Instance
  <2> QED BY <2>1, <2>2 DEF Injection, IsInjective
<1> HIDE DEF P, key
<1> QED BY <1>1, <1>2, FS_Injection

\* Where a task may be, and where it is about one tool and access.
Steps == {"rest", "choose", "spawn", "wait", "ready", "unsaved", "remove", "recover", "end"}
OfLaunch == {"choose", "spawn", "wait", "ready", "unsaved"}

\* The operations a task may list, and those that may come anywhere in the list.
Deed ==
    [do : {"restore", "empty", "rmdir", "mkdir", "manifest", "mark", "unmark"}, tool : Tool]
        \cup [do : {"rmprofile", "mkprofile"}, tool : Tool, access : CarAccess]
        \cup [do : {"route"}, tool : Tool, as : CarAccess]
        \cup [do : {"save"}, list : SUBSET Instance]
Harmless == {d \in Deed : d.do \notin {"empty", "rmdir", "manifest", "route"}}

TaskRecord == [pc : Steps, tool : Tool \cup {"none"}, access : CarAccess \cup {"none"},
               seen : SUBSET Process, list : SUBSET Instance, todo : Seq(Deed),
               left : SUBSET Instance, about : SUBSET Instance]

\* The shapes; a task that launches knows what.
ClientShapes ==
    /\ setting \in Setting
    /\ config \in [Tool -> CarAccess \cup {"own"}]
    /\ snap \in [Tool -> [dir : {"none", "bare", "whole", "torn"}, copy : CarAccess \cup {"own"}]]
    /\ marker \in [Tool -> CarAccess \cup {"none"}]
    /\ registry \subseteq Instance
    /\ clients \subseteq Process
    /\ task \in TaskRecord
    /\ task.pc \in OfLaunch => task.tool \in Tool /\ task.access \in CarAccess

\* A complete backup holds the user's own configuration.
WholeAndOwn == [dir |-> "whole", copy |-> "own"]
CopiesAreOwn == \A t \in Tool : snap[t].dir = "whole" => snap[t].copy = "own"

\* A list of operations puts the user's configuration at no risk: a backup is taken
\* apart only while the configuration is back, it is taken only of the user's own,
\* or once the one that was kept has been restored, and a route is written only
\* right behind the manifest that makes the backup complete.
Orderly(todo, c, s) ==
    \A i \in DOMAIN todo :
        /\ todo[i].do \in {"empty", "rmdir"} => i = 1 /\ c[todo[i].tool] = "own"
        /\ todo[i].do = "manifest" =>
              /\ todo[i].tool \in Store
              /\ \A j \in 1 .. i - 1 : todo[j].do # "route"
              /\ \/ c[todo[i].tool] = "own"
                 \/ \E j \in 1 .. i - 1 : todo[j].do = "restore" /\ todo[j].tool = todo[i].tool
        /\ todo[i].do = "route" =>
              IF i = 1 THEN s[todo[i].tool] = WholeAndOwn
              ELSE todo[i - 1].do = "manifest" /\ todo[i - 1].tool = todo[i].tool

ClientInv ==
    /\ ClientShapes
    /\ CopiesAreOwn
    /\ OriginalKept
    /\ Orderly(task.todo, config, snap)

\* The Store tools are tools.
LEMMA StoreTools ==
  ASSUME ClientShapes PROVE Store \in SUBSET Tool
BY ClientAssumption DEF ClientShapes, Store

\* What an operation says.
LEMMA DeedFacts ==
  ASSUME NEW d \in Deed
  PROVE  /\ d.do # "save" => d.tool \in Tool
         /\ d.do \in {"rmprofile", "mkprofile"} => d.access \in CarAccess
         /\ d.do = "route" => d.as \in CarAccess
         /\ d.do = "save" => d.list \in SUBSET Instance
BY DEF Deed

\* Operations that may come anywhere.
LEMMA HarmlessDeeds ==
  /\ \A t \in Tool : \A x \in {"restore", "mkdir", "mark", "unmark"} : [do |-> x, tool |-> t] \in Harmless
  /\ \A t \in Tool, a \in CarAccess : \A x \in {"rmprofile", "mkprofile"} :
        [do |-> x, tool |-> t, access |-> a] \in Harmless
  /\ \A R \in SUBSET Instance : [do |-> "save", list |-> R] \in Harmless
  /\ Harmless \subseteq Deed
BY DEF Harmless, Deed

\* A list of them is orderly, whatever the files say.
LEMMA HarmlessIsOrderly ==
  ASSUME NEW todo \in Seq(Harmless), NEW c, NEW s
  PROVE  todo \in Seq(Deed) /\ Orderly(todo, c, s)
<1>1. todo \in Seq(Deed)
  BY HarmlessDeeds
<1>2. \A i \in DOMAIN todo : todo[i] \in Harmless
  OBVIOUS
<1>3. \A i \in DOMAIN todo : todo[i].do \notin {"empty", "rmdir", "manifest", "route"}
  BY <1>2 DEF Harmless
<1> QED BY <1>1, <1>3 DEF Orderly

\* Putting a record's files back is such a list,
LEMMA CleanupIsHarmless ==
  ASSUME NEW r \in Instance
  PROVE  Cleanup(r) \in Seq(Harmless)
<1>1. r.tool \in Tool /\ r.access \in CarAccess
  BY DEF Instance
<1> DEFINE back == [do |-> "restore", tool |-> r.tool]
           off == [do |-> "unmark", tool |-> r.tool]
           gone == [do |-> "rmprofile", tool |-> r.tool, access |-> r.access]
<1>2. back \in Harmless /\ off \in Harmless /\ gone \in Harmless
  BY <1>1, HarmlessDeeds
<1>3. Cleanup(r) = IF r.tool \in Store THEN <<back, off>> ELSE <<gone>>
  BY DEF Cleanup
<1> HIDE DEF back, off, gone
<1> QED BY <1>2, <1>3

\* and so is putting back those of several,
LEMMA CleanupAllIsHarmless ==
  ASSUME NEW R \in SUBSET Instance
  PROVE  CleanupAll(R) \in Seq(Harmless)
<1> DEFINE s == SetToSeq(R)
           lists == [i \in DOMAIN s |-> Cleanup(s[i])]
<1>1. s \in Seq(R)
  BY InstancesAreFinite, SetToSeqIsTyped
<1> HIDE DEF s
<1>2. \A i \in DOMAIN s : s[i] \in Instance
  BY <1>1
<1>3. \A i \in DOMAIN s : Cleanup(s[i]) \in Seq(Harmless)
  BY <1>2, CleanupIsHarmless
<1>4. DOMAIN s = 1 .. Len(s) /\ Len(s) \in Nat
  BY <1>1
<1>5. lists \in Seq(Seq(Harmless))
  <2>1. lists \in [1 .. Len(s) -> Seq(Harmless)]
    BY <1>3, <1>4
  <2> HIDE DEF lists
  <2> QED BY <2>1, <1>4
<1> HIDE DEF lists
<1>6. FlattenSeq(lists) \in Seq(Harmless)
  BY <1>5, FlattenIsTyped
<1> QED BY <1>6 DEF CleanupAll, lists, s

\* and the routes of older versions.
LEMMA MigrationIsHarmless ==
  ASSUME ClientShapes
  PROVE  Migration \in Seq(Harmless)
<1> DEFINE s == SetToSeq(Tool)
           part(t) == <<[do |-> "restore", tool |-> t]>>
                      \o (IF t \notin Store /\ marker[t] # "none"
                          THEN <<[do |-> "rmprofile", tool |-> t, access |-> marker[t]]>> ELSE <<>>)
                      \o <<[do |-> "unmark", tool |-> t]>>
           lists == [i \in DOMAIN s |-> part(s[i])]
<1>1. s \in Seq(Tool)
  BY ClientAssumption, SetToSeqIsTyped
<1> HIDE DEF s
<1>2. ASSUME NEW t \in Tool PROVE part(t) \in Seq(Harmless)
  <2>1. <<[do |-> "restore", tool |-> t]>> \in Seq(Harmless) /\ <<[do |-> "unmark", tool |-> t]>> \in Seq(Harmless)
    <3> DEFINE back == [do |-> "restore", tool |-> t]
               off == [do |-> "unmark", tool |-> t]
    <3>1. back \in Harmless /\ off \in Harmless
      BY HarmlessDeeds
    <3> HIDE DEF back, off
    <3>2. <<back>> \in Seq(Harmless) /\ <<off>> \in Seq(Harmless)
      BY <3>1
    <3> QED BY <3>2 DEF back, off
  <2>2. marker[t] # "none" => marker[t] \in CarAccess
    BY DEF ClientShapes
  <2>3. (IF t \notin Store /\ marker[t] # "none"
          THEN <<[do |-> "rmprofile", tool |-> t, access |-> marker[t]]>> ELSE <<>>) \in Seq(Harmless)
    <3>1. marker[t] # "none" => [do |-> "rmprofile", tool |-> t, access |-> marker[t]] \in Harmless
      BY <2>2, HarmlessDeeds
    <3> QED BY <3>1
  <2> QED BY <2>1, <2>3
<1>3. DOMAIN s = 1 .. Len(s) /\ Len(s) \in Nat /\ \A i \in DOMAIN s : s[i] \in Tool
  BY <1>1
<1>4. lists \in Seq(Seq(Harmless))
  <2>1. lists \in [1 .. Len(s) -> Seq(Harmless)]
    <3> HIDE DEF part
    <3> QED BY <1>2, <1>3
  <2> HIDE DEF lists
  <2> QED BY <2>1, <1>3
<1>5. Migration = FlattenSeq(lists)
  BY DEF Migration, s
<1> HIDE DEF lists
<1> QED BY <1>4, <1>5, FlattenIsTyped

\* The list without its first operation.
LEMMA TailFacts ==
  ASSUME NEW todo \in Seq(Deed), todo # <<>>
  PROVE  /\ Tail(todo) \in Seq(Deed) /\ 1 \in DOMAIN todo /\ todo[1] \in Deed
         /\ \A i \in DOMAIN Tail(todo) : i \in Nat /\ i >= 1 /\ i + 1 \in DOMAIN todo /\ Tail(todo)[i] = todo[i + 1]
OBVIOUS

\* The first operation is done: what may follow it may now come first.
LEMMA TailIsOrderly ==
  ASSUME NEW todo \in Seq(Deed), todo # <<>>, NEW c, NEW s, NEW c2, NEW s2, Orderly(todo, c, s),
         todo[1].do # "route" => \A t \in Tool : c[t] = "own" => c2[t] = "own",
         todo[1].do = "restore" /\ todo[1].tool \in Store => c2[todo[1].tool] = "own",
         todo[1].do = "manifest" => s2[todo[1].tool] = WholeAndOwn
  PROVE  Orderly(Tail(todo), c2, s2)
<1> DEFINE rest == Tail(todo)
<1> SUFFICES ASSUME NEW i \in DOMAIN rest
             PROVE  /\ rest[i].do \in {"empty", "rmdir"} => i = 1 /\ c2[rest[i].tool] = "own"
                    /\ rest[i].do = "manifest" =>
                          /\ rest[i].tool \in Store
                          /\ \A j \in 1 .. i - 1 : rest[j].do # "route"
                          /\ \/ c2[rest[i].tool] = "own"
                             \/ \E j \in 1 .. i - 1 : rest[j].do = "restore" /\ rest[j].tool = rest[i].tool
                    /\ rest[i].do = "route" =>
                          IF i = 1 THEN s2[rest[i].tool] = WholeAndOwn
                          ELSE rest[i - 1].do = "manifest" /\ rest[i - 1].tool = rest[i].tool
  BY DEF Orderly
<1>1. /\ i \in Nat /\ i >= 1 /\ i + 1 \in DOMAIN todo /\ rest[i] = todo[i + 1]
      /\ \A j \in 1 .. i : rest[j] = todo[j + 1] /\ j \in DOMAIN rest
  BY TailFacts
<1>2. /\ todo[i + 1] \in Deed /\ todo[1] \in Deed
      /\ todo[1].do = "restore" => todo[1].tool \in Tool
      /\ rest[i].do # "save" => rest[i].tool \in Tool
  BY <1>1, TailFacts, DeedFacts
<1> DEFINE k == i + 1
<1>3. /\ todo[k].do \in {"empty", "rmdir"} => k = 1
      /\ todo[k].do = "manifest" =>
            /\ todo[k].tool \in Store
            /\ \A j \in 1 .. k - 1 : todo[j].do # "route"
            /\ \/ c[todo[k].tool] = "own"
               \/ \E j \in 1 .. k - 1 : todo[j].do = "restore" /\ todo[j].tool = todo[k].tool
      /\ todo[k].do = "route" =>
            IF k = 1 THEN s[todo[k].tool] = WholeAndOwn
            ELSE todo[k - 1].do = "manifest" /\ todo[k - 1].tool = todo[k].tool
  BY <1>1 DEF Orderly
<1>4. k # 1 /\ k - 1 = i
  BY <1>1
<1>5. CASE rest[i].do \in {"empty", "rmdir"}
  BY <1>1, <1>3, <1>4, <1>5
<1>6. CASE rest[i].do = "manifest"
  <2>1. rest[i].tool \in Store /\ \A j \in 1 .. i : todo[j].do # "route"
    BY <1>1, <1>3, <1>4, <1>6
  <2>2. \A j \in 1 .. i - 1 : rest[j] = todo[j + 1] /\ j + 1 \in 1 .. i
    BY <1>1
  <2>3. \A j \in 1 .. i - 1 : rest[j].do # "route"
    BY <2>1, <2>2
  <2>4. todo[1].do # "route"
    BY <2>1, <1>1
  <2>5. \A t \in Tool : c[t] = "own" => c2[t] = "own"
    BY <2>4
  <2>6. CASE c[rest[i].tool] = "own"
    BY <2>1, <2>3, <2>5, <2>6, <1>2, <1>6
  <2>7. CASE \E j \in 1 .. i : todo[j].do = "restore" /\ todo[j].tool = rest[i].tool
    <3>1. PICK j \in 1 .. i : todo[j].do = "restore" /\ todo[j].tool = rest[i].tool
      BY <2>7
    <3>2. CASE j = 1
      BY <3>1, <3>2, <2>1, <2>3, <1>6
    <3>3. CASE j # 1
      <4>1. j - 1 \in 1 .. i - 1 /\ (j - 1) + 1 = j
        BY <3>3, <1>1
      <4>2. rest[j - 1] = todo[j]
        BY <4>1, <2>2
      <4> QED BY <4>1, <4>2, <3>1, <2>1, <2>3, <1>6
    <3> QED BY <3>2, <3>3
  <2> QED BY <2>6, <2>7, <1>1, <1>3, <1>4, <1>6
<1>7. CASE rest[i].do = "route"
  <2>1. todo[i].do = "manifest" /\ todo[i].tool = rest[i].tool
    BY <1>1, <1>3, <1>4, <1>7
  <2>2. i # 1 => i - 1 \in 1 .. i /\ (i - 1) + 1 = i
    BY <1>1
  <2>3. i # 1 => rest[i - 1] = todo[i]
    BY <1>1, <2>2
  <2> QED BY <2>1, <2>3, <1>7
<1> QED BY <1>5, <1>6, <1>7

\* A restored configuration is followed by removing its backup.
LEMMA NextHalfIsOrderly ==
  ASSUME NEW todo \in Seq(Deed), todo # <<>>, NEW c, NEW s, NEW c2, NEW s2, Orderly(todo, c, s),
         NEW d \in Deed, d.do \in {"empty", "rmdir"}, c2[d.tool] = "own",
         todo[1].do \in {"restore", "empty"}, d.tool = todo[1].tool,
         \A t \in Tool : c[t] = "own" => c2[t] = "own"
  PROVE  <<d>> \o Tail(todo) \in Seq(Deed) /\ Orderly(<<d>> \o Tail(todo), c2, s2)
<1> DEFINE more == <<d>> \o Tail(todo)
<1>1. /\ more \in Seq(Deed) /\ DOMAIN more = DOMAIN todo /\ DOMAIN todo = 1 .. Len(todo) /\ Len(todo) \in Nat
      /\ more[1] = d /\ \A i \in DOMAIN todo : i # 1 => more[i] = todo[i]
  OBVIOUS
<1> HIDE DEF more
<1> SUFFICES ASSUME NEW i \in DOMAIN todo
             PROVE  /\ more[i].do \in {"empty", "rmdir"} => i = 1 /\ c2[more[i].tool] = "own"
                    /\ more[i].do = "manifest" =>
                          /\ more[i].tool \in Store
                          /\ \A j \in 1 .. i - 1 : more[j].do # "route"
                          /\ \/ c2[more[i].tool] = "own"
                             \/ \E j \in 1 .. i - 1 : more[j].do = "restore" /\ more[j].tool = more[i].tool
                    /\ more[i].do = "route" =>
                          IF i = 1 THEN s2[more[i].tool] = WholeAndOwn
                          ELSE more[i - 1].do = "manifest" /\ more[i - 1].tool = more[i].tool
  BY <1>1 DEF Orderly, more
<1>2. CASE i = 1
  BY <1>1, <1>2
<1>3. CASE i # 1
  <2>1. /\ more[i] = todo[i] /\ i \in 1 .. Len(todo) /\ todo[i] \in Deed
        /\ todo[i].do # "save" => todo[i].tool \in Tool
    BY <1>1, <1>3, DeedFacts
  <2>2. /\ todo[i].do \notin {"empty", "rmdir"}
        /\ todo[i].do = "manifest" =>
              /\ todo[i].tool \in Store
              /\ \A j \in 1 .. i - 1 : todo[j].do # "route"
              /\ \/ c[todo[i].tool] = "own"
                 \/ \E j \in 1 .. i - 1 : todo[j].do = "restore" /\ todo[j].tool = todo[i].tool
        /\ todo[i].do = "route" => todo[i - 1].do = "manifest" /\ todo[i - 1].tool = todo[i].tool
    BY <1>3, <2>1 DEF Orderly
  <2>3. \A j \in 1 .. i - 1 : j \in DOMAIN todo /\ (j # 1 => more[j] = todo[j])
    BY <1>1, <2>1
  <2>4. CASE todo[i].do = "manifest"
    <3>1. \A j \in 1 .. i - 1 : more[j].do # "route"
      BY <1>1, <2>2, <2>3, <2>4
    <3>2. c2[todo[i].tool] = "own"
             \/ \E j \in 1 .. i - 1 : more[j].do = "restore" /\ more[j].tool = todo[i].tool
      <4>1. CASE c[todo[i].tool] = "own"
        BY <4>1, <2>1, <2>4
      <4>2. CASE \E j \in 1 .. i - 1 : todo[j].do = "restore" /\ todo[j].tool = todo[i].tool
        <5>1. PICK j \in 1 .. i - 1 : todo[j].do = "restore" /\ todo[j].tool = todo[i].tool
          BY <4>2
        <5>2. CASE j = 1
          BY <5>1, <5>2
        <5>3. CASE j # 1
          BY <5>1, <5>3, <2>3
        <5> QED BY <5>2, <5>3
      <4> QED BY <4>1, <4>2, <2>2, <2>4
    <3> QED BY <3>1, <3>2, <2>1, <2>2, <2>4
  <2>5. CASE todo[i].do = "route"
    <3>1. i - 1 \in 1 .. i - 1 /\ i - 1 # 1
      BY <2>1, <2>2, <2>5, <1>3
    <3> QED BY <3>1, <2>1, <2>2, <2>3, <2>5, <1>3
  <2> QED BY <2>1, <2>2, <2>4, <2>5
<1> QED BY <1>2, <1>3

\* A step of the task that touches no file.
LEMMA TaskStepKeeps ==
  ASSUME ClientInv, UNCHANGED <<config, snap, marker, registry, setting>>,
         clients' \subseteq Process, task' \in TaskRecord,
         task'.pc \in OfLaunch => task'.tool \in Tool /\ task'.access \in CarAccess,
         Orderly(task'.todo, config, snap)
  PROVE  ClientInv'
<1>1. ClientShapes'
  BY DEF ClientInv, ClientShapes
<1>2. CopiesAreOwn' /\ OriginalKept'
  BY DEF ClientInv, CopiesAreOwn, OriginalKept, Store, WholeAndOwn
<1>3. Orderly(task.todo, config, snap)'
  BY DEF Orderly, Store
<1> QED BY <1>1, <1>2, <1>3 DEF ClientInv

\* A task with another list.
LEMMA FreshTask ==
  ASSUME NEW tt \in TaskRecord, NEW todo \in Seq(Harmless)
  PROVE  /\ todo \in Seq(Deed)
         /\ [tt EXCEPT !.todo = todo] \in TaskRecord
         /\ \A pc \in Steps : /\ [tt EXCEPT !.pc = pc, !.todo = todo] \in TaskRecord
                              /\ [tt EXCEPT !.pc = pc, !.todo = todo].pc = pc
                              /\ [tt EXCEPT !.pc = pc, !.todo = todo].tool = tt.tool
                              /\ [tt EXCEPT !.pc = pc, !.todo = todo].access = tt.access
                              /\ [tt EXCEPT !.pc = pc, !.todo = todo].todo = todo
BY HarmlessIsOrderly DEF TaskRecord

\* The lock is free.
LEMMA RestIsTyped == NoTask \in TaskRecord /\ NoTask.pc = "rest" /\ NoTask.todo = <<>> /\ <<>> \in Seq(Harmless)
BY DEF NoTask, TaskRecord, Steps

\* Saving the registry may come anywhere, too.
LEMMA SavingIsHarmless ==
  ASSUME NEW R \in SUBSET Instance
  PROVE  Saving(R) \in Seq(Harmless)
<1> DEFINE d == [do |-> "save", list |-> R]
<1>1. d \in Harmless
  BY HarmlessDeeds
<1>2. Saving(R) = <<d>>
  BY DEF Saving
<1> HIDE DEF d
<1> QED BY <1>1, <1>2

\* A task begins.
LEMMA BeginningKeeps ==
  ASSUME ClientInv,
         \/ \E t \in Tool, a \in CarAccess : BeginLaunch(t, a)
         \/ \E a \in CarAccess : BeginRemove({r \in registry : r.access = a})
         \/ \E r \in registry : BeginRemove({r})
         \/ BeginList \/ BeginRecover
  PROVE  ClientInv'
<1> USE DEF Files
<1>1. /\ UNCHANGED <<config, snap, marker, registry, setting>> /\ clients' = clients /\ clients \subseteq Process
      /\ registry \subseteq Instance /\ ListedInstances \subseteq Process
  BY DEF ClientInv, ClientShapes, BeginLaunch, BeginRemove, BeginList, BeginRecover, ListedInstances
<1>2. ASSUME NEW t \in Tool, NEW a \in CarAccess, BeginLaunch(t, a) PROVE ClientInv'
  <2>1. PICK stale \in SUBSET registry :
           task' = [NoTask EXCEPT !.pc = "choose", !.tool = t, !.access = a, !.seen = ListedInstances,
                                  !.list = registry \ stale,
                                  !.todo = CleanupAll(stale) \o Saving(registry \ stale)]
    <3> DEFINE idle == {r \in registry : ~Possible(r, ListedInstances)}
    <3>1. \E young \in Young(idle) :
             task' = [NoTask EXCEPT !.pc = "choose", !.tool = t, !.access = a, !.seen = ListedInstances,
                                    !.list = registry \ (idle \ young),
                                    !.todo = CleanupAll(idle \ young) \o Saving(registry \ (idle \ young))]
      BY <1>2 DEF BeginLaunch
    <3> QED BY <3>1
  <2> DEFINE todo == CleanupAll(stale) \o Saving(registry \ stale)
  <2>2. todo \in Seq(Harmless)
    <3>1. stale \in SUBSET Instance /\ registry \ stale \in SUBSET Instance
      BY <1>1
    <3> QED BY <3>1, CleanupAllIsHarmless, SavingIsHarmless
  <2> HIDE DEF todo
  <2>3. task' = [NoTask EXCEPT !.pc = "choose", !.tool = t, !.access = a, !.seen = ListedInstances,
                                  !.list = registry \ stale, !.todo = todo]
    BY <2>1 DEF todo
  <2>4. todo \in Seq(Deed) /\ Orderly(todo, config, snap)
    BY <2>2, HarmlessIsOrderly
  <2>5. task' \in TaskRecord /\ task'.pc = "choose" /\ task'.tool = t /\ task'.access = a /\ task'.todo = todo
    BY <2>3, <2>4, <1>1, RestIsTyped DEF TaskRecord, NoTask, Steps
  <2> QED BY <2>4, <2>5, <1>1, TaskStepKeeps
<1>3. ASSUME NEW R \in SUBSET registry, BeginRemove(R) PROVE ClientInv'
  <2>1. task' = [NoTask EXCEPT !.pc = "remove", !.left = R, !.list = registry]
    BY <1>3 DEF BeginRemove
  <2>2. task' \in TaskRecord /\ task'.pc = "remove" /\ task'.todo = <<>>
    BY <2>1, <1>1, RestIsTyped DEF TaskRecord, NoTask, Steps
  <2> QED BY <2>2, <1>1, TaskStepKeeps, RestIsTyped, HarmlessIsOrderly DEF OfLaunch
<1>4. CASE BeginList
  <2>1. PICK stale \in SUBSET registry :
           task' = [NoTask EXCEPT !.pc = "end", !.seen = ListedInstances,
                                  !.todo = CleanupAll(stale) \o Saving(registry \ stale)]
    <3> DEFINE idle == {r \in registry : ~Possible(r, ListedInstances)}
    <3>1. \E young \in Young(idle) :
             task' = [NoTask EXCEPT !.pc = "end", !.seen = ListedInstances,
                                    !.todo = CleanupAll(idle \ young) \o Saving(registry \ (idle \ young))]
      BY <1>4 DEF BeginList
    <3> QED BY <3>1
  <2> DEFINE todo == CleanupAll(stale) \o Saving(registry \ stale)
  <2>2. todo \in Seq(Harmless)
    <3>1. stale \in SUBSET Instance /\ registry \ stale \in SUBSET Instance
      BY <1>1
    <3> QED BY <3>1, CleanupAllIsHarmless, SavingIsHarmless
  <2> HIDE DEF todo
  <2>3. task' = [NoTask EXCEPT !.pc = "end", !.seen = ListedInstances, !.todo = todo]
    BY <2>1 DEF todo
  <2>4. todo \in Seq(Deed) /\ Orderly(todo, config, snap)
    BY <2>2, HarmlessIsOrderly
  <2>5. task' \in TaskRecord /\ task'.pc = "end" /\ task'.todo = todo
    BY <2>3, <2>4, <1>1, RestIsTyped DEF TaskRecord, NoTask, Steps
  <2> QED BY <2>4, <2>5, <1>1, TaskStepKeeps DEF OfLaunch
<1>5. CASE BeginRecover
  <2>1. CASE task' = [NoTask EXCEPT !.pc = "end", !.todo = Migration]
    <3>1. Migration \in Seq(Harmless)
      BY MigrationIsHarmless DEF ClientInv
    <3>2. Migration \in Seq(Deed) /\ Orderly(Migration, config, snap)
      BY <3>1, HarmlessIsOrderly
    <3>3. task' \in TaskRecord /\ task'.pc = "end" /\ task'.todo = Migration
      BY <2>1, <3>2, RestIsTyped DEF TaskRecord, NoTask, Steps
    <3> QED BY <3>2, <3>3, <1>1, TaskStepKeeps DEF OfLaunch
  <2>2. CASE task' = [NoTask EXCEPT !.pc = "recover", !.seen = ListedInstances, !.left = registry]
    <3>1. task' \in TaskRecord /\ task'.pc = "recover" /\ task'.todo = <<>>
      BY <2>2, <1>1, RestIsTyped DEF TaskRecord, NoTask, Steps
    <3> QED BY <3>1, <1>1, TaskStepKeeps, RestIsTyped, HarmlessIsOrderly DEF OfLaunch
  <2> QED BY <2>1, <2>2, <1>5 DEF BeginRecover
<1>6. \A a \in CarAccess : {r \in registry : r.access = a} \in SUBSET registry
  OBVIOUS
<1>7. \A r \in registry : {r} \in SUBSET registry
  OBVIOUS
<1> QED BY <1>2, <1>3, <1>4, <1>5, <1>6, <1>7

\* A client that did not start is undone.
LEMMA UndoIsTyped ==
  ASSUME ClientInv, task.pc \in OfLaunch
  PROVE  Undo \in TaskRecord /\ Undo.pc = "end" /\ Undo.todo \in Seq(Harmless)
<1> DEFINE todo == IF NewRecord \in registry THEN Cleanup(NewRecord) \o Saving(registry \ {NewRecord}) ELSE <<>>
<1>1. task \in TaskRecord /\ registry \subseteq Instance /\ NewRecord \in Instance
  BY DEF ClientInv, ClientShapes, NewRecord, Instance
<1>2. todo \in Seq(Harmless)
  <2>1. Cleanup(NewRecord) \in Seq(Harmless) /\ Saving(registry \ {NewRecord}) \in Seq(Harmless)
    BY <1>1, CleanupIsHarmless, SavingIsHarmless
  <2> QED BY <2>1, RestIsTyped
<1>3. Undo = [task EXCEPT !.pc = "end", !.todo = todo]
  BY DEF Undo
<1> HIDE DEF todo
<1>4. "end" \in Steps
  BY DEF Steps
<1>5. todo \in Seq(Deed)
  BY <1>2, FreshTask, RestIsTyped
<1> QED BY <1>1, <1>2, <1>3, <1>4, <1>5 DEF TaskRecord

\* A step of the task after which its list holds nothing but such operations.
LEMMA HarmlessTaskKeeps ==
  ASSUME ClientInv, UNCHANGED <<config, snap, marker, registry, setting>>, clients' \subseteq Process,
         task' \in TaskRecord, task'.todo \in Seq(Harmless),
         task'.pc \in OfLaunch => task'.tool \in Tool /\ task'.access \in CarAccess
  PROVE  ClientInv'
BY TaskStepKeeps, HarmlessIsOrderly

\* Lists of the lengths of Prepare.
LEMMA FiveAndOne ==
  ASSUME NEW e1, NEW e2, NEW e3, NEW e4, NEW e5, NEW e6
  PROVE  <<e1, e2, e3, e4, e5>> \o <<e6>> = <<e1, e2, e3, e4, e5, e6>>
<1> DEFINE S == {e1, e2, e3, e4, e5, e6}
           A == <<e1, e2, e3, e4, e5>> \o <<e6>>
           B == <<e1, e2, e3, e4, e5, e6>>
<1>1. A \in Seq(S) /\ B \in Seq(S) /\ Len(A) = 6 /\ Len(B) = 6
  OBVIOUS
<1>2. \A i \in 1 .. 6 : A[i] = B[i]
  <2>1. A[1] = e1 /\ A[2] = e2 /\ A[3] = e3 /\ A[4] = e4 /\ A[5] = e5 /\ A[6] = e6
    OBVIOUS
  <2> QED BY <2>1
<1> HIDE DEF A, B, S
<1>3. A = B
  BY <1>1, <1>2, SeqEqual
<1> QED BY <1>3 DEF A, B

\* The same for a client that is given a profile.
LEMMA TwoAndOne ==
  ASSUME NEW e1, NEW e2, NEW e3
  PROVE  <<e1, e2>> \o <<e3>> = <<e1, e2, e3>>
<1> DEFINE S == {e1, e2, e3}
           A == <<e1, e2>> \o <<e3>>
           B == <<e1, e2, e3>>
<1>1. A \in Seq(S) /\ B \in Seq(S) /\ Len(A) = 3 /\ Len(B) = 3
  OBVIOUS
<1>2. \A i \in 1 .. 3 : A[i] = B[i]
  <2>1. A[1] = e1 /\ A[2] = e2 /\ A[3] = e3
    OBVIOUS
  <2> QED BY <2>1
<1> HIDE DEF A, B, S
<1>3. A = B
  BY <1>1, <1>2, SeqEqual
<1> QED BY <1>3 DEF A, B

\* A launch: restore, back up, then route.
LEMMA PrepareKeeps ==
  ASSUME ClientInv, Prepare
  PROVE  ClientInv'
<1> DEFINE t == task.tool
           a == task.access
           R == task.list \cup {NewRecord}
           d1 == [do |-> "restore", tool |-> t]
           d2 == [do |-> "mkdir", tool |-> t]
           d3 == [do |-> "manifest", tool |-> t]
           d4 == [do |-> "route", tool |-> t, as |-> a]
           d5 == [do |-> "mark", tool |-> t]
           d6 == [do |-> "save", list |-> R]
           p1 == [do |-> "rmprofile", tool |-> t, access |-> a]
           p2 == [do |-> "mkprofile", tool |-> t, access |-> a]
           todo == IF t \in Store THEN <<d1, d2, d3, d4, d5, d6>> ELSE <<p1, p2, d6>>
<1>1. /\ t \in Tool /\ a \in CarAccess /\ R \in SUBSET Instance /\ task \in TaskRecord
      /\ UNCHANGED <<config, snap, marker, registry, setting>> /\ clients' \subseteq Process
  <2>1. task.pc = "choose" /\ UNCHANGED <<clients, config, snap, marker, registry, setting>>
    BY DEF Prepare, Ready, Files
  <2>2. t \in Tool /\ a \in CarAccess /\ task \in TaskRecord
    BY <2>1 DEF ClientInv, ClientShapes, OfLaunch
  <2>3. NewRecord \in Instance /\ task.list \in SUBSET Instance
    BY <2>2 DEF NewRecord, Instance, TaskRecord
  <2> QED BY <2>1, <2>2, <2>3 DEF ClientInv, ClientShapes
<1>2. /\ d1 \in Deed /\ d2 \in Deed /\ d3 \in Deed /\ d4 \in Deed /\ d5 \in Deed /\ d6 \in Deed
      /\ p1 \in Deed /\ p2 \in Deed
  BY <1>1 DEF Deed
<1>3. task' = [task EXCEPT !.pc = "spawn", !.todo = todo]
  <2>1. Saving(R) = <<d6>>
    BY DEF Saving
  <2> DEFINE s1 == <<d1, d2, d3, d4, d5>>
             s2 == <<p1, p2>>
  <2>2. task' = [task EXCEPT !.pc = "spawn", !.todo = (IF t \in Store THEN s1 ELSE s2) \o <<d6>>]
    BY <2>1 DEF Prepare
  <2>3. s1 \o <<d6>> = <<d1, d2, d3, d4, d5, d6>> /\ s2 \o <<d6>> = <<p1, p2, d6>>
    <3> HIDE DEF d1, d2, d3, d4, d5, d6, p1, p2
    <3>1. <<d1, d2, d3, d4, d5>> \o <<d6>> = <<d1, d2, d3, d4, d5, d6>>
      BY FiveAndOne
    <3>2. <<p1, p2>> \o <<d6>> = <<p1, p2, d6>>
      BY TwoAndOne
    <3> QED BY <3>1, <3>2
  <2> HIDE DEF s1, s2
  <2> QED BY <2>2, <2>3
<1>4. /\ d1.do = "restore" /\ d1.tool = t /\ d2.do = "mkdir" /\ d3.do = "manifest" /\ d3.tool = t
      /\ d4.do = "route" /\ d4.tool = t /\ d5.do = "mark" /\ d6.do = "save"
      /\ p1.do = "rmprofile" /\ p2.do = "mkprofile"
  OBVIOUS
<1>5. todo \in Seq(Deed) /\ Orderly(todo, config, snap)
  <2> HIDE DEF d1, d2, d3, d4, d5, d6, p1, p2
  <2>1. CASE t \in Store
    <3>1. /\ todo \in Seq(Deed) /\ DOMAIN todo = 1 .. 6
          /\ todo[1] = d1 /\ todo[2] = d2 /\ todo[3] = d3 /\ todo[4] = d4 /\ todo[5] = d5 /\ todo[6] = d6
      BY <1>2, <2>1
    <3> HIDE DEF todo, t
    <3>2. ASSUME NEW i \in 1 .. 6 PROVE i = 1 \/ i = 2 \/ i = 3 \/ i = 4 \/ i = 5 \/ i = 6
      OBVIOUS
    <3>3. 1 \in 1 .. 3 - 1 /\ (\A j \in 1 .. 3 - 1 : j = 1 \/ j = 2) /\ 4 - 1 = 3
      OBVIOUS
    <3> QED BY <3>1, <3>2, <3>3, <2>1, <1>4 DEF Orderly
  <2>2. CASE t \notin Store
    <3>1. todo \in Seq(Deed) /\ DOMAIN todo = 1 .. 3 /\ todo[1] = p1 /\ todo[2] = p2 /\ todo[3] = d6
      BY <1>2, <2>2
    <3> HIDE DEF todo, t
    <3>2. ASSUME NEW i \in 1 .. 3 PROVE i = 1 \/ i = 2 \/ i = 3
      OBVIOUS
    <3> QED BY <3>1, <3>2, <1>4 DEF Orderly
  <2> QED BY <2>1, <2>2
<1> HIDE DEF todo
<1>6. task' \in TaskRecord /\ task'.pc = "spawn" /\ task'.tool = t /\ task'.access = a /\ task'.todo = todo
  BY <1>1, <1>3, <1>5 DEF TaskRecord, Steps
<1> QED BY <1>1, <1>5, <1>6, TaskStepKeeps

\* The client starts, or does not.
LEMMA LaunchingKeeps ==
  ASSUME ClientInv, Spawn \/ SeeReady \/ WaitEnds \/ Unsaved
  PROVE  ClientInv'
<1> USE DEF Files
<1>1. /\ UNCHANGED <<config, snap, marker, registry, setting>> /\ task.pc \in OfLaunch
      /\ task.tool \in Tool /\ task.access \in CarAccess /\ task \in TaskRecord /\ clients \subseteq Process
      /\ task.todo = <<>>
  <2>1. /\ UNCHANGED <<config, snap, marker, registry, setting>> /\ task.pc \in {"spawn", "wait", "unsaved"}
        /\ task.todo = <<>>
    BY DEF Spawn, SeeReady, WaitEnds, Unsaved, Ready
  <2> QED BY <2>1 DEF ClientInv, ClientShapes, OfLaunch
<1>2. NewRecord \in Instance /\ [NewRecord EXCEPT !.ready = TRUE] \in Instance
  BY <1>1 DEF NewRecord, Instance
<1>3. clients' \subseteq Process
  <2>1. CASE Spawn
    <3>1. config[task.tool] \in CarAccess \cup {"own"}
      BY <1>1 DEF ClientInv, ClientShapes
    <3>2. (IF task.tool \in Store THEN config[task.tool] ELSE task.access) \in CarAccess \cup {"own"}
      BY <1>1, <3>1
    <3>3. Slow \in BOOLEAN
      BY ClientAssumption DEF ClientInv, ClientShapes, Slow
    <3>4. [tool |-> task.tool, ours |-> TRUE, named |-> FALSE, shown |-> ~Slow,
           with |-> IF task.tool \in Store THEN config[task.tool] ELSE task.access] \in Process
      <4> DEFINE w == IF task.tool \in Store THEN config[task.tool] ELSE task.access
                 sh == ~Slow
      <4>1. w \in CarAccess \cup {"own"} /\ sh \in BOOLEAN
        BY <3>2, <3>3
      <4> HIDE DEF w, sh
      <4>2. [tool |-> task.tool, ours |-> TRUE, named |-> FALSE, shown |-> sh, with |-> w] \in Process
        BY <4>1, <1>1 DEF Process
      <4> QED BY <4>2 DEF w, sh
    <3> QED BY <1>1, <2>1, <3>4 DEF Spawn
  <2>2. CASE SeeReady
    <3>1. PICK p \in ListedInstances : clients' = (clients \ {p}) \cup {[p EXCEPT !.named = TRUE]}
      BY <2>2 DEF SeeReady
    <3>2. p \in Process
      BY <1>1 DEF ListedInstances
    <3>3. [p EXCEPT !.named = TRUE] \in Process
      BY <3>2 DEF Process
    <3> QED BY <1>1, <3>1, <3>3
  <2>3. CASE WaitEnds \/ Unsaved
    BY <1>1, <2>3 DEF WaitEnds, Unsaved
  <2> QED BY <2>1, <2>2, <2>3
<1>4. CASE task' = Undo
  BY <1>1, <1>3, <1>4, UndoIsTyped, HarmlessTaskKeeps DEF OfLaunch
<1>5. CASE task' = NoTask
  BY <1>1, <1>3, <1>5, RestIsTyped, HarmlessTaskKeeps DEF OfLaunch
<1>6. CASE Spawn /\ task' = [task EXCEPT !.pc = "wait"]
  <2>1. /\ task' \in TaskRecord /\ task'.tool = task.tool /\ task'.access = task.access /\ task'.todo = <<>>
    BY <1>1, <1>6 DEF TaskRecord, Steps
  <2> QED BY <1>1, <1>3, <2>1, RestIsTyped, HarmlessTaskKeeps
<1>7. CASE SeeReady
  <2> DEFINE R == (task.list \ {NewRecord}) \cup {[NewRecord EXCEPT !.ready = TRUE]}
             todo == Saving(R)
  <2>1. task' = [task EXCEPT !.pc = "ready", !.todo = todo]
    BY <1>7 DEF SeeReady
  <2>2. R \in SUBSET Instance
    BY <1>1, <1>2 DEF TaskRecord
  <2>3. todo \in Seq(Harmless) /\ todo \in Seq(Deed)
    BY <2>2, SavingIsHarmless, FreshTask, RestIsTyped
  <2> HIDE DEF todo
  <2>4. task' \in TaskRecord /\ task'.tool = task.tool /\ task'.access = task.access /\ task'.todo = todo
    BY <1>1, <2>1, <2>3 DEF TaskRecord, Steps
  <2> QED BY <1>1, <1>3, <2>3, <2>4, HarmlessTaskKeeps
<1> QED BY <1>4, <1>5, <1>6, <1>7 DEF Spawn, WaitEnds, Unsaved

\* A record is settled, and what older versions left.
LEMMA PuttingBackKeeps ==
  ASSUME ClientInv, Settle \/ Recovered
  PROVE  ClientInv'
<1> USE DEF Files
<1>1. /\ UNCHANGED <<config, snap, marker, registry, setting>> /\ task.todo = <<>>
      /\ task.pc \in {"remove", "recover"} /\ task \in TaskRecord /\ clients \subseteq Process
      /\ registry \in SUBSET Instance
  BY DEF Settle, Recovered, Ready, ClientInv, ClientShapes
<1>2. CASE Settle
  <2>1. PICK r \in task.left :
           \E seen \in SUBSET Process :
             \/ /\ clients' \subseteq clients
                /\ task' = [[task EXCEPT !.left = @ \ {r}, !.seen = seen] EXCEPT !.about = {r}, !.todo = Cleanup(r) \o
                            (IF task.pc = "remove" THEN Saving(registry \ {r}) ELSE <<>>)]
             \/ /\ clients' = clients
                /\ task' = IF task.pc = "remove" THEN NoTask
                           ELSE [[task EXCEPT !.left = @ \ {r}, !.seen = seen] EXCEPT !.list = @ \cup {r}]
    <3>1. PICK r \in task.left :
             LET seen == IF task.pc = "remove" THEN ListedInstances ELSE task.seen
                 rest == [task EXCEPT !.left = @ \ {r}, !.seen = seen] IN
             \/ /\ clients' = IF Matching(r, seen)
                              THEN {p \in clients : ~(Fits(p, r) /\ p.named)} ELSE clients
                /\ task' = [rest EXCEPT !.about = {r}, !.todo = Cleanup(r) \o
                                (IF task.pc = "remove" THEN Saving(registry \ {r}) ELSE <<>>)]
             \/ /\ clients' = clients
                /\ task' = IF task.pc = "remove" THEN NoTask
                           ELSE [rest EXCEPT !.list = @ \cup {r}]
      BY <1>2 DEF Settle
    <3> DEFINE seen == IF task.pc = "remove" THEN ListedInstances ELSE task.seen
    <3>2. seen \in SUBSET Process
      BY <1>1 DEF ListedInstances, TaskRecord
    <3>3. clients' \subseteq clients
      BY <3>1
    <3> QED BY <3>1, <3>2, <3>3
  <2>2. PICK seen \in SUBSET Process :
             \/ /\ clients' \subseteq clients
                /\ task' = [[task EXCEPT !.left = @ \ {r}, !.seen = seen] EXCEPT !.about = {r}, !.todo = Cleanup(r) \o
                            (IF task.pc = "remove" THEN Saving(registry \ {r}) ELSE <<>>)]
             \/ /\ clients' = clients
                /\ task' = IF task.pc = "remove" THEN NoTask
                           ELSE [[task EXCEPT !.left = @ \ {r}, !.seen = seen] EXCEPT !.list = @ \cup {r}]
    BY <2>1
  <2> DEFINE rest == [task EXCEPT !.left = @ \ {r}, !.seen = seen]
             todo == Cleanup(r) \o (IF task.pc = "remove" THEN Saving(registry \ {r}) ELSE <<>>)
  <2>3. r \in Instance /\ rest \in TaskRecord /\ rest.todo = <<>> /\ rest.pc = task.pc
    BY <1>1 DEF TaskRecord
  <2>4. clients' \subseteq Process
    BY <1>1, <2>2
  <2>5. todo \in Seq(Harmless) /\ todo \in Seq(Deed)
    <3>1. Cleanup(r) \in Seq(Harmless) /\ Saving(registry \ {r}) \in Seq(Harmless)
      BY <1>1, <2>3, CleanupIsHarmless, SavingIsHarmless
    <3>2. todo \in Seq(Harmless)
      BY <3>1, RestIsTyped
    <3> QED BY <3>2, FreshTask, RestIsTyped
  <2> HIDE DEF rest, todo
  <2>6. CASE task' = [rest EXCEPT !.about = {r}, !.todo = todo]
    <3>1. task' \in TaskRecord /\ task'.pc = task.pc /\ task'.todo = todo
      BY <2>3, <2>5, <2>6 DEF TaskRecord
    <3> QED BY <1>1, <2>4, <2>5, <3>1, HarmlessTaskKeeps DEF OfLaunch
  <2>7. CASE task' = NoTask
    BY <1>1, <2>4, <2>7, RestIsTyped, HarmlessTaskKeeps DEF OfLaunch
  <2>8. CASE task' = [rest EXCEPT !.list = @ \cup {r}]
    <3>1. task' \in TaskRecord /\ task'.pc = task.pc /\ task'.todo = <<>>
      BY <2>3, <2>8 DEF TaskRecord
    <3> QED BY <1>1, <2>4, <3>1, RestIsTyped, HarmlessTaskKeeps DEF OfLaunch
  <2> QED BY <2>2, <2>6, <2>7, <2>8 DEF rest, todo
<1>3. CASE Recovered
  <2> DEFINE todo == Saving(task.list) \o (IF task.list = {} THEN Migration ELSE <<>>)
  <2>1. todo \in Seq(Harmless) /\ todo \in Seq(Deed)
    <3>1. Saving(task.list) \in Seq(Harmless) /\ Migration \in Seq(Harmless)
      BY <1>1, MigrationIsHarmless, SavingIsHarmless DEF ClientInv, TaskRecord
    <3>2. todo \in Seq(Harmless)
      BY <3>1, RestIsTyped
    <3> QED BY <3>2, FreshTask, RestIsTyped
  <2>2. task' = [task EXCEPT !.pc = "end", !.todo = todo] /\ clients' = clients
    BY <1>3 DEF Recovered
  <2> HIDE DEF todo
  <2>3. task' \in TaskRecord /\ task'.pc = "end" /\ task'.todo = todo
    BY <1>1, <2>1, <2>2 DEF TaskRecord, Steps
  <2> QED BY <1>1, <2>1, <2>2, <2>3, HarmlessTaskKeeps DEF OfLaunch
<1> QED BY <1>2, <1>3

\* An operation fails.
LEMMA FailingKeeps ==
  ASSUME ClientInv, Failed \/ RouteFailed
  PROVE  ClientInv'
<1> USE DEF Files
<1>1. /\ UNCHANGED <<config, snap, marker, registry, setting>> /\ clients' \subseteq Process
      /\ task \in TaskRecord /\ task.todo # <<>> /\ Head1 \in Deed
  <2>1. /\ UNCHANGED <<config, snap, marker, registry, setting>> /\ clients' \subseteq Process
        /\ task \in TaskRecord /\ task.todo # <<>>
    BY DEF Failed, RouteFailed, Failing, ClientInv, ClientShapes
  <2>2. task.todo \in Seq(Deed)
    BY <2>1 DEF TaskRecord
  <2> QED BY <2>1, <2>2, TailFacts DEF Head1
<1>2. <<>> \in Seq(Deed)
  OBVIOUS
<1>3. CASE Failed
  <2>1. CASE task.pc = "spawn" /\ task' = [task EXCEPT !.pc = "end", !.todo = Rollback]
    <3>1. task.tool \in Tool /\ task.access \in CarAccess
      BY <2>1 DEF ClientInv, ClientShapes, OfLaunch
    <3>2. Rollback \in Seq(Harmless)
      <4>1. Rollback = Cleanup(NewRecord) /\ NewRecord \in Instance
        BY <3>1 DEF Rollback, Cleanup, NewRecord, Instance
      <4> QED BY <4>1, CleanupIsHarmless
    <3>3. Rollback \in Seq(Deed)
      BY <3>2, FreshTask, RestIsTyped
    <3>4. task' \in TaskRecord /\ task'.pc = "end" /\ task'.todo = Rollback
      BY <1>1, <2>1, <3>3 DEF TaskRecord, Steps
    <3> QED BY <1>1, <3>2, <3>4, HarmlessTaskKeeps DEF OfLaunch
  <2>2. CASE task.pc = "ready" /\ task' = [task EXCEPT !.pc = "unsaved", !.todo = <<>>]
    <3>1. task.tool \in Tool /\ task.access \in CarAccess
      BY <2>2 DEF ClientInv, ClientShapes, OfLaunch
    <3>2. task' \in TaskRecord /\ task'.todo = <<>> /\ task'.tool = task.tool /\ task'.access = task.access
      BY <1>1, <2>2, <1>2 DEF TaskRecord, Steps
    <3> QED BY <1>1, <3>1, <3>2, RestIsTyped, HarmlessTaskKeeps
  <2>3. CASE task.pc = "recover" /\ task' = [task EXCEPT !.todo = <<>>, !.list = @ \cup task.about]
    <3>1. task' \in TaskRecord /\ task'.todo = <<>> /\ task'.pc = "recover"
      BY <1>1, <2>3, <1>2 DEF TaskRecord, Steps
    <3> QED BY <1>1, <3>1, RestIsTyped, HarmlessTaskKeeps DEF OfLaunch
  <2>4. CASE task' = NoTask
    BY <1>1, <2>4, RestIsTyped, HarmlessTaskKeeps DEF OfLaunch
  <2> QED BY <1>3, <2>1, <2>2, <2>3, <2>4 DEF Failed
<1>4. CASE RouteFailed
  <2>1. Head1.tool \in Tool
    BY <1>1, <1>4, DeedFacts DEF RouteFailed, Doing
  <2> DEFINE d == [do |-> "restore", tool |-> Head1.tool]
  <2>2. task' = [task EXCEPT !.pc = "end", !.todo = <<d>>]
    BY <1>4 DEF RouteFailed
  <2>3. d \in Harmless
    BY <2>1, HarmlessDeeds
  <2> HIDE DEF d
  <2>4. <<d>> \in Seq(Harmless)
    BY <2>3
  <2>5. <<d>> \in Seq(Deed)
    BY <2>4, FreshTask, RestIsTyped
  <2>6. task' \in TaskRecord /\ task'.pc = "end" /\ task'.todo = <<d>>
    BY <1>1, <2>2, <2>5 DEF TaskRecord, Steps
  <2> QED BY <1>1, <2>4, <2>6, HarmlessTaskKeeps DEF OfLaunch
<1> QED BY <1>3, <1>4

\* The task ends, or the application does.
LEMMA EndingKeeps ==
  ASSUME ClientInv, LaunchNothing \/ FinishTask \/ ClientCrash
  PROVE  ClientInv'
<1>1. /\ UNCHANGED <<config, snap, marker, registry, setting>> /\ clients' \subseteq Process /\ task' = NoTask
  BY DEF LaunchNothing, FinishTask, ClientCrash, Files, ClientInv, ClientShapes
<1> QED BY <1>1, RestIsTyped, HarmlessTaskKeeps DEF OfLaunch

\* Clients and users.
LEMMA ClientsKeep ==
  ASSUME ClientInv,
         \/ \E p \in clients : Appears(p) \/ Exits(p) \/ Renews(p)
         \/ \E t \in Tool : UserStarts(t)
  PROVE  ClientInv'
<1>1. UNCHANGED <<config, snap, marker, registry, setting, task>>
  BY DEF Appears, Exits, Renews, UserStarts, Files
<1>2. clients \subseteq Process
  BY DEF ClientInv, ClientShapes
<1>3. ASSUME NEW p \in clients, Appears(p) \/ Exits(p) \/ Renews(p) PROVE clients' \subseteq Process
  <2>1. p \in Process
    BY <1>2
  <2>2. [p EXCEPT !.shown = TRUE] \in Process /\ [p EXCEPT !.named = FALSE] \in Process
    BY <2>1 DEF Process
  <2> QED BY <1>2, <1>3, <2>2 DEF Appears, Exits, Renews
<1>4. ASSUME NEW t \in Tool, UserStarts(t) PROVE clients' \subseteq Process
  <2>1. config[t] \in CarAccess \cup {"own"}
    BY DEF ClientInv, ClientShapes
  <2>2. [tool |-> t, ours |-> FALSE, shown |-> TRUE, named |-> FALSE, with |-> config[t]] \in Process
    BY <2>1 DEF Process
  <2> QED BY <1>2, <1>4, <2>2 DEF UserStarts
<1>5. clients' \subseteq Process
  BY <1>3, <1>4
<1> QED BY <1>1, <1>5, TaskStepKeeps DEF ClientInv, ClientShapes

\* An operation of the list is carried out.
LEMMA FileStepKeeps ==
  ASSUME ClientInv, FileStep
  PROVE  ClientInv'
<1> DEFINE todo == task.todo
<1>1. /\ setting' = setting /\ clients' = clients /\ todo # <<>> /\ todo \in Seq(Deed) /\ task \in TaskRecord
      /\ Orderly(todo, config, snap)
  BY DEF FileStep, RestoreNothing, Restore, EmptySnap, SnapFiles, Route, Mark, Profile, Save, Doing,
         ClientInv, ClientShapes, TaskRecord
<1>2. /\ Tail(todo) \in Seq(Deed) /\ 1 \in DOMAIN todo /\ Head1 = todo[1] /\ Head1 \in Deed
  BY <1>1, TailFacts DEF Head1
<1>3. /\ Head1.do # "save" => Head1.tool \in Tool
      /\ Head1.do \in {"rmprofile", "mkprofile"} => Head1.access \in CarAccess
      /\ Head1.do = "route" => Head1.as \in CarAccess
      /\ Head1.do = "save" => Head1.list \in SUBSET Instance
  BY <1>2, DeedFacts
<1>4. /\ Head1.do \in {"empty", "rmdir"} => config[Head1.tool] = "own"
      /\ Head1.do = "manifest" => config[Head1.tool] = "own" /\ Head1.tool \in Store
      /\ Head1.do = "route" => snap[Head1.tool] = WholeAndOwn
  BY <1>1, <1>2 DEF Orderly
<1>5. ASSUME Orderly(task'.todo, config', snap'), ClientShapes', CopiesAreOwn', OriginalKept'
      PROVE  ClientInv'
  <2>1. Orderly(task.todo, config, snap)'
    BY <1>1, <1>5 DEF Orderly, Store
  <2> QED BY <1>5, <2>1 DEF ClientInv
<1>6. Store' = Store /\ Store \in SUBSET Tool
  BY <1>1, StoreTools DEF Store, ClientInv
<1>7. [task EXCEPT !.todo = Tail(@)] \in TaskRecord /\ [task EXCEPT !.todo = Tail(@)].todo = Tail(todo)
      /\ \A k \in {"pc", "tool", "access"} : [task EXCEPT !.todo = Tail(@)][k] = task[k]
  BY <1>1, <1>2 DEF TaskRecord
<1>8. CASE RestoreNothing
  <2>1. /\ UNCHANGED <<config, snap, marker, registry>> /\ Head1.do = "restore" /\ snap[Head1.tool].dir # "whole"
        /\ task' = [task EXCEPT !.todo = Tail(@)]
    BY <1>8 DEF RestoreNothing, Doing, Going
  <2>2. Head1.tool \in Store => config[Head1.tool] = "own"
    BY <2>1 DEF ClientInv, OriginalKept
  <2>3. Orderly(Tail(todo), config, snap)
    BY <1>1, <1>2, <2>1, <2>2, TailIsOrderly
  <2> QED BY <1>1, <1>7, <2>1, <2>3, TaskStepKeeps DEF ClientInv, ClientShapes
<1>9. CASE Restore
  <2>1. /\ UNCHANGED <<snap, marker, registry>> /\ Head1.do = "restore" /\ snap[Head1.tool].dir = "whole"
        /\ config' = [config EXCEPT ![Head1.tool] = snap[Head1.tool].copy]
        /\ task' = [task EXCEPT !.todo = <<[do |-> "empty", tool |-> Head1.tool]>> \o Tail(@)]
    BY <1>9 DEF Restore, Doing, GoingOn
  <2> DEFINE d == [do |-> "empty", tool |-> Head1.tool]
  <2>2. d \in Deed /\ d.do = "empty" /\ d.tool = Head1.tool
    BY <1>3, <2>1 DEF Deed
  <2>3. /\ snap[Head1.tool].copy = "own" /\ config \in [Tool -> CarAccess \cup {"own"}]
        /\ config' = [config EXCEPT ![Head1.tool] = "own"] /\ config' \in [Tool -> CarAccess \cup {"own"}]
        /\ config'[Head1.tool] = "own" /\ \A t \in Tool : config[t] = "own" => config'[t] = "own"
    BY <1>3, <2>1 DEF ClientInv, ClientShapes, CopiesAreOwn
  <2> HIDE DEF d
  <2>4. <<d>> \o Tail(todo) \in Seq(Deed) /\ Orderly(<<d>> \o Tail(todo), config', snap')
    <3>1. /\ config'[d.tool] = "own" /\ \A t \in Tool : config[t] = "own" => config'[t] = "own"
          /\ todo[1].do \in {"restore", "empty"} /\ d.tool = todo[1].tool
      BY <1>2, <2>1, <2>2, <2>3
    <3> QED BY <1>1, <2>2, <3>1, NextHalfIsOrderly
  <2>5. task' = [task EXCEPT !.todo = <<d>> \o Tail(todo)]
    BY <2>1 DEF d
  <2>6. /\ task' \in TaskRecord /\ task'.todo = <<d>> \o Tail(todo)
        /\ task'.pc = task.pc /\ task'.tool = task.tool /\ task'.access = task.access
    BY <1>1, <2>4, <2>5 DEF TaskRecord
  <2>7. ClientShapes'
    BY <1>1, <2>1, <2>3, <2>6 DEF ClientInv, ClientShapes
  <2>8. CopiesAreOwn' /\ OriginalKept'
    BY <1>6, <2>1, <2>3 DEF ClientInv, CopiesAreOwn, OriginalKept
  <2> QED BY <1>5, <2>4, <2>6, <2>7, <2>8
<1>10. CASE EmptySnap
  <2>1. PICK left \in {"bare", "torn"} : snap' = [snap EXCEPT ![Head1.tool].dir = left]
    BY <1>10 DEF EmptySnap
  <2> DEFINE d == [do |-> "rmdir", tool |-> Head1.tool]
  <2>2. /\ UNCHANGED <<config, marker, registry>> /\ Head1.do = "empty"
        /\ task' = [task EXCEPT !.todo = <<d>> \o Tail(todo)]
    BY <1>10 DEF EmptySnap, Doing, GoingOn
  <2>3. d \in Deed /\ d.do = "rmdir" /\ d.tool = Head1.tool
    BY <1>3, <2>2 DEF Deed
  <2> HIDE DEF d
  <2>4. <<d>> \o Tail(todo) \in Seq(Deed) /\ Orderly(<<d>> \o Tail(todo), config', snap')
    <3>1. /\ config'[d.tool] = "own" /\ \A t \in Tool : config[t] = "own" => config'[t] = "own"
          /\ todo[1].do \in {"restore", "empty"} /\ d.tool = todo[1].tool
      BY <1>2, <1>4, <2>2, <2>3
    <3> QED BY <1>1, <2>3, <3>1, NextHalfIsOrderly
  <2>5. /\ task' \in TaskRecord /\ task'.todo = <<d>> \o Tail(todo)
        /\ task'.pc = task.pc /\ task'.tool = task.tool /\ task'.access = task.access
    BY <1>1, <2>2, <2>4 DEF TaskRecord
  <2>6. /\ snap' \in [Tool -> [dir : {"none", "bare", "whole", "torn"}, copy : CarAccess \cup {"own"}]]
        /\ \A t \in Tool : snap'[t] = snap[t] \/ (t = Head1.tool /\ snap'[t].dir # "whole")
    BY <1>3, <2>1, <2>2 DEF ClientInv, ClientShapes
  <2>7. ClientShapes'
    BY <1>1, <2>2, <2>5, <2>6 DEF ClientInv, ClientShapes
  <2>8. CopiesAreOwn' /\ OriginalKept'
    BY <1>4, <1>6, <2>2, <2>6 DEF ClientInv, CopiesAreOwn, OriginalKept
  <2> QED BY <1>5, <2>4, <2>5, <2>7, <2>8
<1>11. CASE SnapFiles
  <2>1. UNCHANGED <<config, marker, registry>> /\ task' = [task EXCEPT !.todo = Tail(@)]
        /\ Head1.do \in {"rmdir", "mkdir", "manifest"}
    BY <1>11 DEF SnapFiles, Going, Doing
  <2>2. /\ snap' \in [Tool -> [dir : {"none", "bare", "whole", "torn"}, copy : CarAccess \cup {"own"}]]
        /\ \A t \in Tool : \/ snap'[t] = snap[t]
                           \/ snap'[t].dir # "whole" /\ snap[t].dir = "none"
                           \/ snap'[t].dir # "whole" /\ t = Head1.tool /\ config[t] = "own"
                           \/ snap'[t] = WholeAndOwn
        /\ Head1.do = "manifest" => snap'[Head1.tool] = WholeAndOwn
    <3>1. Head1.tool \in Tool /\ snap \in [Tool -> [dir : {"none", "bare", "whole", "torn"}, copy : CarAccess \cup {"own"}]]
      BY <1>3, <2>1 DEF ClientInv, ClientShapes
    <3>2. NoSnap \in [dir : {"none", "bare", "whole", "torn"}, copy : CarAccess \cup {"own"}] /\ NoSnap.dir = "none"
      BY DEF NoSnap
    <3>3. WholeAndOwn \in [dir : {"none", "bare", "whole", "torn"}, copy : CarAccess \cup {"own"}]
      BY DEF WholeAndOwn
    <3>4. CASE Head1.do = "rmdir"
      <4>1. snap' = [snap EXCEPT ![Head1.tool] = NoSnap]
        BY <1>11, <3>4 DEF SnapFiles, Doing
      <4> QED BY <1>4, <3>1, <3>2, <3>4, <4>1
    <3>5. CASE Head1.do = "mkdir"
      <4>1. snap' = [snap EXCEPT ![Head1.tool].dir = IF @ = "none" THEN "bare" ELSE @]
        BY <1>11, <3>5 DEF SnapFiles, Doing
      <4>2. CASE snap[Head1.tool].dir = "none"
        <5>1. snap' = [snap EXCEPT ![Head1.tool].dir = "bare"]
          BY <4>1, <4>2
        <5> QED BY <3>1, <3>5, <4>2, <5>1
      <4>3. CASE snap[Head1.tool].dir # "none"
        <5>1. snap' = [snap EXCEPT ![Head1.tool].dir = snap[Head1.tool].dir]
          BY <4>1, <4>3
        <5>2. snap' = snap
          BY <3>1, <5>1
        <5> QED BY <3>1, <3>5, <5>2
      <4> QED BY <4>2, <4>3
    <3>6. CASE Head1.do = "manifest"
      <4>1. snap' = [snap EXCEPT ![Head1.tool] = WholeAndOwn]
        BY <1>4, <1>11, <3>6 DEF SnapFiles, Doing, WholeAndOwn
      <4> QED BY <3>1, <3>3, <4>1
    <3> QED BY <2>1, <3>4, <3>5, <3>6
  <2>3. Orderly(Tail(todo), config', snap')
    BY <1>1, <1>2, <2>1, <2>2, TailIsOrderly
  <2>4. ClientShapes'
    BY <1>1, <1>7, <2>1, <2>2 DEF ClientInv, ClientShapes
  <2>5. CopiesAreOwn' /\ OriginalKept'
    BY <1>4, <1>6, <2>1, <2>2 DEF ClientInv, CopiesAreOwn, OriginalKept, WholeAndOwn
  <2> QED BY <1>5, <1>7, <2>1, <2>3, <2>4, <2>5
<1>12. CASE Route
  <2>1. /\ UNCHANGED <<snap, marker, registry>> /\ task' = [task EXCEPT !.todo = Tail(@)]
        /\ Head1.do = "route" /\ config' = [config EXCEPT ![Head1.tool] = Head1.as]
    BY <1>12 DEF Route, Going, Doing
  <2>2. /\ config' \in [Tool -> CarAccess \cup {"own"}]
        /\ \A t \in Tool : t # Head1.tool => config'[t] = config[t]
    BY <1>3, <2>1 DEF ClientInv, ClientShapes
  <2>3. Orderly(Tail(todo), config', snap')
    BY <1>1, <1>2, <2>1, TailIsOrderly
  <2>4. ClientShapes'
    BY <1>1, <1>7, <2>1, <2>2 DEF ClientInv, ClientShapes
  <2>5. CopiesAreOwn' /\ OriginalKept'
    BY <1>4, <1>6, <2>1, <2>2 DEF ClientInv, CopiesAreOwn, OriginalKept, WholeAndOwn
  <2> QED BY <1>5, <1>7, <2>1, <2>3, <2>4, <2>5
<1>13. CASE Mark \/ Profile
  <2>1. /\ UNCHANGED <<config, snap, registry>> /\ task' = [task EXCEPT !.todo = Tail(@)]
        /\ Head1.do \in {"mark", "unmark", "rmprofile", "mkprofile"}
    BY <1>13 DEF Mark, Profile, Going, Doing
  <2>2. Orderly(Tail(todo), config', snap')
    BY <1>1, <1>2, <2>1, TailIsOrderly
  <2>3. marker' \in [Tool -> CarAccess \cup {"none"}]
    <3>1. marker \in [Tool -> CarAccess \cup {"none"}] /\ task.access \in CarAccess \cup {"none"}
      BY <1>1 DEF ClientInv, ClientShapes, TaskRecord
    <3>2. (IF Doing("mark") THEN task.access ELSE "none") \in CarAccess \cup {"none"}
      BY <3>1
    <3> QED BY <3>1, <3>2, <1>13 DEF Mark, Profile
  <2>4. ClientShapes'
    BY <1>1, <1>7, <2>1, <2>3 DEF ClientInv, ClientShapes
  <2>5. CopiesAreOwn' /\ OriginalKept'
    BY <1>6, <2>1 DEF ClientInv, CopiesAreOwn, OriginalKept
  <2> QED BY <1>5, <1>7, <2>1, <2>2, <2>4, <2>5
<1>14. CASE Save
  <2>1. /\ UNCHANGED <<config, snap, marker>> /\ registry' = Head1.list /\ Head1.do = "save"
        /\ task' = [task EXCEPT !.todo = Tail(@), !.list = Head1.list]
    BY <1>14 DEF Save, Doing
  <2>2. /\ task' \in TaskRecord /\ task'.todo = Tail(todo)
        /\ task'.pc = task.pc /\ task'.tool = task.tool /\ task'.access = task.access
    BY <1>1, <1>2, <1>3, <2>1 DEF TaskRecord
  <2>3. Orderly(Tail(todo), config', snap')
    BY <1>1, <1>2, <2>1, TailIsOrderly
  <2>4. ClientShapes'
    BY <1>1, <1>3, <2>1, <2>2 DEF ClientInv, ClientShapes
  <2>5. CopiesAreOwn' /\ OriginalKept'
    BY <1>6, <2>1 DEF ClientInv, CopiesAreOwn, OriginalKept
  <2> QED BY <1>5, <2>2, <2>3, <2>4, <2>5
<1> QED BY <1>8, <1>9, <1>10, <1>11, <1>12, <1>13, <1>14 DEF FileStep

\* An older version may have left complete backups behind.
LEMMA ClientInvInit == ClientInit => ClientInv
<1> SUFFICES ASSUME ClientInit PROVE ClientInv
  OBVIOUS
<1>1. /\ setting \in Setting /\ registry = {} /\ clients = {} /\ task = NoTask
  BY DEF ClientInit
<1>2. PICK old \in SUBSET Tool, a \in CarAccess :
         /\ config = [t \in Tool |-> IF t \in old \cap Store THEN a ELSE "own"]
         /\ snap = [t \in Tool |-> IF t \in old \cap Store
                                   THEN [dir |-> "whole", copy |-> "own"] ELSE NoSnap]
         /\ marker = [t \in Tool |-> IF t \in old THEN a ELSE "none"]
  BY DEF ClientInit
<1>3. ClientShapes
  BY <1>1, <1>2, RestIsTyped DEF ClientShapes, NoSnap, OfLaunch
<1>4. CopiesAreOwn /\ OriginalKept
  BY <1>2, <1>3, StoreTools DEF CopiesAreOwn, OriginalKept, NoSnap
<1>5. Orderly(task.todo, config, snap)
  BY <1>1, RestIsTyped, HarmlessIsOrderly
<1> QED BY <1>3, <1>4, <1>5 DEF ClientInv

\* Every step keeps the invariant.
LEMMA ClientInvStep == ClientInv /\ [ClientNext]_clientVars => ClientInv'
<1> SUFFICES ASSUME ClientInv, [ClientNext]_clientVars PROVE ClientInv'
  OBVIOUS
<1>1. CASE UNCHANGED clientVars
  <2>1. UNCHANGED <<setting, config, snap, marker, registry, clients, task>>
    BY <1>1 DEF clientVars
  <2> QED BY <2>1, TaskStepKeeps DEF ClientInv, ClientShapes
<1>2. CASE ClientNext
  BY <1>2, BeginningKeeps, FileStepKeeps, FailingKeeps, PrepareKeeps, LaunchingKeeps, PuttingBackKeeps,
     EndingKeeps, ClientsKeep DEF ClientNext
<1> QED BY <1>1, <1>2

\* Whatever fails, and wherever the application dies, the user's configuration of a
\* Store client is in place or in a complete backup, for any tools, accesses and
\* number of failures (client_launcher.rs, snapshot_files and restore_snapshot).
THEOREM OriginalStaysKept == ClientSpec => []OriginalKept
<1>1. ClientInv => OriginalKept
  BY DEF ClientInv
<1> QED BY <1>1, ClientInvInit, ClientInvStep, PTL DEF ClientSpec

-----------------------------------------------------------------------------
(***************************************************************************)
(* ClientConfig, what the clients of a ride use. The inductive invariant:  *)
(* each has a record in the registry, and every operation on a task's list *)
(* spares them all.                                                        *)
(***************************************************************************)

\* A record that stands for each of some clients.
Guarded(P, R) == \A p \in P : \E r \in R : Fits(p, r)
Ours(P) == {p \in P : p.ours}

\* The clients of the rides whose files a task has to leave alone: while a launch
\* chooses, those it has listed as well.
Watched == Ours(clients) \cup (IF task.pc = "choose" THEN Ours(task.seen) ELSE {})

\* Operations that leave alone what some clients use, and the records that say so.
Spares(d, P) ==
    /\ d.do \in {"restore", "route"} /\ d.tool \in Store => \A p \in P : p.tool # d.tool
    /\ d.do = "rmprofile" => \A p \in P : ~(p.tool = d.tool /\ p.with = d.access)
    /\ d.do = "save" => Guarded(P, d.list)
Sparing(P) == {d \in Deed : Spares(d, P)}

\* Only Store tools are routed by the user's own configuration, and one client of
\* such a tool runs at a time; of the others, one of ours with each profile.
PlainToolsAreOwn ==
    /\ \A t \in Tool \ Store : config[t] = "own" /\ snap[t].dir # "whole"
    /\ \A p \in clients : p.tool \notin Store /\ ~p.ours => p.with = "own"
OneOfEach ==
    \A p, q \in clients :
        p.tool = q.tool /\ (p.tool \in Store \/ (p.ours /\ q.ours /\ p.with = q.with)) => p = q
AllShown == \A p \in clients : p.shown

\* Clients of ours have been started under a registry that could be read, and each
\* has a record in it.
RegistryGuards ==
    /\ Guarded(Ours(clients), registry)
    /\ regfile # "fine" => Ours(clients) = {}
    /\ task.pc \in OfLaunch => regfile = "fine"

\* What a task knows.  A launch: each client it has listed has a record that is
\* kept, so that none runs with the profile it is about to make; and it has saved
\* its record before it starts a client.  A recovery: each client is one that it
\* has listed, and its record is kept or has yet to be looked at.
LaunchKnows ==
    /\ task.pc = "choose" => Guarded(Watched, task.list)
    /\ task.pc \in {"spawn", "wait"} => \A p \in Ours(task.seen) : ~Fits(p, NewRecord)
    /\ task.pc = "spawn" =>
          /\ \A p \in Ours(clients) : ~Fits(p, NewRecord)
          /\ IF task.todo = <<>> THEN registry = task.list /\ NewRecord \in registry
             ELSE LET d == task.todo[Len(task.todo)] IN d.do = "save" /\ NewRecord \in d.list
    /\ task.pc = "wait" => task.todo = <<>> /\ registry = task.list
RecoveryKnows ==
    task.pc = "recover" =>
        /\ Guarded(Ours(clients), task.left \cup task.list)
        /\ \A p \in Ours(clients) : \E q \in task.seen : p.tool = q.tool /\ p.with = q.with

Sheltered ==
    /\ PlainToolsAreOwn /\ OneOfEach /\ AllShown
    /\ RegistryGuards /\ LaunchKnows /\ RecoveryKnows
    /\ task.todo \in Seq(Sparing(Watched))

\* What is spared for some clients is spared for others that use the same.
LEMMA SparedForKin ==
  ASSUME NEW P, NEW P2, \A p \in P2 : \E q \in P : p.tool = q.tool /\ p.with = q.with
  PROVE  /\ Sparing(P) \subseteq Sparing(P2)
         /\ \A R : Guarded(P, R) => Guarded(P2, R)
<1>1. ASSUME NEW R, Guarded(P, R) PROVE Guarded(P2, R)
  BY <1>1 DEF Guarded, Fits
<1>2. ASSUME NEW d \in Sparing(P) PROVE d \in Sparing(P2)
  <2>1. d \in Deed /\ Spares(d, P)
    BY DEF Sparing
  <2>2. d.do = "save" => Guarded(P2, d.list)
    BY <1>1, <2>1 DEF Spares
  <2>3. /\ d.do \in {"restore", "route"} /\ d.tool \in Store => \A p \in P2 : p.tool # d.tool
        /\ d.do = "rmprofile" => \A p \in P2 : ~(p.tool = d.tool /\ p.with = d.access)
    BY <2>1 DEF Spares
  <2> QED BY <2>1, <2>2, <2>3 DEF Sparing, Spares
<1> QED BY <1>1, <1>2

\* Nobody's files are anybody's to spare.
LEMMA NobodyIsSpared ==
  Sparing({}) = Deed /\ \A R : Guarded({}, R)
BY DEF Sparing, Spares, Guarded

\* What the installation is decides what an operation spares.
LEMMA SparingStays ==
  ASSUME setting' = setting
  PROVE  /\ Sparing(Watched)' = Sparing(Watched')
         /\ \A p, r : Fits(p, r)' <=> Fits(p, r)
         /\ Store' = Store /\ Slow' = Slow
<1>1. Store' = Store /\ Slow' = Slow
  BY DEF Store, Slow
<1>2. \A p, r : Fits(p, r)' <=> Fits(p, r)
  BY <1>1 DEF Fits
<1>3. ASSUME NEW d \in Deed PROVE Spares(d, Watched)' <=> Spares(d, Watched')
  BY <1>1 DEF Spares, Guarded, Fits
<1> QED BY <1>1, <1>2, <1>3 DEF Sparing

\* Putting the files of a record back spares the clients that do not fit it,
LEMMA CleanupSpares ==
  ASSUME NEW r \in Instance, NEW P, \A p \in P : ~Fits(p, r)
  PROVE  Cleanup(r) \in Seq(Sparing(P))
<1>1. r.tool \in Tool /\ r.access \in CarAccess
  BY DEF Instance
<1> DEFINE back == [do |-> "restore", tool |-> r.tool]
           off == [do |-> "unmark", tool |-> r.tool]
           gone == [do |-> "rmprofile", tool |-> r.tool, access |-> r.access]
<1>2. back \in Deed /\ off \in Deed /\ gone \in Deed
  BY <1>1 DEF Deed
<1>3. /\ r.tool \in Store => \A p \in P : p.tool # r.tool
      /\ r.tool \notin Store => \A p \in P : ~(p.tool = r.tool /\ p.with = r.access)
  BY DEF Fits
<1>4. off \in Sparing(P) /\ (r.tool \in Store => back \in Sparing(P)) /\ (r.tool \notin Store => gone \in Sparing(P))
  BY <1>2, <1>3 DEF Sparing, Spares
<1>5. Cleanup(r) = IF r.tool \in Store THEN <<back, off>> ELSE <<gone>>
  BY DEF Cleanup
<1> HIDE DEF back, off, gone
<1> QED BY <1>4, <1>5

\* and so does putting back those of several.
LEMMA CleanupAllSpares ==
  ASSUME NEW R \in SUBSET Instance, NEW P, \A r \in R : \A p \in P : ~Fits(p, r)
  PROVE  CleanupAll(R) \in Seq(Sparing(P))
<1> DEFINE s == SetToSeq(R)
           lists == [i \in DOMAIN s |-> Cleanup(s[i])]
<1>1. s \in Seq(R)
  BY InstancesAreFinite, SetToSeqIsTyped
<1> HIDE DEF s
<1>2. \A i \in DOMAIN s : s[i] \in R
  BY <1>1
<1>3. \A i \in DOMAIN s : Cleanup(s[i]) \in Seq(Sparing(P))
  BY <1>2, CleanupSpares
<1>4. DOMAIN s = 1 .. Len(s) /\ Len(s) \in Nat
  BY <1>1
<1>5. lists \in Seq(Seq(Sparing(P)))
  <2>1. lists \in [1 .. Len(s) -> Seq(Sparing(P))]
    BY <1>3, <1>4
  <2> HIDE DEF lists
  <2> QED BY <2>1, <1>4
<1> HIDE DEF lists
<1>6. FlattenSeq(lists) \in Seq(Sparing(P))
  BY <1>5, FlattenIsTyped
<1> QED BY <1>6 DEF CleanupAll, lists, s

\* A list of records that guards them may be saved.
LEMMA SavingSpares ==
  ASSUME NEW R \in SUBSET Instance, NEW P, Guarded(P, R)
  PROVE  Saving(R) \in Seq(Sparing(P))
<1> DEFINE d == [do |-> "save", list |-> R]
<1>1. d \in Deed
  BY DEF Deed
<1>2. d \in Sparing(P)
  BY <1>1 DEF Sparing, Spares
<1>3. Saving(R) = <<d>>
  BY DEF Saving
<1> HIDE DEF d
<1> QED BY <1>2, <1>3

\* The list without its first operation, and with others in its place.
LEMMA SparingLists ==
  ASSUME NEW S, NEW todo \in Seq(S), NEW more \in Seq(S)
  PROVE  /\ todo # <<>> => Tail(todo) \in Seq(S) /\ todo[1] \in S
         /\ more \o todo \in Seq(S)
         /\ <<>> \in Seq(S)
OBVIOUS

\* It is enough to show the parts of the state after a step for the installation at hand.
LEMMA ShelterStands ==
  ASSUME setting' = setting, PlainToolsAreOwn', OneOfEach', AllShown',
         Guarded(Ours(clients'), registry'), regfile' # "fine" => Ours(clients') = {},
         task'.pc \in OfLaunch => regfile' = "fine",
         task'.pc = "choose" => Guarded(Watched', task'.list),
         task'.pc \in {"spawn", "wait"} => \A p \in Ours(task'.seen) : ~Fits(p, NewRecord'),
         task'.pc = "spawn" =>
            /\ \A p \in Ours(clients') : ~Fits(p, NewRecord')
            /\ IF task'.todo = <<>> THEN registry' = task'.list /\ NewRecord' \in registry'
               ELSE LET d == task'.todo[Len(task'.todo)] IN d.do = "save" /\ NewRecord' \in d.list,
         task'.pc = "wait" => task'.todo = <<>> /\ registry' = task'.list,
         task'.pc = "recover" =>
            /\ Guarded(Ours(clients'), task'.left \cup task'.list)
            /\ \A p \in Ours(clients') : \E q \in task'.seen : p.tool = q.tool /\ p.with = q.with,
         task'.todo \in Seq(Sparing(Watched'))
  PROVE  Sheltered'
<1>1. /\ Sparing(Watched)' = Sparing(Watched')
      /\ \A p, r : Fits(p, r)' <=> Fits(p, r)
  BY SparingStays
<1>2. RegistryGuards'
  BY <1>1 DEF RegistryGuards, Guarded, Ours
<1>3. LaunchKnows'
  <2>1. (task.pc = "choose" => Guarded(Watched, task.list))'
    BY <1>1 DEF Guarded
  <2>2. (task.pc \in {"spawn", "wait"} => \A p \in Ours(task.seen) : ~Fits(p, NewRecord))'
    BY <1>1 DEF Ours
  <2>3. (task.pc = "spawn" => \A p \in Ours(clients) : ~Fits(p, NewRecord))'
    BY <1>1 DEF Ours
  <2> QED BY <2>1, <2>2, <2>3 DEF LaunchKnows
<1>4. RecoveryKnows'
  BY <1>1 DEF RecoveryKnows, Guarded, Ours
<1> QED BY <1>1, <1>2, <1>3, <1>4 DEF Sheltered

\* What holds of the clients holds of some of them.
LEMMA FewerClients ==
  ASSUME Sheltered, UNCHANGED <<setting, config, snap, registry>>, regfile' \in {regfile, "fine"},
         clients' \subseteq clients
  PROVE  /\ PlainToolsAreOwn' /\ OneOfEach' /\ AllShown'
         /\ Guarded(Ours(clients'), registry') /\ (regfile' # "fine" => Ours(clients') = {})
         /\ Ours(clients') \subseteq Ours(clients) /\ Ours(clients') \subseteq clients'
         /\ Ours(clients) \subseteq Watched
<1>1. Store' = Store
  BY DEF Store
<1>2. PlainToolsAreOwn'
  BY <1>1 DEF Sheltered, PlainToolsAreOwn
<1>3. OneOfEach' /\ AllShown'
  BY <1>1 DEF Sheltered, OneOfEach, AllShown
<1>4. Guarded(Ours(clients'), registry') /\ (regfile' # "fine" => Ours(clients') = {})
  BY DEF Sheltered, RegistryGuards, Guarded, Ours
<1> QED BY <1>2, <1>3, <1>4 DEF Ours, Watched

\* A task that neither launches nor recovers need only spare the clients.
LEMMA QuietTaskShelters ==
  ASSUME Sheltered, UNCHANGED <<setting, config, snap, registry>>, regfile' \in {regfile, "fine"},
         clients' \subseteq clients,
         task'.pc \notin OfLaunch, task'.pc # "recover", task'.todo \in Seq(Sparing(Ours(clients')))
  PROVE  Sheltered'
<1>1. Watched' = Ours(clients')
  BY DEF Watched, OfLaunch, Ours
<1>2. task'.pc \notin {"choose", "spawn", "wait"}
  BY DEF OfLaunch
<1> QED BY <1>1, <1>2, FewerClients, ShelterStands

\* The lock is free.
LEMMA RestShelters ==
  ASSUME Sheltered, UNCHANGED <<setting, config, snap, registry>>, regfile' = regfile,
         clients' \subseteq clients, task' = NoTask
  PROVE  Sheltered'
<1>1. task'.pc = "rest" /\ task'.todo \in Seq(Sparing(Ours(clients')))
  BY SparingLists DEF NoTask
<1> QED BY <1>1, QuietTaskShelters DEF OfLaunch

\* A task begins.
LEMMA BeginningShelters ==
  ASSUME ClientInv, Sheltered,
         \/ \E t \in Tool, a \in CarAccess : BeginLaunch(t, a)
         \/ \E a \in CarAccess : BeginRemove({r \in registry : r.access = a})
         \/ \E r \in registry : BeginRemove({r})
         \/ BeginList \/ BeginRecover
  PROVE  Sheltered'
<1> USE DEF Files
<1>1. /\ UNCHANGED <<config, snap, registry, setting>> /\ clients' = clients /\ regfile' \in {regfile, "fine"}
      /\ registry \in SUBSET Instance /\ ListedInstances = clients
  BY DEF ClientInv, ClientShapes, BeginLaunch, BeginRemove, BeginList, BeginRecover, ListedInstances,
         Sheltered, AllShown, RegistryReads
<1>2. ASSUME NEW stale \in SUBSET {r \in registry : ~Possible(r, ListedInstances)}
      PROVE  /\ Guarded(Ours(clients), registry \ stale)
             /\ CleanupAll(stale) \o Saving(registry \ stale) \in Seq(Sparing(Ours(clients)))
  <2>1. \A r \in stale : \A p \in Ours(clients) : ~Fits(p, r)
    BY <1>1 DEF Possible, Ours
  <2>2. Guarded(Ours(clients), registry \ stale)
    BY <2>1 DEF Guarded, Sheltered, RegistryGuards
  <2>3. stale \in SUBSET Instance /\ registry \ stale \in SUBSET Instance
    BY <1>1
  <2>4. CleanupAll(stale) \in Seq(Sparing(Ours(clients))) /\ Saving(registry \ stale) \in Seq(Sparing(Ours(clients)))
    BY <2>1, <2>2, <2>3, CleanupAllSpares, SavingSpares
  <2> QED BY <2>2, <2>4, SparingLists
<1>3. ASSUME NEW t \in Tool, NEW a \in CarAccess, BeginLaunch(t, a) PROVE Sheltered'
  <2>1. PICK stale \in SUBSET {r \in registry : ~Possible(r, ListedInstances)} :
           task' = [NoTask EXCEPT !.pc = "choose", !.tool = t, !.access = a, !.seen = ListedInstances,
                                  !.list = registry \ stale,
                                  !.todo = CleanupAll(stale) \o Saving(registry \ stale)]
    <3> DEFINE idle == {r \in registry : ~Possible(r, ListedInstances)}
    <3>1. \E young \in Young(idle) :
             task' = [NoTask EXCEPT !.pc = "choose", !.tool = t, !.access = a, !.seen = ListedInstances,
                                    !.list = registry \ (idle \ young),
                                    !.todo = CleanupAll(idle \ young) \o Saving(registry \ (idle \ young))]
      BY <1>3 DEF BeginLaunch
    <3> QED BY <3>1
  <2> DEFINE todo == CleanupAll(stale) \o Saving(registry \ stale)
  <2>2. todo \in Seq(Sparing(Ours(clients))) /\ Guarded(Ours(clients), registry \ stale)
    BY <1>2
  <2> HIDE DEF todo
  <2>3. /\ task'.pc = "choose" /\ task'.seen = clients /\ task'.list = registry \ stale /\ task'.todo = todo
    BY <1>1, <2>1 DEF NoTask, todo
  <2>4. Watched' = Ours(clients)
    BY <1>1, <2>3 DEF Watched, Ours
  <2>5. regfile' = "fine" /\ regfile = "fine"
    BY <1>3 DEF BeginLaunch, RegistryReads
  <2>6. /\ PlainToolsAreOwn' /\ OneOfEach' /\ AllShown'
        /\ Guarded(Ours(clients'), registry') /\ (regfile' # "fine" => Ours(clients') = {})
    BY <1>1, FewerClients
  <2> QED BY <1>1, <2>2, <2>3, <2>4, <2>5, <2>6, ShelterStands
<1>4. ASSUME NEW R \in SUBSET registry, BeginRemove(R) PROVE Sheltered'
  <2>1. task'.pc = "remove" /\ task'.todo = <<>>
    BY <1>4 DEF BeginRemove, NoTask
  <2> QED BY <2>1, <1>1, QuietTaskShelters, SparingLists DEF OfLaunch
<1>5. CASE BeginList
  <2>1. PICK stale \in SUBSET {r \in registry : ~Possible(r, ListedInstances)} :
           task' = [NoTask EXCEPT !.pc = "end", !.seen = ListedInstances,
                                  !.todo = CleanupAll(stale) \o Saving(registry \ stale)]
    <3> DEFINE idle == {r \in registry : ~Possible(r, ListedInstances)}
    <3>1. \E young \in Young(idle) :
             task' = [NoTask EXCEPT !.pc = "end", !.seen = ListedInstances,
                                    !.todo = CleanupAll(idle \ young) \o Saving(registry \ (idle \ young))]
      BY <1>5 DEF BeginList
    <3> QED BY <3>1
  <2>2. task'.pc = "end" /\ task'.todo = CleanupAll(stale) \o Saving(registry \ stale)
    BY <2>1 DEF NoTask
  <2> QED BY <2>2, <1>1, <1>2, QuietTaskShelters DEF OfLaunch
<1>6. CASE BeginRecover
  <2>1. CASE regfile = "damaged" /\ task' = [NoTask EXCEPT !.pc = "end", !.todo = Migration]
    <3>1. Ours(clients') = {}
      BY <1>1, <2>1 DEF Sheltered, RegistryGuards
    <3>2. task'.pc = "end" /\ task'.todo \in Seq(Sparing(Ours(clients')))
      <4>1. Migration \in Seq(Deed)
        BY MigrationIsHarmless, FreshTask, RestIsTyped DEF ClientInv
      <4> QED BY <2>1, <3>1, <4>1, NobodyIsSpared DEF NoTask
    <3> QED BY <1>1, <3>2, QuietTaskShelters DEF OfLaunch
  <2>2. CASE task' = [NoTask EXCEPT !.pc = "recover", !.seen = ListedInstances, !.left = registry]
    <3>1. task'.pc = "recover" /\ task'.seen = clients /\ task'.left = registry /\ task'.list = {} /\ task'.todo = <<>>
      BY <1>1, <2>2 DEF NoTask
    <3>2. /\ PlainToolsAreOwn' /\ OneOfEach' /\ AllShown'
          /\ Guarded(Ours(clients'), registry') /\ (regfile' # "fine" => Ours(clients') = {})
      BY <1>1, FewerClients
    <3>3. Guarded(Ours(clients'), task'.left \cup task'.list)
      BY <1>1, <3>1, <3>2 DEF Guarded
    <3>4. \A p \in Ours(clients') : \E q \in task'.seen : p.tool = q.tool /\ p.with = q.with
      BY <1>1, <3>1 DEF Ours
    <3> QED BY <1>1, <3>1, <3>2, <3>3, <3>4, ShelterStands, SparingLists DEF OfLaunch
  <2> QED BY <2>1, <2>2, <1>6 DEF BeginRecover
<1>7. \A a \in CarAccess : {r \in registry : r.access = a} \in SUBSET registry
  OBVIOUS
<1>8. \A r \in registry : {r} \in SUBSET registry
  OBVIOUS
<1> QED BY <1>3, <1>4, <1>5, <1>6, <1>7, <1>8

\* The last of a list.
LEMMA LastOfList ==
  ASSUME NEW S, NEW todo \in Seq(S), NEW d \in S
  PROVE  /\ todo \o <<d>> # <<>> /\ (todo \o <<d>>)[Len(todo \o <<d>>)] = d
         /\ todo # <<>> =>
               IF Tail(todo) = <<>> THEN todo[Len(todo)] = todo[1]
               ELSE /\ Tail(todo)[Len(Tail(todo))] = todo[Len(todo)]
                    /\ <<d>> \o Tail(todo) # <<>>
                    /\ (<<d>> \o Tail(todo))[Len(<<d>> \o Tail(todo))] = todo[Len(todo)]
<1>1. todo \o <<d>> # <<>> /\ (todo \o <<d>>)[Len(todo \o <<d>>)] = d
  OBVIOUS
<1>2. ASSUME todo # <<>>, Tail(todo) = <<>> PROVE todo[Len(todo)] = todo[1]
  <2>1. Len(Tail(todo)) = Len(todo) - 1 /\ Len(todo) \in Nat
    BY <1>2
  <2>2. Len(Tail(todo)) = 0
    <3> DEFINE rest == Tail(todo)
    <3>1. rest = <<>>
      BY <1>2
    <3> HIDE DEF rest
    <3>2. Len(rest) = 0
      BY <3>1
    <3> QED BY <3>2 DEF rest
  <2>3. Len(todo) = 1
    BY <2>1, <2>2
  <2> QED BY <2>3
<1>3. ASSUME todo # <<>>, Tail(todo) # <<>>
      PROVE  /\ Tail(todo)[Len(Tail(todo))] = todo[Len(todo)]
             /\ <<d>> \o Tail(todo) # <<>>
             /\ (<<d>> \o Tail(todo))[Len(<<d>> \o Tail(todo))] = todo[Len(todo)]
  <2>1. Len(Tail(todo)) = Len(todo) - 1 /\ Len(todo) - 1 \in 1 .. Len(Tail(todo)) /\ Tail(todo) \in Seq(S)
    BY <1>3
  <2>2. Tail(todo)[Len(todo) - 1] = todo[Len(todo)]
    BY <1>3, <2>1
  <2>3. Len(<<d>> \o Tail(todo)) = Len(todo) /\ (<<d>> \o Tail(todo))[Len(todo)] = Tail(todo)[Len(todo) - 1]
    BY <1>3, <2>1
  <2>4. <<d>> \o Tail(todo) # <<>>
    BY <2>1
  <2> QED BY <2>1, <2>2, <2>3, <2>4
<1> QED BY <1>1, <1>2, <1>3

\* A launch that goes on has no client with the profile it is about to make.
LEMMA PrepareShelters ==
  ASSUME ClientInv, Sheltered, Prepare
  PROVE  Sheltered'
<1> DEFINE t == task.tool
           a == task.access
           P == Ours(clients)
           R == task.list \cup {NewRecord}
           d1 == [do |-> "restore", tool |-> t]
           d2 == [do |-> "mkdir", tool |-> t]
           d3 == [do |-> "manifest", tool |-> t]
           d4 == [do |-> "route", tool |-> t, as |-> a]
           d5 == [do |-> "mark", tool |-> t]
           d6 == [do |-> "save", list |-> R]
           p1 == [do |-> "rmprofile", tool |-> t, access |-> a]
           p2 == [do |-> "mkprofile", tool |-> t, access |-> a]
           first == IF t \in Store THEN <<d1, d2, d3, d4, d5>> ELSE <<p1, p2>>
<1>1. /\ task.pc = "choose" /\ UNCHANGED <<clients, config, snap, registry, setting, regfile>>
      /\ t \in Tool /\ a \in CarAccess /\ task \in TaskRecord /\ ~Taken /\ ~Blocked
      /\ R \in SUBSET Instance
  <2>1. task.pc = "choose" /\ UNCHANGED <<clients, config, snap, registry, setting, regfile>> /\ ~Taken /\ ~Blocked
    BY DEF Prepare, Ready, Files
  <2>2. t \in Tool /\ a \in CarAccess /\ task \in TaskRecord
    BY <2>1 DEF ClientInv, ClientShapes, OfLaunch
  <2>3. NewRecord \in Instance /\ task.list \in SUBSET Instance
    BY <2>2 DEF NewRecord, Instance, TaskRecord
  <2> QED BY <2>1, <2>2, <2>3
<1>2. \A p \in Watched : ~Fits(p, NewRecord)
  <2> SUFFICES ASSUME NEW p \in Watched, Fits(p, NewRecord) PROVE FALSE
    OBVIOUS
  <2>1. PICK r \in task.list : Fits(p, r)
    BY <1>1 DEF Sheltered, LaunchKnows, Guarded
  <2>2. p.tool = t /\ (t \in Store \/ p.with = a)
    BY DEF Fits, NewRecord
  <2> QED BY <1>1, <2>1, <2>2 DEF Taken, Blocked, Fits
<1>3. /\ P \subseteq Watched /\ Ours(task.seen) \subseteq Watched
  BY <1>1 DEF Watched
<1>4. Guarded(P, R) /\ Guarded(P, task.list)
  BY <1>1, <1>3 DEF Sheltered, LaunchKnows, Guarded
<1>5. /\ t \in Store => \A p \in P : p.tool # t
      /\ t \notin Store => \A p \in P : ~(p.tool = t /\ p.with = a)
  BY <1>2, <1>3 DEF Fits, NewRecord
<1>6. /\ d1 \in Deed /\ d2 \in Deed /\ d3 \in Deed /\ d4 \in Deed /\ d5 \in Deed /\ d6 \in Deed
      /\ p1 \in Deed /\ p2 \in Deed
  BY <1>1 DEF Deed
<1>7. d6 \in Sparing(P) /\ first \in Seq(Sparing(P))
  <2>1. /\ t \in Store => /\ d1 \in Sparing(P) /\ d2 \in Sparing(P) /\ d3 \in Sparing(P)
                          /\ d4 \in Sparing(P) /\ d5 \in Sparing(P)
        /\ t \notin Store => p1 \in Sparing(P) /\ p2 \in Sparing(P)
        /\ d6 \in Sparing(P)
    BY <1>4, <1>5, <1>6 DEF Sparing, Spares
  <2> HIDE DEF d1, d2, d3, d4, d5, d6, p1, p2, t
  <2> QED BY <2>1
<1>8. task' = [task EXCEPT !.pc = "spawn", !.todo = first \o <<d6>>]
  <2>1. Saving(R) = <<d6>>
    BY DEF Saving
  <2> QED BY <2>1 DEF Prepare
<1> DEFINE todo == first \o <<d6>>
<1>9. todo # <<>> /\ todo[Len(todo)] = d6 /\ todo \in Seq(Sparing(P))
  <2> HIDE DEF first, d6, P
  <2> QED BY <1>7, LastOfList
<1>10. d6.do = "save" /\ NewRecord \in d6.list
  OBVIOUS
<1> HIDE DEF first, d6, todo
<1>11. /\ task'.pc = "spawn" /\ task'.tool = t /\ task'.access = a /\ task'.todo = todo /\ task'.seen = task.seen
  BY <1>1, <1>8 DEF TaskRecord, todo
<1>12. NewRecord' = NewRecord /\ Watched' = P
  BY <1>1, <1>11 DEF NewRecord, Watched, Ours
<1>13. /\ PlainToolsAreOwn' /\ OneOfEach' /\ AllShown'
       /\ Guarded(Ours(clients'), registry') /\ (regfile' # "fine" => Ours(clients') = {})
  BY <1>1, FewerClients
<1>14. regfile' = "fine" /\ Ours(clients') = P
  BY <1>1 DEF Sheltered, RegistryGuards, OfLaunch
<1>15. (\A p \in Ours(task'.seen) : ~Fits(p, NewRecord')) /\ (\A p \in Ours(clients') : ~Fits(p, NewRecord'))
  BY <1>2, <1>3, <1>11, <1>12, <1>14
<1>16. LET d == task'.todo[Len(task'.todo)] IN d.do = "save" /\ NewRecord' \in d.list
  BY <1>9, <1>10, <1>11, <1>12
<1> HIDE DEF P
<1> QED BY <1>1, <1>9, <1>11, <1>12, <1>13, <1>14, <1>15, <1>16, ShelterStands

\* A client that has another number, or is known by it, is still the client it was.
LEMMA OneRenewed ==
  ASSUME ClientInv, Sheltered, UNCHANGED <<setting, config, snap>>, NEW p \in clients, NEW q,
         q.tool = p.tool, q.with = p.with, q.ours = p.ours, q.shown = p.shown,
         clients' = (clients \ {p}) \cup {q}
  PROVE  /\ PlainToolsAreOwn' /\ OneOfEach' /\ AllShown'
         /\ \A x \in Ours(clients') : \E y \in Ours(clients) : x.tool = y.tool /\ x.with = y.with
<1>1. Store' = Store
  BY DEF Store
<1>2. PlainToolsAreOwn'
  BY <1>1 DEF Sheltered, PlainToolsAreOwn
<1>3. AllShown'
  BY DEF Sheltered, AllShown
<1>4. OneOfEach'
  <2> SUFFICES ASSUME NEW x \in clients', NEW y \in clients', x.tool = y.tool,
                      x.tool \in Store \/ (x.ours /\ y.ours /\ x.with = y.with)
               PROVE  x = y
    BY <1>1 DEF OneOfEach
  <2>1. \A u, v \in clients :
           u.tool = v.tool /\ (u.tool \in Store \/ (u.ours /\ v.ours /\ u.with = v.with)) => u = v
    BY DEF Sheltered, OneOfEach
  <2>2. CASE x = q /\ y # q
    <3>1. y \in clients /\ y # p
      BY <2>2
    <3> QED BY <2>1, <2>2, <3>1
  <2>3. CASE x # q /\ y = q
    <3>1. x \in clients /\ x # p
      BY <2>3
    <3> QED BY <2>1, <2>3, <3>1
  <2>4. CASE x # q /\ y # q
    <3>1. x \in clients /\ y \in clients
      BY <2>4
    <3> QED BY <2>1, <3>1
  <2> QED BY <2>2, <2>3, <2>4
<1>5. \A x \in Ours(clients') : \E y \in Ours(clients) : x.tool = y.tool /\ x.with = y.with
  BY DEF Ours
<1> QED BY <1>2, <1>3, <1>4, <1>5

\* Undoing a launch whose client does not run spares the others.
LEMMA UndoSpares ==
  ASSUME ClientInv, task.pc \in OfLaunch, NEW P, \A p \in P : ~Fits(p, NewRecord), Guarded(P, registry)
  PROVE  Undo.pc = "end" /\ Undo.todo \in Seq(Sparing(P))
<1> DEFINE todo == IF NewRecord \in registry THEN Cleanup(NewRecord) \o Saving(registry \ {NewRecord}) ELSE <<>>
<1>1. task \in TaskRecord /\ registry \subseteq Instance /\ NewRecord \in Instance
  BY DEF ClientInv, ClientShapes, NewRecord, Instance
<1>2. todo \in Seq(Sparing(P))
  <2>1. Guarded(P, registry \ {NewRecord})
    BY DEF Guarded
  <2>2. Cleanup(NewRecord) \in Seq(Sparing(P)) /\ Saving(registry \ {NewRecord}) \in Seq(Sparing(P))
    BY <1>1, <2>1, CleanupSpares, SavingSpares
  <2> QED BY <2>2, SparingLists
<1>3. Undo = [task EXCEPT !.pc = "end", !.todo = todo]
  BY DEF Undo
<1> HIDE DEF todo
<1> QED BY <1>1, <1>2, <1>3 DEF TaskRecord

\* The client starts, or does not.
LEMMA SpawningShelters ==
  ASSUME ClientInv, Sheltered, ~Slow, Spawn
  PROVE  Sheltered'
<1> USE DEF Files
<1> DEFINE t == task.tool
           a == task.access
<1>1. /\ UNCHANGED <<config, snap, registry, setting, regfile>> /\ task.pc = "spawn" /\ task.todo = <<>>
      /\ t \in Tool /\ a \in CarAccess /\ task \in TaskRecord /\ task.pc \in OfLaunch
  <2>1. UNCHANGED <<config, snap, registry, setting, regfile>> /\ task.pc = "spawn" /\ task.todo = <<>>
    BY DEF Spawn, Ready
  <2> QED BY <2>1 DEF ClientInv, ClientShapes, OfLaunch
<1>2. /\ \A p \in Ours(clients) : ~Fits(p, NewRecord)
      /\ \A p \in Ours(task.seen) : ~Fits(p, NewRecord)
      /\ registry = task.list /\ NewRecord \in registry /\ regfile = "fine" /\ Guarded(Ours(clients), registry)
  BY <1>1 DEF Sheltered, LaunchKnows, RegistryGuards
<1>3. CASE task' = Undo /\ clients' = clients
  <2>1. Undo.pc = "end" /\ Undo.todo \in Seq(Sparing(Ours(clients)))
    BY <1>1, <1>2, UndoSpares
  <2> QED BY <1>1, <1>3, <2>1, QuietTaskShelters DEF OfLaunch
<1>4. ASSUME task' = [task EXCEPT !.pc = "wait"]
      PROVE  /\ task'.pc = "wait" /\ task'.todo = <<>> /\ task'.list = task.list /\ task'.seen = task.seen
             /\ NewRecord' = NewRecord /\ Watched' = Ours(clients')
  <2>1. /\ task'.pc = "wait" /\ task'.todo = <<>> /\ task'.list = task.list /\ task'.seen = task.seen
        /\ task'.tool = t /\ task'.access = a
    BY <1>1, <1>4 DEF TaskRecord
  <2> QED BY <2>1 DEF NewRecord, Watched, Ours
<1>5. ASSUME task' = [task EXCEPT !.pc = "wait"], PlainToolsAreOwn', OneOfEach', AllShown',
             Guarded(Ours(clients'), registry')
      PROVE  Sheltered'
  <2>1. /\ task'.pc = "wait" /\ task'.todo = <<>> /\ task'.list = task.list /\ task'.seen = task.seen
        /\ NewRecord' = NewRecord
    BY <1>4, <1>5
  <2>2. task'.todo \in Seq(Sparing(Watched'))
    BY <2>1
  <2>3. \A p \in Ours(task'.seen) : ~Fits(p, NewRecord')
    BY <1>2, <2>1
  <2>4. registry' = task'.list /\ regfile' = "fine"
    BY <1>1, <1>2, <2>1
  <2> QED BY <1>1, <1>5, <2>1, <2>2, <2>3, <2>4, ShelterStands
<1>6. CASE task' = [task EXCEPT !.pc = "wait"] /\ clients' = clients
  <2>1. PlainToolsAreOwn' /\ OneOfEach' /\ AllShown' /\ Guarded(Ours(clients'), registry')
    BY <1>1, <1>6, FewerClients
  <2> QED BY <1>5, <1>6, <2>1
<1>7. CASE /\ task' = [task EXCEPT !.pc = "wait"]
           /\ ~(t \in Store /\ \E p \in clients : p.tool = t)
           /\ clients' = clients \cup {[tool |-> t, ours |-> TRUE, named |-> FALSE, shown |-> ~Slow,
                                        with |-> IF t \in Store THEN config[t] ELSE a]}
  <2>1. PICK q : /\ clients' = clients \cup {q} /\ q.tool = t /\ q.ours = TRUE /\ q.shown = TRUE
                 /\ (t \notin Store => q.with = a)
    <3> DEFINE q == [tool |-> t, ours |-> TRUE, named |-> FALSE, shown |-> ~Slow,
                     with |-> IF t \in Store THEN config[t] ELSE a]
    <3>1. q.tool = t /\ q.ours = TRUE /\ q.shown = TRUE /\ (t \notin Store => q.with = a)
      OBVIOUS
    <3>2. clients' = clients \cup {q}
      BY <1>7
    <3> HIDE DEF q
    <3> QED BY <3>1, <3>2
  <2>2. Store' = Store
    BY <1>1 DEF Store
  <2>3. PlainToolsAreOwn' /\ AllShown'
    BY <1>1, <2>1, <2>2 DEF Sheltered, PlainToolsAreOwn, AllShown
  <2>4. \A p \in clients : ~(p.tool = t /\ (t \in Store \/ (p.ours /\ p.with = a)))
    <3> SUFFICES ASSUME NEW p \in clients, p.tool = t, t \in Store \/ (p.ours /\ p.with = a) PROVE FALSE
      OBVIOUS
    <3>1. p.ours /\ p.with = a /\ t \notin Store
      BY <1>7
    <3>2. Fits(p, NewRecord)
      BY <3>1 DEF Fits, NewRecord
    <3> QED BY <1>2, <3>1, <3>2 DEF Ours
  <2>5. OneOfEach'
    <3> SUFFICES ASSUME NEW x \in clients', NEW y \in clients', x.tool = y.tool,
                        x.tool \in Store \/ (x.ours /\ y.ours /\ x.with = y.with)
                 PROVE  x = y
      BY <2>2 DEF OneOfEach
    <3>1. CASE x \in clients /\ y \in clients
      BY <3>1 DEF Sheltered, OneOfEach
    <3>2. CASE x = q /\ y \in clients /\ y # q
      BY <2>1, <2>4, <3>2
    <3>3. CASE y = q /\ x \in clients /\ x # q
      BY <2>1, <2>4, <3>3
    <3> QED BY <2>1, <3>1, <3>2, <3>3
  <2>6. Guarded(Ours(clients'), registry')
    <3>1. Fits(q, NewRecord)
      BY <2>1 DEF Fits, NewRecord
    <3> QED BY <1>1, <1>2, <2>1, <3>1 DEF Guarded, Ours
  <2> QED BY <1>5, <1>7, <2>3, <2>5, <2>6
<1> QED BY <1>3, <1>6, <1>7 DEF Spawn

\* A record that a client of ours fits is fitted by no other.
LEMMA FitIsUnique ==
  ASSUME ClientInv, Sheltered, NEW r \in Instance, NEW p \in clients, NEW q \in clients,
         Fits(p, r), p.ours, Fits(q, r)
  PROVE  p = q
<1>1. r.access \in CarAccess /\ "own" \notin CarAccess /\ p \in Process /\ q \in Process
  BY ClientAssumption DEF ClientInv, ClientShapes, Instance
<1>2. CASE r.tool \in Store
  BY <1>2 DEF Fits, Sheltered, OneOfEach
<1>3. CASE r.tool \notin Store
  <2>1. q.ours
    BY <1>1, <1>3 DEF Fits, Sheltered, PlainToolsAreOwn, Process
  <2> QED BY <1>3, <2>1 DEF Fits, Sheltered, OneOfEach
<1> QED BY <1>2, <1>3

\* It is seen, or the time is up, or its record cannot be saved.
LEMMA WaitingShelters ==
  ASSUME ClientInv, Sheltered, SeeReady \/ WaitEnds \/ Unsaved
  PROVE  Sheltered'
<1> USE DEF Files
<1>1. /\ UNCHANGED <<config, snap, registry, setting, regfile>> /\ task.pc \in OfLaunch
      /\ task.tool \in Tool /\ task.access \in CarAccess /\ task \in TaskRecord /\ clients \subseteq Process
      /\ ListedInstances = clients /\ task.todo = <<>>
  <2>1. /\ UNCHANGED <<config, snap, registry, setting, regfile>> /\ task.pc \in {"wait", "unsaved"}
        /\ task.todo = <<>>
    BY DEF SeeReady, WaitEnds, Unsaved, Ready
  <2>2. ListedInstances = clients
    BY DEF ListedInstances, Sheltered, AllShown
  <2> QED BY <2>1, <2>2 DEF ClientInv, ClientShapes, OfLaunch
<1>2. NewRecord \in Instance /\ [NewRecord EXCEPT !.ready = TRUE] \in Instance
      /\ \A p : Fits(p, [NewRecord EXCEPT !.ready = TRUE]) <=> Fits(p, NewRecord)
  BY <1>1 DEF NewRecord, Instance, Fits
<1>3. regfile = "fine" /\ Guarded(Ours(clients), registry)
  BY <1>1 DEF Sheltered, RegistryGuards
<1>4. CASE SeeReady
  <2>1. PICK p \in clients : clients' = (clients \ {p}) \cup {[p EXCEPT !.named = TRUE]}
    BY <1>1, <1>4 DEF SeeReady
  <2> DEFINE R == (task.list \ {NewRecord}) \cup {[NewRecord EXCEPT !.ready = TRUE]}
  <2>2. task' = [task EXCEPT !.pc = "ready", !.todo = Saving(R)]
    BY <1>4 DEF SeeReady
  <2>3. /\ PlainToolsAreOwn' /\ OneOfEach' /\ AllShown'
        /\ \A x \in Ours(clients') : \E y \in Ours(clients) : x.tool = y.tool /\ x.with = y.with
    <3> DEFINE q == [p EXCEPT !.named = TRUE]
    <3>1. q.tool = p.tool /\ q.with = p.with /\ q.ours = p.ours /\ q.shown = p.shown
      BY <1>1 DEF Process
    <3>2. clients' = (clients \ {p}) \cup {q}
      BY <2>1
    <3> HIDE DEF q
    <3> QED BY <1>1, <3>1, <3>2, OneRenewed
  <2>4. registry = task.list
    BY <1>1, <1>4 DEF SeeReady, Ready, Sheltered, LaunchKnows
  <2>5. Guarded(Ours(clients), R)
    BY <1>2, <1>3, <2>4 DEF Guarded
  <2>6. Guarded(Ours(clients'), R) /\ Guarded(Ours(clients'), registry')
    <3> HIDE DEF R
    <3> QED BY <1>1, <1>3, <2>3, <2>5, SparedForKin
  <2>7. R \in SUBSET Instance
    BY <1>1, <1>2 DEF TaskRecord
  <2> HIDE DEF R
  <2>8. Saving(R) \in Seq(Sparing(Ours(clients')))
    BY <2>6, <2>7, SavingSpares
  <2>9. task'.pc = "ready" /\ task'.todo = Saving(R)
    BY <1>1, <2>2 DEF TaskRecord
  <2>10. Watched' = Ours(clients')
    BY <2>9 DEF Watched, Ours
  <2> QED BY <1>1, <1>3, <2>3, <2>6, <2>8, <2>9, <2>10, ShelterStands
<1>5. CASE task' = NoTask /\ clients' = clients
  BY <1>1, <1>5, RestShelters
<1>6. CASE WaitEnds /\ task' = Undo
  <2>1. clients' = {p \in clients : p.shown \/ ~(p.ours /\ Fits(p, NewRecord))} \/ clients' = clients
    BY <1>6 DEF WaitEnds
  <2>2. clients' = clients
    BY <2>1 DEF Sheltered, AllShown
  <2>3. \A p \in Ours(clients) : ~Fits(p, NewRecord)
    <3>1. \A p \in clients \ task.seen : ~Fits(p, NewRecord)
      BY <1>1, <1>6 DEF WaitEnds
    <3>2. \A p \in Ours(task.seen) : ~Fits(p, NewRecord)
      BY <1>6 DEF WaitEnds, Ready, Sheltered, LaunchKnows
    <3> QED BY <3>1, <3>2 DEF Ours
  <2>4. Undo.pc = "end" /\ Undo.todo \in Seq(Sparing(Ours(clients)))
    BY <1>1, <1>3, <2>3, UndoSpares
  <2> QED BY <1>1, <1>6, <2>2, <2>4, QuietTaskShelters DEF OfLaunch
<1>7. CASE Unsaved /\ task' = Undo
  <2>1. /\ clients' = {p \in clients : ~(p.named /\ Fits(p, NewRecord))}
        /\ MayClean([NewRecord EXCEPT !.ready = TRUE], clients)
    <3>1. NoTask # Undo
      BY <1>1, <1>3, NobodyIsSpared, UndoIsTyped DEF NoTask
    <3> QED BY <1>1, <1>7, <3>1 DEF Unsaved
  <2>2. ASSUME NEW p \in clients, p.ours, Fits(p, NewRecord) PROVE p.named
    <3>1. PICK q \in clients : Fits(q, NewRecord) /\ q.named
      BY <1>2, <2>1, <2>2 DEF MayClean, Matching, Possible
    <3>2. p = q
      BY <1>2, <2>2, <3>1, FitIsUnique
    <3> QED BY <3>1, <3>2
  <2>3. clients' \subseteq clients /\ \A p \in Ours(clients') : ~Fits(p, NewRecord)
    BY <2>1, <2>2 DEF Ours
  <2>4. Guarded(Ours(clients'), registry)
    BY <1>3, <2>3 DEF Guarded, Ours
  <2>5. Undo.pc = "end" /\ Undo.todo \in Seq(Sparing(Ours(clients')))
    BY <1>1, <2>3, <2>4, UndoSpares
  <2> QED BY <1>1, <1>7, <2>3, <2>5, QuietTaskShelters DEF OfLaunch
<1> QED BY <1>4, <1>5, <1>6, <1>7 DEF WaitEnds, Unsaved

\* A record is settled: no client of ours that fits it is left, or it is kept.
LEMMA SettlingShelters ==
  ASSUME ClientInv, Sheltered, Settle
  PROVE  Sheltered'
<1> USE DEF Files
<1>1. /\ UNCHANGED <<config, snap, registry, setting, regfile>> /\ task.todo = <<>>
      /\ task.pc \in {"remove", "recover"} /\ task \in TaskRecord /\ clients \subseteq Process
      /\ registry \in SUBSET Instance /\ ListedInstances = clients
  BY DEF Settle, Ready, ClientInv, ClientShapes, ListedInstances, Sheltered, AllShown
<1> DEFINE seen == IF task.pc = "remove" THEN clients ELSE task.seen
<1>2. PICK r \in task.left :
         \/ /\ MayClean(r, seen) /\ (Matching(r, seen) => Matching(r, clients))
            /\ clients' = IF Matching(r, seen)
                          THEN {p \in clients : ~(Fits(p, r) /\ p.named)} ELSE clients
            /\ task' = [[task EXCEPT !.left = @ \ {r}, !.seen = seen] EXCEPT !.about = {r}, !.todo = Cleanup(r) \o
                            (IF task.pc = "remove" THEN Saving(registry \ {r}) ELSE <<>>)]
         \/ /\ clients' = clients
            /\ task' = IF task.pc = "remove" THEN NoTask
                       ELSE [[task EXCEPT !.left = @ \ {r}, !.seen = seen] EXCEPT !.list = @ \cup {r}]
  BY <1>1 DEF Settle
<1>3. r \in Instance
  BY <1>1 DEF TaskRecord
<1>4. Guarded(Ours(clients), registry)
  BY DEF Sheltered, RegistryGuards
<1>5. ASSUME task.pc = "recover"
      PROVE  /\ Guarded(Ours(clients), task.left \cup task.list)
             /\ \A p \in Ours(clients) : \E q \in seen : p.tool = q.tool /\ p.with = q.with
  BY <1>5 DEF Sheltered, RecoveryKnows
<1> DEFINE rest == [task EXCEPT !.left = @ \ {r}, !.seen = seen]
<1>6. /\ rest.pc = task.pc /\ rest.todo = <<>> /\ rest.left = task.left \ {r} /\ rest.seen = seen
      /\ rest.list = task.list
      /\ \A todo, about : /\ [rest EXCEPT !.about = about, !.todo = todo].pc = task.pc
                          /\ [rest EXCEPT !.about = about, !.todo = todo].todo = todo
                          /\ [rest EXCEPT !.about = about, !.todo = todo].left = task.left \ {r}
                          /\ [rest EXCEPT !.about = about, !.todo = todo].seen = seen
                          /\ [rest EXCEPT !.about = about, !.todo = todo].list = task.list
      /\ \A list : /\ [rest EXCEPT !.list = list].pc = task.pc
                   /\ [rest EXCEPT !.list = list].todo = <<>>
                   /\ [rest EXCEPT !.list = list].left = task.left \ {r}
                   /\ [rest EXCEPT !.list = list].seen = seen
                   /\ [rest EXCEPT !.list = list].list = list
      /\ [rest EXCEPT !.list = @ \cup {r}] = [rest EXCEPT !.list = task.list \cup {r}]
  BY <1>1 DEF TaskRecord
<1>7. CASE /\ MayClean(r, seen) /\ (Matching(r, seen) => Matching(r, clients))
           /\ clients' = IF Matching(r, seen)
                         THEN {p \in clients : ~(Fits(p, r) /\ p.named)} ELSE clients
           /\ task' = [rest EXCEPT !.about = {r}, !.todo = Cleanup(r) \o
                           (IF task.pc = "remove" THEN Saving(registry \ {r}) ELSE <<>>)]
  <2> DEFINE todo == Cleanup(r) \o (IF task.pc = "remove" THEN Saving(registry \ {r}) ELSE <<>>)
  <2>1. clients' \subseteq clients
    BY <1>7
  <2>2. \A p \in Ours(clients') : ~Fits(p, r)
    <3> SUFFICES ASSUME NEW p \in Ours(clients'), Fits(p, r) PROVE FALSE
      OBVIOUS
    <3>1. p \in clients /\ p.ours /\ p \in Ours(clients)
      BY <2>1 DEF Ours
    <3>2. CASE Matching(r, seen)
      <4>1. PICK q \in clients : Fits(q, r) /\ q.named
        BY <1>7, <3>2 DEF Matching
      <4>2. p = q
        BY <1>3, <3>1, <4>1, FitIsUnique
      <4> QED BY <1>7, <3>2, <4>1, <4>2 DEF Ours
    <3>3. CASE ~Possible(r, seen)
      <4>1. PICK q \in seen : p.tool = q.tool /\ p.with = q.with
        BY <1>1, <1>5, <3>1
      <4> QED BY <3>3, <4>1 DEF Possible, Fits
    <3> QED BY <1>7, <3>2, <3>3 DEF MayClean
  <2>3. Guarded(Ours(clients'), registry \ {r}) /\ Ours(clients') \subseteq Ours(clients)
    BY <1>4, <2>1, <2>2 DEF Guarded, Ours
  <2>4. todo \in Seq(Sparing(Ours(clients')))
    <3>1. Cleanup(r) \in Seq(Sparing(Ours(clients')))
      BY <1>3, <2>2, CleanupSpares
    <3>2. Saving(registry \ {r}) \in Seq(Sparing(Ours(clients')))
      BY <1>1, <2>3, SavingSpares
    <3> QED BY <3>1, <3>2, SparingLists
  <2> HIDE DEF todo, rest, seen
  <2>5. /\ task'.pc = task.pc /\ task'.todo = todo /\ task'.left = task.left \ {r} /\ task'.seen = seen
        /\ task'.list = task.list
    BY <1>6, <1>7 DEF todo
  <2>6. CASE task.pc = "remove"
    BY <1>1, <2>1, <2>4, <2>5, <2>6, QuietTaskShelters DEF OfLaunch
  <2>7. CASE task.pc = "recover"
    <3>1. Guarded(Ours(clients'), task'.left \cup task'.list)
      BY <1>5, <2>2, <2>3, <2>5, <2>7 DEF Guarded
    <3>2. \A p \in Ours(clients') : \E q \in task'.seen : p.tool = q.tool /\ p.with = q.with
      BY <1>5, <2>3, <2>5, <2>7
    <3>3. Watched' = Ours(clients')
      BY <2>5, <2>7 DEF Watched, Ours
    <3>4. /\ PlainToolsAreOwn' /\ OneOfEach' /\ AllShown'
          /\ Guarded(Ours(clients'), registry') /\ (regfile' # "fine" => Ours(clients') = {})
      BY <1>1, <2>1, FewerClients
    <3> QED BY <1>1, <2>4, <2>5, <2>7, <3>1, <3>2, <3>3, <3>4, ShelterStands DEF OfLaunch
  <2> QED BY <1>1, <2>6, <2>7
<1>8. CASE task' = NoTask /\ clients' = clients
  BY <1>1, <1>8, RestShelters
<1>9. CASE clients' = clients /\ task.pc # "remove" /\ task' = [rest EXCEPT !.list = @ \cup {r}]
  <2> HIDE DEF rest, seen
  <2>1. /\ task'.pc = "recover" /\ task'.todo = <<>> /\ task'.left = task.left \ {r} /\ task'.seen = seen
        /\ task'.list = task.list \cup {r} /\ task.pc = "recover"
    BY <1>1, <1>6, <1>9
  <2>2. task'.left \cup task'.list = task.left \cup task.list
    BY <2>1
  <2>3. Guarded(Ours(clients'), task'.left \cup task'.list)
    BY <1>5, <1>9, <2>1, <2>2
  <2>4. \A p \in Ours(clients') : \E q \in task'.seen : p.tool = q.tool /\ p.with = q.with
    BY <1>5, <1>9, <2>1
  <2>5. task'.todo \in Seq(Sparing(Watched'))
    BY <2>1
  <2>6. /\ PlainToolsAreOwn' /\ OneOfEach' /\ AllShown'
        /\ Guarded(Ours(clients'), registry') /\ (regfile' # "fine" => Ours(clients') = {})
    BY <1>1, <1>9, FewerClients
  <2> QED BY <1>1, <2>1, <2>3, <2>4, <2>5, <2>6, ShelterStands DEF OfLaunch
<1> QED BY <1>2, <1>7, <1>8, <1>9

\* Only when no record is kept, and so no client of ours is left, are the routes of older
\* versions put back.
LEMMA RecoveredShelters ==
  ASSUME ClientInv, Sheltered, Recovered
  PROVE  Sheltered'
<1> DEFINE todo == Saving(task.list) \o (IF task.list = {} THEN Migration ELSE <<>>)
<1>1. /\ UNCHANGED <<config, snap, registry, setting, regfile, clients>> /\ task.pc = "recover" /\ task.left = {}
      /\ task' = [task EXCEPT !.pc = "end", !.todo = todo] /\ task \in TaskRecord
  BY DEF Recovered, Ready, Files, ClientInv, ClientShapes
<1>2. Guarded(Ours(clients), task.list)
  BY <1>1 DEF Sheltered, RecoveryKnows
<1>3. Saving(task.list) \in Seq(Sparing(Ours(clients)))
  BY <1>1, <1>2, SavingSpares DEF TaskRecord
<1>4. task.list = {} => Migration \in Seq(Sparing(Ours(clients)))
  <2>1. Migration \in Seq(Deed)
    BY MigrationIsHarmless, FreshTask, RestIsTyped DEF ClientInv
  <2>2. task.list = {} => Ours(clients) = {}
    BY <1>2 DEF Guarded
  <2> QED BY <2>1, <2>2, NobodyIsSpared
<1>5. todo \in Seq(Sparing(Ours(clients')))
  BY <1>1, <1>3, <1>4, SparingLists
<1> HIDE DEF todo
<1>6. task'.pc = "end" /\ task'.todo = todo
  BY <1>1 DEF TaskRecord
<1> QED BY <1>1, <1>5, <1>6, QuietTaskShelters DEF OfLaunch

\* An operation fails.
LEMMA FailingShelters ==
  ASSUME ClientInv, Sheltered, Failed \/ RouteFailed
  PROVE  Sheltered'
<1> USE DEF Files
<1>1. /\ UNCHANGED <<config, snap, registry, setting, regfile, clients>>
      /\ task \in TaskRecord /\ task.todo # <<>> /\ task.todo \in Seq(Sparing(Watched))
  BY DEF Failed, RouteFailed, Failing, ClientInv, ClientShapes, Sheltered
<1>2. Head1 \in Sparing(Watched) /\ Ours(clients) \subseteq Watched
  BY <1>1, SparingLists DEF Head1, Watched
<1>3. CASE task.pc = "spawn" /\ task' = [task EXCEPT !.pc = "end", !.todo = Rollback]
  <2>1. task.tool \in Tool /\ task.access \in CarAccess
    BY <1>3 DEF ClientInv, ClientShapes, OfLaunch
  <2>2. Rollback = Cleanup(NewRecord) /\ NewRecord \in Instance
    BY <2>1 DEF Rollback, Cleanup, NewRecord, Instance
  <2>3. \A p \in Ours(clients) : ~Fits(p, NewRecord)
    BY <1>3 DEF Sheltered, LaunchKnows
  <2>4. Rollback \in Seq(Sparing(Ours(clients')))
    BY <1>1, <2>2, <2>3, CleanupSpares
  <2>5. task'.pc = "end" /\ task'.todo = Rollback
    BY <1>1, <1>3 DEF TaskRecord
  <2> QED BY <1>1, <2>4, <2>5, QuietTaskShelters DEF OfLaunch
<1>4. CASE task.pc = "ready" /\ task' = [task EXCEPT !.pc = "unsaved", !.todo = <<>>]
  <2>1. task'.pc = "unsaved" /\ task'.todo = <<>>
    BY <1>1, <1>4 DEF TaskRecord
  <2>2. task'.todo \in Seq(Sparing(Watched'))
    BY <2>1
  <2>3. regfile' = "fine"
    BY <1>1, <1>4 DEF Sheltered, RegistryGuards, OfLaunch
  <2>4. /\ PlainToolsAreOwn' /\ OneOfEach' /\ AllShown'
        /\ Guarded(Ours(clients'), registry') /\ (regfile' # "fine" => Ours(clients') = {})
    BY <1>1, FewerClients
  <2> QED BY <1>1, <2>1, <2>2, <2>3, <2>4, ShelterStands
<1>5. CASE task.pc = "recover" /\ task' = [task EXCEPT !.todo = <<>>, !.list = @ \cup task.about]
  <2>1. /\ task'.todo = <<>> /\ task'.pc = "recover" /\ task'.left = task.left /\ task'.seen = task.seen
        /\ task'.list = task.list \cup task.about
    BY <1>1, <1>5 DEF TaskRecord
  <2>2. /\ Guarded(Ours(clients'), task'.left \cup task'.list)
        /\ \A p \in Ours(clients') : \E q \in task'.seen : p.tool = q.tool /\ p.with = q.with
    BY <1>1, <1>5, <2>1 DEF Sheltered, RecoveryKnows, Guarded
  <2>3. task'.todo \in Seq(Sparing(Watched'))
    BY <2>1
  <2>4. /\ PlainToolsAreOwn' /\ OneOfEach' /\ AllShown'
        /\ Guarded(Ours(clients'), registry') /\ (regfile' # "fine" => Ours(clients') = {})
    BY <1>1, FewerClients
  <2> QED BY <1>1, <2>1, <2>2, <2>3, <2>4, ShelterStands DEF OfLaunch
<1>6. CASE task' = NoTask
  BY <1>1, <1>6, RestShelters
<1>7. CASE RouteFailed
  <2> DEFINE d == [do |-> "restore", tool |-> Head1.tool]
  <2>1. task' = [task EXCEPT !.pc = "end", !.todo = <<d>>] /\ Head1.do = "route"
    BY <1>7 DEF RouteFailed, Doing
  <2>2. Head1 \in Deed /\ Spares(Head1, Watched)
    BY <1>2 DEF Sparing
  <2>3. d \in Deed
    BY <2>1, <2>2, DeedFacts DEF Deed
  <2>4. d \in Sparing(Ours(clients))
    BY <1>2, <2>1, <2>2, <2>3 DEF Sparing, Spares
  <2> HIDE DEF d
  <2>5. <<d>> \in Seq(Sparing(Ours(clients')))
    BY <1>1, <2>4
  <2>6. task'.pc = "end" /\ task'.todo = <<d>>
    BY <1>1, <2>1 DEF TaskRecord
  <2> QED BY <1>1, <2>5, <2>6, QuietTaskShelters DEF OfLaunch
<1> QED BY <1>3, <1>4, <1>5, <1>6, <1>7 DEF Failed

\* The task ends, or the application does.
LEMMA EndingShelters ==
  ASSUME Sheltered, LaunchNothing \/ FinishTask \/ ClientCrash
  PROVE  Sheltered'
<1>1. UNCHANGED <<config, snap, registry, setting, regfile, clients>> /\ task' = NoTask
  BY DEF LaunchNothing, FinishTask, ClientCrash, Files
<1> QED BY <1>1, RestShelters

\* The task stays as it is, and so do the clients, or those of ours that use something.
LEMMA SameTaskShelters ==
  ASSUME Sheltered, UNCHANGED <<setting, registry, regfile, task>>,
         PlainToolsAreOwn', OneOfEach', AllShown',
         \A x \in Ours(clients') : \E y \in Ours(clients) : x.tool = y.tool /\ x.with = y.with
  PROVE  Sheltered'
<1>1. /\ \A p, r : Fits(p, r)' <=> Fits(p, r)
      /\ NewRecord' = NewRecord
  BY SparingStays DEF NewRecord
<1>2. \A x \in Watched' : \E y \in Watched : x.tool = y.tool /\ x.with = y.with
  BY DEF Watched
<1>3. /\ Sparing(Watched) \subseteq Sparing(Watched') /\ Guarded(Ours(clients'), registry)
      /\ \A R : Guarded(Watched, R) => Guarded(Watched', R)
      /\ \A R : Guarded(Ours(clients), R) => Guarded(Ours(clients'), R)
  <2>1. Guarded(Ours(clients), registry)
    BY DEF Sheltered, RegistryGuards
  <2> QED BY <1>2, <2>1, SparedForKin
<1>4. task'.todo \in Seq(Sparing(Watched'))
  <2>1. task.todo \in Seq(Sparing(Watched))
    BY DEF Sheltered
  <2>2. task.todo \in Seq(Sparing(Watched'))
    BY <1>3, <2>1
  <2> QED BY <2>2
<1>5. regfile' # "fine" => Ours(clients') = {}
  BY DEF Sheltered, RegistryGuards
<1>6. task'.pc = "spawn" => \A p \in Ours(clients') : ~Fits(p, NewRecord')
  BY <1>1 DEF Sheltered, LaunchKnows, Fits
<1>7. task'.pc = "recover" =>
            /\ Guarded(Ours(clients'), task'.left \cup task'.list)
            /\ \A p \in Ours(clients') : \E q \in task'.seen : p.tool = q.tool /\ p.with = q.with
  <2> SUFFICES ASSUME task.pc = "recover"
               PROVE  /\ Guarded(Ours(clients'), task.left \cup task.list)
                      /\ \A p \in Ours(clients') : \E q \in task.seen : p.tool = q.tool /\ p.with = q.with
    OBVIOUS
  <2>1. /\ Guarded(Ours(clients), task.left \cup task.list)
        /\ \A p \in Ours(clients) : \E q \in task.seen : p.tool = q.tool /\ p.with = q.with
    BY DEF Sheltered, RecoveryKnows
  <2>2. ASSUME NEW p \in Ours(clients') PROVE \E q \in task.seen : p.tool = q.tool /\ p.with = q.with
    <3>1. PICK y \in Ours(clients) : p.tool = y.tool /\ p.with = y.with
      OBVIOUS
    <3>2. PICK q \in task.seen : y.tool = q.tool /\ y.with = q.with
      BY <2>1
    <3> QED BY <3>1, <3>2
  <2>3. Guarded(Ours(clients'), task.left \cup task.list)
    <3> DEFINE R == task.left \cup task.list
    <3> HIDE DEF R
    <3>1. Guarded(Ours(clients), R)
      BY <2>1 DEF R
    <3>2. Guarded(Ours(clients'), R)
      BY <3>1, SparedForKin
    <3> QED BY <3>2 DEF R
  <2> QED BY <2>2, <2>3
<1>8. /\ task'.pc \in OfLaunch => regfile' = "fine"
      /\ task'.pc = "choose" => Guarded(Watched', task'.list)
      /\ task'.pc \in {"spawn", "wait"} => \A p \in Ours(task'.seen) : ~Fits(p, NewRecord')
      /\ task'.pc = "wait" => task'.todo = <<>> /\ registry' = task'.list
  BY <1>1, <1>3 DEF Sheltered, RegistryGuards, LaunchKnows
<1>9. task'.pc = "spawn" =>
         IF task'.todo = <<>> THEN registry' = task'.list /\ NewRecord' \in registry'
         ELSE LET d == task'.todo[Len(task'.todo)] IN d.do = "save" /\ NewRecord' \in d.list
  BY <1>1 DEF Sheltered, LaunchKnows
<1> QED BY <1>3, <1>4, <1>5, <1>6, <1>7, <1>8, <1>9, ShelterStands

\* Clients and users.
LEMMA ClientsShelter ==
  ASSUME ClientInv, Sheltered,
         \/ \E p \in clients : Appears(p) \/ Exits(p) \/ Renews(p)
         \/ \E t \in Tool : UserStarts(t)
  PROVE  Sheltered'
<1>1. UNCHANGED <<config, snap, marker, registry, regfile, setting, task>> /\ clients \subseteq Process
  BY DEF Appears, Exits, Renews, UserStarts, Files, ClientInv, ClientShapes
<1>2. ASSUME NEW p \in clients, Appears(p) PROVE Sheltered'
  BY <1>2 DEF Appears, Sheltered, AllShown
<1>3. ASSUME NEW p \in clients, Exits(p) PROVE Sheltered'
  <2>1. clients' \subseteq clients
    BY <1>3 DEF Exits
  <2>2. PlainToolsAreOwn' /\ OneOfEach' /\ AllShown' /\ Ours(clients') \subseteq Ours(clients)
    BY <1>1, <2>1, FewerClients
  <2> QED BY <1>1, <2>2, SameTaskShelters
<1>4. ASSUME NEW p \in clients, Renews(p) PROVE Sheltered'
  <2> DEFINE q == [p EXCEPT !.named = FALSE]
  <2>1. q.tool = p.tool /\ q.with = p.with /\ q.ours = p.ours /\ q.shown = p.shown
    BY <1>1 DEF Process
  <2>2. clients' = (clients \ {p}) \cup {q}
    BY <1>4 DEF Renews
  <2> HIDE DEF q
  <2>3. /\ PlainToolsAreOwn' /\ OneOfEach' /\ AllShown'
        /\ \A x \in Ours(clients') : \E y \in Ours(clients) : x.tool = y.tool /\ x.with = y.with
    BY <1>1, <2>1, <2>2, OneRenewed
  <2> QED BY <1>1, <2>3, SameTaskShelters
<1>5. ASSUME NEW t \in Tool, UserStarts(t) PROVE Sheltered'
  <2> DEFINE q == [tool |-> t, ours |-> FALSE, shown |-> TRUE, named |-> FALSE, with |-> config[t]]
  <2>1. q.tool = t /\ q.ours = FALSE /\ q.shown = TRUE /\ q.with = config[t]
    OBVIOUS
  <2>2. clients' = clients \cup {q} /\ \A p \in clients : p.tool # t
    BY <1>5 DEF UserStarts
  <2> HIDE DEF q
  <2>3. Store' = Store
    BY <1>1 DEF Store
  <2>4. PlainToolsAreOwn' /\ AllShown'
    BY <1>1, <2>1, <2>2, <2>3 DEF Sheltered, PlainToolsAreOwn, AllShown
  <2>5. OneOfEach'
    <3> SUFFICES ASSUME NEW x \in clients', NEW y \in clients', x.tool = y.tool,
                        x.tool \in Store \/ (x.ours /\ y.ours /\ x.with = y.with)
                 PROVE  x = y
      BY <2>3 DEF OneOfEach
    <3>1. CASE x \in clients /\ y \in clients
      BY <3>1 DEF Sheltered, OneOfEach
    <3>2. CASE x = q \/ y = q
      BY <2>1, <2>2, <3>2
    <3> QED BY <2>2, <3>1, <3>2
  <2>6. Ours(clients') \subseteq Ours(clients)
    BY <2>1, <2>2 DEF Ours
  <2> QED BY <1>1, <2>4, <2>5, <2>6, SameTaskShelters
<1> QED BY <1>2, <1>3, <1>4, <1>5

\* An operation of the list is carried out.
LEMMA FileStepShelters ==
  ASSUME ClientInv, Sheltered, FileStep
  PROVE  Sheltered'
<1> DEFINE todo == task.todo
           W == Watched
<1>1. /\ UNCHANGED <<setting, clients, regfile>> /\ todo # <<>> /\ todo \in Seq(Deed) /\ task \in TaskRecord
      /\ Orderly(todo, config, snap) /\ todo \in Seq(Sparing(W))
  BY DEF FileStep, RestoreNothing, Restore, EmptySnap, SnapFiles, Route, Mark, Profile, Save, Doing,
         ClientInv, ClientShapes, TaskRecord, Sheltered
<1>2. /\ Tail(todo) \in Seq(Sparing(W)) /\ Head1 = todo[1] /\ Head1 \in Sparing(W) /\ Head1 \in Deed
      /\ Spares(Head1, W) /\ 1 \in DOMAIN todo
  <2>1. Tail(todo) \in Seq(Sparing(W)) /\ todo[1] \in Sparing(W)
    BY <1>1, SparingLists
  <2> QED BY <1>1, <2>1, TailFacts DEF Head1, Sparing
<1>3. /\ Head1.do # "save" => Head1.tool \in Tool
      /\ Head1.do = "manifest" => Head1.tool \in Store
      /\ Head1.do = "route" => snap[Head1.tool] = WholeAndOwn
  <2>1. /\ todo[1].do = "manifest" => todo[1].tool \in Store
        /\ todo[1].do = "route" => snap[todo[1].tool] = WholeAndOwn
    BY <1>1, <1>2 DEF Orderly
  <2> QED BY <1>2, <2>1, DeedFacts
<1>4. Store' = Store /\ OneOfEach' /\ AllShown'
  BY <1>1 DEF Store, Sheltered, OneOfEach, AllShown
<1>5. PlainToolsAreOwn'
  <2> SUFFICES ASSUME NEW t \in Tool \ Store PROVE config'[t] = "own" /\ snap'[t].dir # "whole"
    BY <1>1, <1>4 DEF PlainToolsAreOwn, Sheltered
  <2>1. /\ config[t] = "own" /\ snap[t].dir # "whole" /\ config \in [Tool -> CarAccess \cup {"own"}]
        /\ snap \in [Tool -> [dir : {"none", "bare", "whole", "torn"}, copy : CarAccess \cup {"own"}]]
    BY DEF Sheltered, PlainToolsAreOwn, ClientInv, ClientShapes
  <2>2. CASE Restore
    <3>1. /\ snap[Head1.tool].dir = "whole" /\ Head1.do = "restore" /\ snap' = snap
          /\ config' = [config EXCEPT ![Head1.tool] = snap[Head1.tool].copy]
      BY <2>2 DEF Restore, Doing
    <3> QED BY <1>3, <2>1, <3>1
  <2>3. CASE Route
    <3>1. Head1.do = "route" /\ snap' = snap /\ config' = [config EXCEPT ![Head1.tool] = Head1.as]
      BY <2>3 DEF Route, Doing
    <3> QED BY <1>3, <2>1, <3>1 DEF WholeAndOwn
  <2>4. CASE EmptySnap
    <3>1. PICK left \in {"bare", "torn"} : snap' = [snap EXCEPT ![Head1.tool].dir = left]
      BY <2>4 DEF EmptySnap
    <3>2. Head1.do = "empty" /\ config' = config
      BY <2>4 DEF EmptySnap, Doing
    <3> QED BY <1>3, <2>1, <3>1, <3>2
  <2>5. CASE SnapFiles
    <3>1. config' = config /\ Head1.do \in {"rmdir", "mkdir", "manifest"}
      BY <2>5 DEF SnapFiles, Doing
    <3>2. CASE Head1.do = "rmdir"
      <4>1. snap' = [snap EXCEPT ![Head1.tool] = NoSnap] /\ NoSnap.dir = "none"
        BY <2>5, <3>2 DEF SnapFiles, Doing, NoSnap
      <4> QED BY <1>3, <2>1, <3>1, <3>2, <4>1
    <3>3. CASE Head1.do = "mkdir"
      <4>1. snap' = [snap EXCEPT ![Head1.tool].dir = IF @ = "none" THEN "bare" ELSE @]
        BY <2>5, <3>3 DEF SnapFiles, Doing
      <4> QED BY <1>3, <2>1, <3>1, <3>3, <4>1
    <3>4. CASE Head1.do = "manifest"
      <4>1. snap' = [snap EXCEPT ![Head1.tool] = [dir |-> "whole", copy |-> config[Head1.tool]]]
        BY <2>5, <3>4 DEF SnapFiles, Doing
      <4> QED BY <1>3, <2>1, <3>1, <3>4, <4>1
    <3> QED BY <3>1, <3>2, <3>3, <3>4
  <2>6. CASE RestoreNothing \/ Mark \/ Profile \/ Save
    BY <2>1, <2>6 DEF RestoreNothing, Mark, Profile, Save
  <2> QED BY <2>2, <2>3, <2>4, <2>5, <2>6 DEF FileStep
<1>6. PICK more \in {<<>>} \cup {<<d>> : d \in {x \in Deed : x.do \in {"empty", "rmdir"}}} :
         \/ /\ registry' = registry /\ Head1.do # "save" /\ task' = [task EXCEPT !.todo = more \o Tail(todo)]
         \/ /\ registry' = Head1.list /\ Head1.do = "save" /\ more = <<>>
            /\ task' = [task EXCEPT !.todo = more \o Tail(todo), !.list = Head1.list]
  <2> DEFINE d(x) == [do |-> x, tool |-> Head1.tool]
  <2>1. Tail(todo) \in Seq(Deed) /\ <<>> \o Tail(todo) = Tail(todo)
    BY <1>1
  <2>2. CASE RestoreNothing \/ SnapFiles \/ Route \/ Mark \/ Profile
    <3>1. registry' = registry /\ Head1.do # "save" /\ task' = [task EXCEPT !.todo = Tail(@)]
      BY <2>2 DEF RestoreNothing, SnapFiles, Route, Mark, Profile, Doing, Going
    <3>2. task' = [task EXCEPT !.todo = <<>> \o Tail(todo)]
      BY <2>1, <3>1
    <3> QED BY <3>1, <3>2
  <2>3. CASE Restore
    <3>1. /\ registry' = registry /\ Head1.do = "restore" /\ task' = [task EXCEPT !.todo = <<d("empty")>> \o Tail(@)]
      BY <2>3 DEF Restore, Doing, GoingOn
    <3>2. d("empty") \in Deed
      BY <1>3, <3>1 DEF Deed
    <3>3. <<d("empty")>> \in {<<x>> : x \in {x \in Deed : x.do \in {"empty", "rmdir"}}}
      BY <3>2
    <3> QED BY <3>1, <3>3
  <2>4. CASE EmptySnap
    <3>1. /\ registry' = registry /\ Head1.do = "empty" /\ task' = [task EXCEPT !.todo = <<d("rmdir")>> \o Tail(@)]
      BY <2>4 DEF EmptySnap, Doing, GoingOn
    <3>2. d("rmdir") \in Deed
      BY <1>3, <3>1 DEF Deed
    <3>3. <<d("rmdir")>> \in {<<x>> : x \in {x \in Deed : x.do \in {"empty", "rmdir"}}}
      BY <3>2
    <3> QED BY <3>1, <3>3
  <2>5. CASE Save
    <3>1. registry' = Head1.list /\ Head1.do = "save" /\ task' = [task EXCEPT !.todo = Tail(@), !.list = Head1.list]
      BY <2>5 DEF Save, Doing
    <3>2. task' = [task EXCEPT !.todo = <<>> \o Tail(todo), !.list = Head1.list]
      BY <2>1, <3>1
    <3> QED BY <3>1, <3>2
  <2> QED BY <2>2, <2>3, <2>4, <2>5 DEF FileStep
<1> DEFINE next == more \o Tail(todo)
<1>7. /\ next \in Seq(Sparing(W))
      /\ next = <<>> => todo[Len(todo)] = todo[1] /\ more = <<>>
      /\ next # <<>> /\ (more = <<>> \/ todo[Len(todo)] # todo[1]) => next[Len(next)] = todo[Len(todo)]
      /\ more # <<>> => next # <<>>
  <2> HIDE DEF todo, W
  <2>1. CASE more = <<>>
    <3>1. next = Tail(todo)
      BY <1>2, <2>1
    <3> HIDE DEF next
    <3> QED BY <1>1, <1>2, <2>1, <3>1, LastOfList
  <2>2. CASE more # <<>>
    <3>1. PICK d \in Deed : d.do \in {"empty", "rmdir"} /\ more = <<d>>
      BY <2>2
    <3>2. d \in Sparing(W)
      BY <3>1 DEF Sparing, Spares
    <3>3. <<d>> \in Seq(Sparing(W)) /\ next \in Seq(Sparing(W)) /\ next # <<>>
      BY <1>2, <3>1, <3>2
    <3> QED BY <1>1, <2>2, <3>1, <3>2, <3>3, LastOfList
  <2> QED BY <2>1, <2>2
<1> HIDE DEF next
<1>8. /\ task'.pc = task.pc /\ task'.tool = task.tool /\ task'.access = task.access /\ task'.seen = task.seen
      /\ task'.left = task.left /\ task'.todo = next
      /\ IF Head1.do = "save" THEN registry' = Head1.list /\ task'.list = Head1.list /\ more = <<>>
         ELSE registry' = registry /\ task'.list = task.list
  BY <1>1, <1>6 DEF TaskRecord, next
<1>9. Watched' = W /\ NewRecord' = NewRecord /\ Ours(clients') = Ours(clients) /\ Ours(clients) \subseteq W
  BY <1>1, <1>8 DEF Watched, NewRecord
<1> HIDE DEF W
<1>10. Head1.do = "save" => Guarded(Ours(clients), Head1.list) /\ Guarded(W, Head1.list)
  BY <1>2, <1>9 DEF Spares, Guarded
<1>11. Guarded(Ours(clients'), registry')
  BY <1>8, <1>9, <1>10 DEF Sheltered, RegistryGuards
<1>12. /\ regfile' # "fine" => Ours(clients') = {}
       /\ task'.pc \in OfLaunch => regfile' = "fine"
  BY <1>1, <1>8, <1>9 DEF Sheltered, RegistryGuards
<1>13. task'.pc = "choose" => Guarded(Watched', task'.list)
  BY <1>8, <1>9, <1>10 DEF Sheltered, LaunchKnows, W
<1>14. task'.pc \in {"spawn", "wait"} => \A p \in Ours(task'.seen) : ~Fits(p, NewRecord')
  BY <1>8, <1>9 DEF Sheltered, LaunchKnows
<1>15. task'.pc = "wait" => task'.todo = <<>> /\ registry' = task'.list
  BY <1>1, <1>8 DEF Sheltered, LaunchKnows
<1>16. task'.pc = "spawn" =>
          /\ \A p \in Ours(clients') : ~Fits(p, NewRecord')
          /\ IF task'.todo = <<>> THEN registry' = task'.list /\ NewRecord' \in registry'
             ELSE LET d == task'.todo[Len(task'.todo)] IN d.do = "save" /\ NewRecord' \in d.list
  <2> SUFFICES ASSUME task.pc = "spawn"
               PROVE  /\ \A p \in Ours(clients') : ~Fits(p, NewRecord')
                      /\ IF next = <<>> THEN registry' = task'.list /\ NewRecord \in registry'
                         ELSE next[Len(next)].do = "save" /\ NewRecord \in next[Len(next)].list
    BY <1>8, <1>9
  <2>1. /\ \A p \in Ours(clients) : ~Fits(p, NewRecord)
        /\ todo[Len(todo)].do = "save" /\ NewRecord \in todo[Len(todo)].list
    BY <1>1 DEF Sheltered, LaunchKnows
  <2>2. CASE next = <<>>
    <3>1. todo[1].do = "save" /\ NewRecord \in todo[1].list
      BY <1>7, <2>1, <2>2
    <3>2. registry' = task'.list /\ NewRecord \in registry'
      BY <1>2, <1>8, <3>1
    <3> QED BY <1>9, <2>1, <2>2, <3>2
  <2>3. CASE next # <<>>
    <3>1. more = <<>> \/ todo[Len(todo)] # todo[1]
      BY <1>2, <1>8, <2>1, <1>6
    <3>2. next[Len(next)] = todo[Len(todo)]
      BY <1>7, <2>3, <3>1
    <3> QED BY <1>9, <2>1, <2>3, <3>2
  <2> QED BY <2>2, <2>3
<1>17. task'.pc = "recover" =>
            /\ Guarded(Ours(clients'), task'.left \cup task'.list)
            /\ \A p \in Ours(clients') : \E q \in task'.seen : p.tool = q.tool /\ p.with = q.with
  BY <1>8, <1>9, <1>10 DEF Sheltered, RecoveryKnows, Guarded
<1>18. task'.todo \in Seq(Sparing(Watched'))
  BY <1>7, <1>8, <1>9
<1> QED BY <1>1, <1>4, <1>5, <1>11, <1>12, <1>13, <1>14, <1>15, <1>16, <1>17, <1>18, ShelterStands

\* At the start there are no clients.
LEMMA ShelteredInit == ClientInit => Sheltered
<1> SUFFICES ASSUME ClientInit PROVE Sheltered
  OBVIOUS
<1>1. setting \in Setting /\ registry = {} /\ clients = {} /\ task = NoTask
  BY DEF ClientInit
<1>2. /\ NoTask.pc = "rest" /\ NoTask.todo = <<>>
  BY DEF NoTask
<1>3. PlainToolsAreOwn
  <2>1. PICK old \in SUBSET Tool, a \in CarAccess :
           /\ config = [t \in Tool |-> IF t \in old \cap Store THEN a ELSE "own"]
           /\ snap = [t \in Tool |-> IF t \in old \cap Store
                                     THEN [dir |-> "whole", copy |-> "own"] ELSE NoSnap]
    BY DEF ClientInit
  <2> QED BY <1>1, <2>1 DEF PlainToolsAreOwn, NoSnap
<1>4. OneOfEach /\ AllShown /\ RegistryGuards /\ LaunchKnows /\ RecoveryKnows
  BY <1>1, <1>2 DEF OneOfEach, AllShown, RegistryGuards, LaunchKnows, RecoveryKnows, Guarded, Ours, OfLaunch
<1>5. task.todo \in Seq(Sparing(Watched))
  BY <1>1, <1>2, SparingLists
<1> QED BY <1>3, <1>4, <1>5 DEF Sheltered

\* Every step keeps what shelters the clients.
LEMMA ShelteredStep == ClientInv /\ Sheltered /\ ~Slow /\ [ClientNext]_clientVars => Sheltered'
<1> SUFFICES ASSUME ClientInv, Sheltered, ~Slow, [ClientNext]_clientVars PROVE Sheltered'
  OBVIOUS
<1>1. CASE UNCHANGED clientVars
  <2>1. UNCHANGED <<setting, config, snap, registry, regfile, clients, task>>
    BY <1>1 DEF clientVars
  <2>2. PlainToolsAreOwn' /\ OneOfEach' /\ AllShown'
    BY <2>1, FewerClients
  <2> QED BY <2>1, <2>2, SameTaskShelters
<1>2. CASE ClientNext
  BY <1>2, BeginningShelters, FileStepShelters, FailingShelters, PrepareShelters, SpawningShelters,
     WaitingShelters, SettlingShelters, RecoveredShelters, EndingShelters, ClientsShelter DEF ClientNext
<1> QED BY <1>1, <1>2

\* Only operations on files touch a profile or a configuration.
LEMMA OthersTouchNothing ==
  ASSUME [ClientNext]_clientVars, ~FileStep
  PROVE  UNCHANGED <<setting, config, profiles>>
BY DEF ClientNext, clientVars, BeginLaunch, BeginRemove, BeginList, BeginRecover, Failed, RouteFailed,
       LaunchNothing, Prepare, Spawn, SeeReady, WaitEnds, Unsaved, Settle, Recovered, FinishTask,
       Appears, Exits, Renews, UserStarts, ClientCrash, Files

\* Where a listing of processes shows a client as soon as it runs, the profile of a client
\* that was started for a ride stays while it lives, and so does the configuration it was
\* started with, whatever is launched, closed, listed or recovered meanwhile, for any tools
\* and rides and any number of failures and crashes (client_launcher.rs, prepare_launch,
\* restore_access, list_instances and recover_stale).
THEOREM ClientsStayUntouched == ClientSpec => UntouchedWhileInUse
<1> DEFINE Inv == ClientInv /\ (Slow \/ Sheltered)
           Kept == \A p \in clients \cap clients' : ~Slow /\ p.ours /\ p.with # "own" =>
                      /\ <<p.tool, p.with>> \in profiles => <<p.tool, p.with>> \in profiles'
                      /\ p.tool \in Store /\ config[p.tool] = p.with => config'[p.tool] = p.with
<1>1. ClientInit => Inv
  BY ClientInvInit, ShelteredInit
<1>2. Inv /\ [ClientNext]_clientVars => Inv'
  <2> SUFFICES ASSUME Inv, [ClientNext]_clientVars PROVE Inv'
    OBVIOUS
  <2>1. setting' = setting
    BY OthersTouchNothing DEF FileStep, RestoreNothing, Restore, EmptySnap, SnapFiles, Route, Mark, Profile, Save
  <2>2. Slow' = Slow
    BY <2>1 DEF Slow
  <2> QED BY <2>2, ClientInvStep, ShelteredStep
<1>3. Inv /\ [ClientNext]_clientVars => [Kept]_clientVars
  <2> SUFFICES ASSUME Inv, [ClientNext]_clientVars, NEW p \in clients, p \in clients', ~Slow, p.ours, p.with # "own"
               PROVE  /\ <<p.tool, p.with>> \in profiles => <<p.tool, p.with>> \in profiles'
                      /\ p.tool \in Store /\ config[p.tool] = p.with => config'[p.tool] = p.with
    OBVIOUS
  <2>1. CASE ~FileStep
    BY <2>1, OthersTouchNothing
  <2>2. CASE FileStep
    <3>1. task.todo \in Seq(Sparing(Watched)) /\ task.todo # <<>>
      BY <2>2 DEF Sheltered, FileStep, RestoreNothing, Restore, EmptySnap, SnapFiles, Route, Mark, Profile, Save, Doing
    <3>2. Spares(Head1, Watched)
      BY <3>1, SparingLists DEF Head1, Sparing
    <3>3. p \in Watched
      BY DEF Watched, Ours
    <3>4. CASE Restore \/ Route
      <4>1. /\ profiles' = profiles /\ Head1.do \in {"restore", "route"}
            /\ \A t \in Tool : t # Head1.tool => config'[t] = config[t]
        BY <3>4 DEF Restore, Route, Doing, ClientInv, ClientShapes
      <4>2. p.tool \in Tool
        BY DEF ClientInv, ClientShapes, Process
      <4>3. p.tool \in Store => p.tool # Head1.tool
        BY <3>2, <3>3, <4>1 DEF Spares
      <4> QED BY <4>1, <4>2, <4>3
    <3>5. CASE Profile
      <4>1. /\ config' = config
            /\ \/ Head1.do = "rmprofile" /\ profiles' = profiles \ {<<Head1.tool, Head1.access>>}
               \/ profiles \subseteq profiles'
        BY <3>5 DEF Profile, Doing
      <4> QED BY <3>2, <3>3, <4>1 DEF Spares
    <3>6. CASE RestoreNothing \/ EmptySnap \/ SnapFiles \/ Mark \/ Save
      BY <3>6 DEF RestoreNothing, EmptySnap, SnapFiles, Mark, Save
    <3> QED BY <2>2, <3>4, <3>5, <3>6 DEF FileStep
  <2> QED BY <2>1, <2>2
<1> QED BY <1>1, <1>2, <1>3, PTL DEF ClientSpec, UntouchedWhileInUse

-----------------------------------------------------------------------------
(***************************************************************************)
(* Diagnostics. The inductive invariant: on disk, a line that is out of    *)
(* date as of the day of another was written after that one; the files fit *)
(* below the limit; the entries that wait in memory are newer than every   *)
(* line and in their order; the last of what was recorded are the last in  *)
(* memory.                                                                 *)
(***************************************************************************)

LogEntry == [number : Nat, day : LogDay]
LogFiles == [LogDay -> Seq(LogEntry)]

\* The lines are all older than some number, and a line that is out of date as of
\* the day of another was written after that one.
Under(f, n) == \A d \in LogDay : \A i \in DOMAIN f[d] : f[d][i].number < n
InOrder(f) ==
    \A c, d \in LogDay : \A i \in DOMAIN f[c], j \in DOMAIN f[d] :
       d + Retention <= f[c][i].day => f[c][i].number < f[d][j].number

\* Every line is in the file of its day, and no entry is there twice.
Neat(f) ==
    \A c, d \in LogDay : \A i \in DOMAIN f[c], j \in DOMAIN f[d] :
       f[c][i].day = c /\ (f[c][i].number = f[d][j].number => c = d /\ i = j)

\* What half lines did to the files.
Holes(disk) ==
    disk.torn \in SUBSET LogDay /\ disk.broken \in SUBSET LogDay /\ disk.ruined \in Nat

SoundLog(disk, n) ==
    /\ disk.lines \in LogFiles /\ Holes(disk)
    /\ BytesFrom(disk.lines, 1) <= MaxBytes
    /\ Under(disk.lines, n) /\ InOrder(disk.lines) /\ Neat(disk.lines)

Rising(entries) ==
    \A i, j \in DOMAIN entries : i < j => entries[i].number < entries[j].number

\* The last of what was said are the last in memory.
LastAreThere ==
    \A i \in Nat : i < Len(said) /\ i < MaxEntries =>
       i < Len(memory) /\ said[Len(said) - i] = memory[Len(memory) - i].number

DiagInv ==
    /\ records \in Nat /\ logDir \in BOOLEAN
    /\ memory \in Seq(LogEntry) /\ Len(memory) <= MaxEntries
    /\ said \in Seq(Nat)
    /\ loaded.entries \in Seq(LogEntry)
    /\ SoundLog(LogDisk, records + 1)
    /\ ~logDir => /\ Rising(memory)
                  /\ \A i \in DOMAIN memory : memory[i].number <= records
                                              /\ SoundLog(LogDisk, memory[i].number)
    /\ LastAreThere

\* The bytes of the files of a day and of those after it, from the last day on.
LEMMA BytesRun ==
  ASSUME NEW f \in LogFiles
  PROVE  /\ BytesFrom(f, LastDay + 1) = 0
         /\ \A d \in 1 .. LastDay + 1 : BytesFrom(f, d) \in Nat
         /\ \A d \in LogDay : BytesFrom(f, d) = Len(f[d]) + BytesFrom(f, d + 1)
<1> DEFINE n == LastDay
           Add(v, d) == Len(f[d]) + v
           step == [i \in 1 .. n |-> [v \in Nat |-> Add(v, n + 1 - i)]]
           Runs(w) == w = [d \in 1 .. n + 1 |-> IF d = n + 1 THEN 0 ELSE Add(w[d + 1], d)]
<1>1. n \in Nat /\ LogDay = 1 .. n
  BY DiagnosticsAssumption DEF LogDay
<1>2. \A d \in LogDay : Len(f[d]) \in Nat
  BY DEF LogFiles
<1>3. \A d \in LogDay, v \in Nat : Add(v, d) \in Nat
  BY <1>2
<1> HIDE DEF Add
<1>4. \A i \in 1 .. n : n + 1 - i \in LogDay
  BY <1>1
<1>5. step \in [1 .. n -> [Nat -> Nat]]
  BY <1>3, <1>4
<1>6. \E w : Runs(w)
  <2> HIDE DEF step, Runs
  <2>1. PICK w \in [0 .. n -> Nat] : w[0] = 0 /\ \A i \in 1 .. n : w[i] = step[i][w[i - 1]]
    <3>1. \E w : Leads(w, n, Nat, 0, step)
      BY <1>1, <1>5, StepsExist
    <3> QED BY <3>1 DEF Leads
  <2> DEFINE b == [d \in 1 .. n + 1 |-> w[n + 1 - d]]
  <2>2. b[n + 1] = 0
    <3>1. n + 1 \in 1 .. n + 1 /\ n + 1 - (n + 1) = 0
      BY <1>1
    <3> QED BY <2>1, <3>1
  <2>3. ASSUME NEW d \in 1 .. n PROVE b[d] = Add(b[d + 1], d)
    <3>1. /\ n + 1 - d \in 1 .. n /\ (n + 1 - d) - 1 = n + 1 - (d + 1) /\ n + 1 - (n + 1 - d) = d
          /\ d + 1 \in 1 .. n + 1 /\ d \in 1 .. n + 1 /\ n + 1 - (d + 1) \in 0 .. n
      BY <1>1
    <3>2. b[d] = w[n + 1 - d] /\ b[d + 1] = w[n + 1 - (d + 1)] /\ b[d + 1] \in Nat
      BY <3>1, <2>1
    <3>3. w[n + 1 - d] = step[n + 1 - d][b[d + 1]]
      BY <2>1, <3>1, <3>2
    <3>4. step[n + 1 - d] = [v \in Nat |-> Add(v, d)]
      BY <3>1 DEF step
    <3> QED BY <3>2, <3>3, <3>4
  <2>4. b = [d \in 1 .. n + 1 |-> IF d = n + 1 THEN 0 ELSE Add(b[d + 1], d)]
    <3>1. ASSUME NEW d \in 1 .. n + 1 PROVE b[d] = IF d = n + 1 THEN 0 ELSE Add(b[d + 1], d)
      <4>1. d # n + 1 => d \in 1 .. n
        BY <1>1
      <4> HIDE DEF b
      <4> QED BY <4>1, <2>2, <2>3
    <3>2. b = [d \in 1 .. n + 1 |-> b[d]]
      OBVIOUS
    <3> HIDE DEF b
    <3> QED BY <3>1, <3>2
  <2> HIDE DEF b
  <2> QED BY <2>4 DEF Runs
<1> DEFINE sum == CHOOSE g : Runs(g)
<1>7. Runs(sum)
  <2> HIDE DEF Runs
  <2> QED BY <1>6
<1>8. \A d : BytesFrom(f, d) = sum[d]
  BY DEF BytesFrom, Add
<1> HIDE DEF sum
<1>9. sum[n + 1] = 0 /\ \A d \in 1 .. n : sum[d] = Add(sum[d + 1], d)
  <2>1. n + 1 \in 1 .. n + 1 /\ \A d \in 1 .. n : d \in 1 .. n + 1 /\ d # n + 1
    BY <1>1
  <2> QED BY <2>1, <1>7
<1>10. \A d \in 1 .. n + 1 : sum[d] \in Nat
  <2> DEFINE T == {i \in Nat : sum[n + 1 - i] \in Nat}
  <2>1. 0 \in T
    <3>1. n + 1 - 0 = n + 1
      BY <1>1
    <3> QED BY <3>1, <1>9
  <2>2. ASSUME NEW i \in 1 .. n, i - 1 \in T PROVE i \in T
    <3>1. n + 1 - i \in 1 .. n /\ (n + 1 - i) + 1 = n + 1 - (i - 1) /\ i \in Nat
      BY <1>1
    <3>2. sum[n + 1 - i] = Add(sum[n + 1 - (i - 1)], n + 1 - i)
      BY <1>9, <3>1
    <3>3. sum[n + 1 - (i - 1)] \in Nat
      BY <2>2
    <3>4. sum[n + 1 - i] \in Nat
      BY <3>2, <3>3, <1>3, <1>1, <3>1
    <3> QED BY <3>1, <3>4
  <2>3. \A i \in 0 .. n : i \in T
    <3> HIDE DEF T
    <3> QED BY <1>1, <2>1, <2>2, NumbersUpTo
  <2>4. ASSUME NEW d \in 1 .. n + 1 PROVE sum[d] \in Nat
    <3>1. n + 1 - d \in 0 .. n /\ n + 1 - (n + 1 - d) = d
      BY <1>1
    <3>2. sum[n + 1 - (n + 1 - d)] \in Nat
      BY <3>1, <2>3
    <3> QED BY <3>1, <3>2
  <2> QED BY <2>4
<1> QED BY <1>1, <1>8, <1>9, <1>10 DEF Add

\* Cleaning up leaves lines or none in each file, nothing that is out of date, and
\* not too much.
LEMMA CleanedIsSound ==
  ASSUME NEW disk, NEW n \in Nat, NEW day \in LogDay,
         disk.lines \in LogFiles, Holes(disk),
         Under(disk.lines, n), Neat(disk.lines),
         \A c, d \in LogDay : \A i \in DOMAIN disk.lines[c], j \in DOMAIN disk.lines[d] :
            d + Retention <= disk.lines[c][i].day /\ ~(d + Retention <= day)
               => disk.lines[c][i].number < disk.lines[d][j].number
  PROVE  SoundLog(CleanedUp(disk, day), n)
<1> DEFINE f == disk.lines
           gone == CleanedDays(f, day)
           g == YoungFiles(f, day)
           h == [d \in LogDay |-> IF d \in gone THEN <<>> ELSE f[d]]
<1>1. LastDay \in Nat /\ LogDay = 1 .. LastDay /\ MaxBytes \in Nat /\ Retention \in Nat
  BY DiagnosticsAssumption DEF LogDay
<1>2. f \in LogFiles /\ \A d \in LogDay : f[d] \in Seq(LogEntry)
  BY DEF LogFiles
<1>3. <<>> \in Seq(LogEntry)
  OBVIOUS
<1>4. g \in LogFiles /\ h \in LogFiles
  <2> HIDE DEF f, gone
  <2> QED BY <1>2, <1>3 DEF LogFiles, YoungFiles
<1>5. CleanedUp(disk, day) = [lines |-> h, torn |-> disk.torn \ gone, broken |-> disk.broken \ gone,
                              ruined |-> disk.ruined]
  BY DEF CleanedUp
<1>6. \A d \in LogDay : d \in gone <=> (d + Retention <= day \/ BytesFrom(g, d) > MaxBytes)
  BY DEF CleanedDays
<1>7. \A d \in LogDay : h[d] = (IF d \in gone THEN <<>> ELSE f[d])
                        /\ g[d] = (IF d + Retention <= day THEN <<>> ELSE f[d])
  BY DEF YoungFiles
<1>8. \A d \in LogDay : h[d] = <<>> \/ (h[d] = f[d] /\ ~(d + Retention <= day))
  BY <1>6, <1>7
<1> HIDE DEF f, gone, g, h
<1>9. BytesFrom(h, 1) <= MaxBytes
  <2> DEFINE N == LastDay
             Small(d) == BytesFrom(h, d) <= MaxBytes /\ BytesFrom(h, d) <= BytesFrom(g, d)
             T == {i \in Nat : Small(N + 1 - i)}
  <2>1. /\ BytesFrom(h, N + 1) = 0 /\ BytesFrom(g, N + 1) = 0
        /\ \A d \in 1 .. N + 1 : BytesFrom(h, d) \in Nat /\ BytesFrom(g, d) \in Nat
        /\ \A d \in LogDay : /\ BytesFrom(h, d) = Len(h[d]) + BytesFrom(h, d + 1)
                             /\ BytesFrom(g, d) = Len(g[d]) + BytesFrom(g, d + 1)
    BY <1>4, BytesRun
  <2>2. 0 \in T
    <3>1. N + 1 - 0 = N + 1
      BY <1>1
    <3> QED BY <3>1, <2>1, <1>1
  <2>3. ASSUME NEW i \in 1 .. N, i - 1 \in T PROVE i \in T
    <3> DEFINE d == N + 1 - i
    <3>1. i \in Nat /\ d \in LogDay /\ d + 1 = N + 1 - (i - 1) /\ d + 1 \in 1 .. N + 1 /\ d \in 1 .. N + 1
      BY <1>1
    <3>2. Small(d + 1)
      BY <2>3, <3>1
    <3> HIDE DEF d
    <3>3. Len(h[d]) \in Nat /\ Len(g[d]) \in Nat
      BY <1>4, <3>1 DEF LogFiles
    <3>6. /\ BytesFrom(h, d) = Len(h[d]) + BytesFrom(h, d + 1)
          /\ BytesFrom(g, d) = Len(g[d]) + BytesFrom(g, d + 1)
          /\ BytesFrom(h, d) \in Nat /\ BytesFrom(g, d) \in Nat
          /\ BytesFrom(h, d + 1) \in Nat /\ BytesFrom(g, d + 1) \in Nat
          /\ Len(h[d]) \in Nat /\ Len(g[d]) \in Nat
          /\ BytesFrom(h, d + 1) <= MaxBytes /\ BytesFrom(h, d + 1) <= BytesFrom(g, d + 1)
      BY <3>1, <3>2, <3>3, <2>1
    <3>4. CASE d \in gone
      <4>1. h[d] = <<>>
        BY <3>1, <3>4, <1>7
      <4>2. Len(h[d]) = 0
        BY <4>1
      <4>3. Small(d)
        BY <4>2, <3>6, <1>1
      <4> QED BY <4>3, <3>1 DEF d
    <3>5. CASE d \notin gone
      <4>1. h[d] = f[d] /\ g[d] = f[d] /\ ~(BytesFrom(g, d) > MaxBytes)
        BY <3>1, <3>5, <1>6, <1>7
      <4>2. Small(d)
        BY <4>1, <3>6, <1>1
      <4> QED BY <4>2, <3>1 DEF d
    <3> QED BY <3>4, <3>5
  <2>4. \A i \in 0 .. N : i \in T
    <3> HIDE DEF T
    <3> QED BY <1>1, <2>2, <2>3, NumbersUpTo
  <2>5. N \in 0 .. N /\ N + 1 - N = 1
    BY <1>1
  <2> QED BY <2>4, <2>5
<1>10. Under(h, n)
  <2> SUFFICES ASSUME NEW d \in LogDay, NEW i \in DOMAIN h[d] PROVE h[d][i].number < n
    BY DEF Under
  <2>1. h[d] # <<>>
    OBVIOUS
  <2>2. h[d] = f[d]
    BY <2>1, <1>8
  <2> QED BY <2>2 DEF Under, f
<1>11. InOrder(h)
  <2> SUFFICES ASSUME NEW c \in LogDay, NEW d \in LogDay,
                      NEW i \in DOMAIN h[c], NEW j \in DOMAIN h[d],
                      d + Retention <= h[c][i].day
               PROVE  h[c][i].number < h[d][j].number
    BY DEF InOrder
  <2>1. h[c] # <<>> /\ h[d] # <<>>
    OBVIOUS
  <2>2. h[c] = f[c] /\ h[d] = f[d] /\ ~(d + Retention <= day)
    BY <2>1, <1>8
  <2> QED BY <2>2 DEF f
<1>12. Neat(h)
  <2> SUFFICES ASSUME NEW c \in LogDay, NEW d \in LogDay,
                      NEW i \in DOMAIN h[c], NEW j \in DOMAIN h[d]
               PROVE  h[c][i].day = c /\ (h[c][i].number = h[d][j].number => c = d /\ i = j)
    BY DEF Neat
  <2>1. h[c] # <<>> /\ h[d] # <<>>
    OBVIOUS
  <2>2. h[c] = f[c] /\ h[d] = f[d]
    BY <2>1, <1>8
  <2> QED BY <2>2 DEF f, Neat
<1>13. Holes(CleanedUp(disk, day))
  BY <1>5 DEF Holes
<1>14. CleanedUp(disk, day).lines = h
  BY <1>5
<1> QED BY <1>4, <1>9, <1>10, <1>11, <1>12, <1>13, <1>14 DEF SoundLog

\* So it keeps a sound log sound.
LEMMA CleanedStaysSound ==
  ASSUME NEW disk, NEW n \in Nat, NEW day \in LogDay, SoundLog(disk, n)
  PROVE  SoundLog(CleanedUp(disk, day), n)
BY CleanedIsSound DEF SoundLog, InOrder

\* A log that is older than a number is older than a greater one.
LEMMA OlderStill ==
  ASSUME NEW disk, NEW n \in Nat, NEW m \in Nat, n <= m, SoundLog(disk, n)
  PROVE  SoundLog(disk, m)
<1>1. ASSUME NEW d \in LogDay, NEW i \in DOMAIN disk.lines[d] PROVE disk.lines[d][i].number < m
  <2>1. disk.lines[d] \in Seq(LogEntry)
    BY DEF SoundLog, LogFiles
  <2>2. disk.lines[d][i] \in LogEntry
    BY <2>1
  <2>3. disk.lines[d][i].number \in Nat
    BY <2>2 DEF LogEntry
  <2>4. disk.lines[d][i].number < n
    BY DEF SoundLog, Under
  <2> QED BY <2>3, <2>4
<1> QED BY <1>1 DEF SoundLog, Under

\* A newer entry is appended, and its file is cleaned up behind it.
LEMMA AppendedIsSound ==
  ASSUME NEW disk, NEW e \in LogEntry, SoundLog(disk, e.number)
  PROVE  SoundLog(Appended(disk, e), e.number + 1)
<1> DEFINE f == disk.lines
           more == WithLine(disk, e)
           g == more.lines
<1>1. e.number \in Nat /\ e.day \in LogDay /\ e.number + 1 \in Nat
  BY DEF LogEntry
<1>2. f \in LogFiles /\ \A d \in LogDay : f[d] \in Seq(LogEntry)
  BY DEF SoundLog, LogFiles
<1>3. g = (IF e.day \in disk.torn THEN f ELSE [f EXCEPT ![e.day] = Append(f[e.day], e)])
      /\ more.torn = disk.torn \ {e.day}
  BY DEF WithLine
<1>4. Holes(more)
  BY DEF SoundLog, Holes, WithLine
<1>5. Appended(disk, e) = CleanedUp(more, e.day)
  BY DEF Appended
<1> HIDE DEF f, more
<1>6. \A d \in LogDay : \/ g[d] = f[d]
                        \/ d = e.day /\ g[d] = Append(f[d], e)
  BY <1>1, <1>2, <1>3 DEF LogFiles
<1>7. g \in LogFiles
  <2>1. Append(f[e.day], e) \in Seq(LogEntry)
    BY <1>1, <1>2
  <2> QED BY <1>2, <1>3, <2>1 DEF LogFiles
<1> HIDE DEF g
\* A line is an old one, or the new one, of its own day.
<1>8. ASSUME NEW d \in LogDay, NEW i \in DOMAIN g[d]
      PROVE  \/ i \in DOMAIN f[d] /\ g[d][i] = f[d][i]
             \/ d = e.day /\ g[d][i] = e
  <2>1. f[d] \in Seq(LogEntry)
    BY <1>2
  <2>2. CASE g[d] = f[d]
    BY <2>2
  <2>3. CASE d = e.day /\ g[d] = Append(f[d], e)
    <3>1. i \in 1 .. Len(f[d]) + 1
      BY <2>1, <2>3
    <3>2. CASE i = Len(f[d]) + 1
      BY <2>1, <2>3, <3>2
    <3>3. CASE i # Len(f[d]) + 1
      <4>1. i \in 1 .. Len(f[d])
        BY <2>1, <3>1, <3>3
      <4> QED BY <2>1, <2>3, <4>1
    <3> QED BY <3>2, <3>3
  <2> QED BY <2>2, <2>3, <1>6
<1>9. \A d \in LogDay : \A i \in DOMAIN f[d] : f[d][i].number < e.number /\ f[d][i].number \in Nat
  <2> SUFFICES ASSUME NEW d \in LogDay, NEW i \in DOMAIN f[d]
               PROVE  f[d][i].number < e.number /\ f[d][i].number \in Nat
    OBVIOUS
  <2>1. f[d] \in Seq(LogEntry)
    BY <1>2
  <2>2. f[d][i] \in LogEntry
    BY <2>1
  <2> QED BY <2>2 DEF SoundLog, Under, f, LogEntry
<1>10. Under(g, e.number + 1)
  <2> SUFFICES ASSUME NEW d \in LogDay, NEW i \in DOMAIN g[d] PROVE g[d][i].number < e.number + 1
    BY DEF Under
  <2>1. CASE i \in DOMAIN f[d] /\ g[d][i] = f[d][i]
    BY <2>1, <1>1, <1>9
  <2>2. CASE g[d][i] = e
    BY <2>2, <1>1
  <2> QED BY <2>1, <2>2, <1>8
<1>11. ASSUME NEW c \in LogDay, NEW d \in LogDay, NEW i \in DOMAIN g[c], NEW j \in DOMAIN g[d],
              d + Retention <= g[c][i].day, ~(d + Retention <= e.day)
       PROVE  g[c][i].number < g[d][j].number
  <2>1. g[c][i] # e
    BY <1>11
  <2>2. i \in DOMAIN f[c] /\ g[c][i] = f[c][i]
    BY <2>1, <1>8
  <2>3. CASE j \in DOMAIN f[d] /\ g[d][j] = f[d][j]
    BY <1>11, <2>2, <2>3 DEF SoundLog, InOrder, f
  <2>4. CASE g[d][j] = e
    BY <2>2, <2>4, <1>9
  <2> QED BY <2>3, <2>4, <1>8
\* The new line is the last of its file, and newer than every other.
<1>12. ASSUME NEW d \in LogDay, NEW i \in DOMAIN g[d], g[d][i] = e
       PROVE  d = e.day /\ i = Len(f[d]) + 1
  <2>1. f[d] \in Seq(LogEntry)
    BY <1>2
  <2>2. i \notin DOMAIN f[d] \/ g[d][i] # f[d][i]
    BY <1>1, <1>9, <1>12
  <2>3. g[d] = Append(f[d], e) /\ d = e.day
    BY <1>6, <2>2
  <2>4. i \in 1 .. Len(f[d]) + 1 /\ \A k \in 1 .. Len(f[d]) : k \in DOMAIN f[d] /\ g[d][k] = f[d][k]
    BY <2>1, <2>3
  <2> QED BY <2>1, <2>2, <2>3, <2>4
<1>13. Neat(g)
  <2> SUFFICES ASSUME NEW c \in LogDay, NEW d \in LogDay,
                      NEW i \in DOMAIN g[c], NEW j \in DOMAIN g[d]
               PROVE  g[c][i].day = c /\ (g[c][i].number = g[d][j].number => c = d /\ i = j)
    BY DEF Neat
  <2>1. CASE i \in DOMAIN f[c] /\ g[c][i] = f[c][i] /\ j \in DOMAIN f[d] /\ g[d][j] = f[d][j]
    BY <2>1 DEF SoundLog, Neat, f
  <2>2. CASE i \in DOMAIN f[c] /\ g[c][i] = f[c][i] /\ g[d][j] = e
    <3>1. f[c][i].day = c
      BY <2>2 DEF SoundLog, Neat, f
    <3>2. f[c][i].number # e.number
      BY <1>1, <1>9, <2>2
    <3> QED BY <2>2, <3>1, <3>2
  <2>3. CASE g[c][i] = e /\ j \in DOMAIN f[d] /\ g[d][j] = f[d][j]
    <3>1. c = e.day
      BY <1>12, <2>3
    <3>2. f[d][j].number # e.number
      BY <1>1, <1>9, <2>3
    <3> QED BY <2>3, <3>1, <3>2
  <2>4. CASE g[c][i] = e /\ g[d][j] = e
    BY <1>12, <2>4
  <2> QED BY <2>1, <2>2, <2>3, <2>4, <1>8
<1>14. SoundLog(CleanedUp(more, e.day), e.number + 1)
  BY <1>1, <1>4, <1>7, <1>10, <1>11, <1>13, CleanedIsSound DEF g
<1> QED BY <1>5, <1>14

\* One entry after the other.
AppendRun(w, disk, entries) ==
  /\ w[0] = disk
  /\ \A i \in 1 .. Len(entries) : w[i] = Appended(w[i - 1], entries[i])
  /\ AllAppended(disk, entries) = w[Len(entries)]

\* There is such a run.
LEMMA AppendRuns ==
  ASSUME NEW disk, NEW entries \in Seq(LogEntry),
         \E S : disk \in S /\ \A d \in S, e \in LogEntry : Appended(d, e) \in S
  PROVE  \E w : AppendRun(w, disk, entries)
<1> PICK S : disk \in S /\ \A d \in S, e \in LogEntry : Appended(d, e) \in S
  OBVIOUS
<1> DEFINE n == Len(entries)
           Add(v, i) == Appended(v, entries[i])
           f == [i \in 1 .. n |-> [v \in S |-> Add(v, i)]]
           Runs(w) == w = [i \in 0 .. n |-> IF i = 0 THEN disk ELSE Add(w[i - 1], i)]
<1>1. n \in Nat /\ \A i \in 1 .. n : entries[i] \in LogEntry
  OBVIOUS
<1>2. \A i \in 1 .. n, v \in S : Add(v, i) \in S
  BY <1>1
<1>3. AllAppended(disk, entries) = (CHOOSE g : Runs(g))[n]
  BY DEF AllAppended
<1> HIDE DEF Add, n
<1>4. f \in [1 .. n -> [S -> S]]
  BY <1>2
<1>5. \E w : Runs(w)
  <2> HIDE DEF f, Runs
  <2>1. PICK w \in [0 .. n -> S] : w[0] = disk /\ \A i \in 1 .. n : w[i] = f[i][w[i - 1]]
    <3>1. \E w : Leads(w, n, S, disk, f)
      BY <1>1, <1>4, StepsExist
    <3> QED BY <3>1 DEF Leads
  <2>2. ASSUME NEW i \in 1 .. n PROVE w[i] = Add(w[i - 1], i)
    <3>1. i - 1 \in 0 .. n
      BY <1>1
    <3>2. w[i - 1] \in S
      BY <3>1
    <3> QED BY <2>1, <3>2 DEF f
  <2>3. Runs(w)
    BY <1>1, <2>1, <2>2 DEF Runs
  <2> QED BY <2>3
<1> DEFINE w == CHOOSE g : Runs(g)
<1>6. Runs(w)
  <2> HIDE DEF Runs
  <2> QED BY <1>5
<1>7. AllAppended(disk, entries) = w[n]
  BY <1>3
<1> HIDE DEF w
<1>8. w[0] = disk /\ \A i \in 1 .. n : w[i] = Add(w[i - 1], i)
  BY <1>1, <1>6
<1> QED BY <1>7, <1>8 DEF AppendRun, Add, n

\* The log as a whole: what is on disk, whatever is in it.
LogShapes == [lines : LogFiles, torn : SUBSET LogDay, broken : SUBSET LogDay, ruined : Nat]

\* What half lines cost: the lines lost behind them, and those that will be.
Damage(disk) == disk.ruined + Cardinality(disk.torn)

\* It is a number.
LEMMA DamageIsNat == ASSUME NEW d \in LogShapes
  PROVE IsFiniteSet(d.torn) /\ Cardinality(d.torn) \in Nat /\ d.ruined \in Nat /\ Damage(d) \in Nat
<1>1. IsFiniteSet(LogDay)
  <2>1. LastDay \in Nat
    BY DiagnosticsAssumption
  <2> QED BY <2>1, FS_Interval DEF LogDay
<1>2. d.torn \in SUBSET LogDay /\ d.ruined \in Nat
  BY DEF LogShapes
<1>3. IsFiniteSet(d.torn) /\ Cardinality(d.torn) \in Nat
  BY <1>1, <1>2, FS_Subset, FS_CardinalityType
<1> QED BY <1>2, <1>3 DEF Damage

\* Cleaning up costs no line that is not removed.
LEMMA CleanedIsLog ==
  ASSUME NEW d \in LogShapes, NEW day \in LogDay
  PROVE  CleanedUp(d, day) \in LogShapes /\ Damage(CleanedUp(d, day)) <= Damage(d)
<1> DEFINE gone == CleanedDays(d.lines, day)
           h == [a \in LogDay |-> IF a \in gone THEN <<>> ELSE d.lines[a]]
           rest == d.torn \ gone
           holes == d.broken \ gone
<1>1. /\ d.torn \in SUBSET LogDay /\ d.broken \in SUBSET LogDay
      /\ d.ruined \in Nat /\ \A a \in LogDay : d.lines[a] \in Seq(LogEntry)
  BY DEF LogShapes, LogFiles
<1>2. CleanedUp(d, day) = [lines |-> h, torn |-> rest, broken |-> holes, ruined |-> d.ruined]
  BY DEF CleanedUp
<1> HIDE DEF gone
<1>3. h \in LogFiles /\ rest \in SUBSET LogDay /\ holes \in SUBSET LogDay
  <2>1. <<>> \in Seq(LogEntry)
    OBVIOUS
  <2> QED BY <1>1, <2>1 DEF LogFiles
<1>4. Cardinality(rest) <= Cardinality(d.torn)
  <2>1. rest \subseteq d.torn
    OBVIOUS
  <2> HIDE DEF rest
  <2> QED BY <2>1, DamageIsNat, FS_Subset
<1> HIDE DEF h, rest, holes
<1>5. /\ CleanedUp(d, day) \in LogShapes
      /\ CleanedUp(d, day).ruined = d.ruined /\ CleanedUp(d, day).torn = rest
  BY <1>1, <1>2, <1>3 DEF LogShapes
<1>6. Cardinality(rest) \in Nat /\ Cardinality(d.torn) \in Nat
  BY <1>5, DamageIsNat
<1> QED BY <1>1, <1>4, <1>5, <1>6 DEF Damage

\* A line is lost behind half a line only, and ends it.
LEMMA LinedIsLog ==
  ASSUME NEW d \in LogShapes, NEW e \in LogEntry
  PROVE  WithLine(d, e) \in LogShapes /\ Damage(WithLine(d, e)) <= Damage(d)
<1> DEFINE f == IF e.day \in d.torn THEN d.lines ELSE [d.lines EXCEPT ![e.day] = Append(@, e)]
           rest == d.torn \ {e.day}
           cost == IF e.day \in d.torn THEN 1 ELSE 0
           k == Cardinality(d.torn)
           m == Cardinality(rest)
<1>1. /\ d.lines \in LogFiles /\ d.torn \in SUBSET LogDay /\ d.broken \in SUBSET LogDay
      /\ d.ruined \in Nat /\ \A a \in LogDay : d.lines[a] \in Seq(LogEntry)
  BY DEF LogShapes, LogFiles
<1>2. WithLine(d, e) = [lines |-> f, torn |-> rest, broken |-> d.broken, ruined |-> d.ruined + cost]
  BY DEF WithLine
<1>3. f \in LogFiles
  <2>1. e.day \in LogDay
    BY DEF LogEntry
  <2>2. Append(d.lines[e.day], e) \in Seq(LogEntry)
    BY <1>1, <2>1
  <2> QED BY <1>1, <2>2 DEF LogFiles
<1>4. cost \in Nat /\ rest \in SUBSET LogDay
  BY <1>1
<1>5. m = (IF e.day \in d.torn THEN k - 1 ELSE k)
  <2>1. IsFiniteSet(d.torn)
    BY DamageIsNat
  <2> QED BY <2>1, FS_RemoveElement
<1>6. k \in Nat
  BY DamageIsNat
<1> HIDE DEF f, rest, k, m
<1>7. cost + m = k
  BY <1>5, <1>6
<1> HIDE DEF cost
<1>8. /\ WithLine(d, e) \in LogShapes
      /\ WithLine(d, e).ruined = d.ruined + cost /\ WithLine(d, e).torn = rest
  BY <1>1, <1>2, <1>3, <1>4 DEF LogShapes
<1>9. m \in Nat
  BY <1>8, DamageIsNat DEF m
<1>10. Damage(WithLine(d, e)) = (d.ruined + cost) + m /\ Damage(d) = d.ruined + k
  BY <1>8 DEF Damage, m, k
<1> QED BY <1>1, <1>4, <1>6, <1>7, <1>8, <1>9, <1>10

\* So a line that is written costs no other line.
LEMMA AppendedIsLog ==
  ASSUME NEW d \in LogShapes, NEW e \in LogEntry
  PROVE  Appended(d, e) \in LogShapes /\ Damage(Appended(d, e)) <= Damage(d)
<1>1. e.day \in LogDay
  BY DEF LogEntry
<1>2. WithLine(d, e) \in LogShapes /\ Damage(WithLine(d, e)) <= Damage(d)
  BY LinedIsLog
<1>3. /\ CleanedUp(WithLine(d, e), e.day) \in LogShapes
      /\ Damage(CleanedUp(WithLine(d, e), e.day)) <= Damage(WithLine(d, e))
  BY <1>1, <1>2, CleanedIsLog
<1>4. /\ Damage(d) \in Nat /\ Damage(WithLine(d, e)) \in Nat
      /\ Damage(CleanedUp(WithLine(d, e), e.day)) \in Nat
  BY <1>2, <1>3, DamageIsNat
<1> QED BY <1>2, <1>3, <1>4 DEF Appended

\* Newer entries, one after the other, leave it sound.
LEMMA AllAppendedIsSound ==
  ASSUME NEW disk \in LogShapes, NEW entries \in Seq(LogEntry), NEW n \in Nat,
         Rising(entries), SoundLog(disk, n),
         \A i \in DOMAIN entries : entries[i].number < n /\ SoundLog(disk, entries[i].number)
  PROVE  SoundLog(AllAppended(disk, entries), n)
<1> DEFINE N == Len(entries)
<1>1. N \in Nat /\ DOMAIN entries = 1 .. N /\ \A i \in 1 .. N : entries[i] \in LogEntry
  OBVIOUS
<1>2. \A i \in 1 .. N : entries[i].number \in Nat /\ entries[i].day \in LogDay
  BY <1>1 DEF LogEntry
<1>3. PICK w : AppendRun(w, disk, entries)
  <2>1. \A d \in LogShapes, e \in LogEntry : Appended(d, e) \in LogShapes
    BY AppendedIsLog
  <2>2. \E S : disk \in S /\ \A d \in S, e \in LogEntry : Appended(d, e) \in S
    BY <2>1
  <2> QED BY <2>2, AppendRuns
<1> HIDE DEF N
<1>4. w[0] = disk /\ (\A i \in 1 .. N : w[i] = Appended(w[i - 1], entries[i]))
      /\ AllAppended(disk, entries) = w[N]
  BY <1>3 DEF AppendRun, N
<1> DEFINE T == {i \in 0 .. N : /\ SoundLog(w[i], n)
                                /\ \A j \in 1 .. N : i < j => SoundLog(w[i], entries[j].number)}
<1>5. 0 \in T
  <2>1. 0 \in 0 .. N /\ SoundLog(w[0], n)
    BY <1>1, <1>4
  <2>2. ASSUME NEW j \in 1 .. N PROVE SoundLog(w[0], entries[j].number)
    BY <1>1, <1>4
  <2> QED BY <2>1, <2>2
<1>6. ASSUME NEW i \in 1 .. N, i - 1 \in T PROVE i \in T
  <2>1. i \in 0 .. N /\ i - 1 < i
    BY <1>1
  <2>2. SoundLog(w[i - 1], entries[i].number)
    BY <1>6, <2>1
  <2>3. SoundLog(w[i], entries[i].number + 1)
    BY <1>1, <1>4, <2>2, AppendedIsSound
  <2>4. SoundLog(w[i], n)
    <3>1. entries[i].number + 1 <= n /\ entries[i].number + 1 \in Nat
      BY <1>1, <1>2
    <3> QED BY <3>1, <2>3, OlderStill
  <2>5. ASSUME NEW j \in 1 .. N, i < j PROVE SoundLog(w[i], entries[j].number)
    <3>1. entries[i].number < entries[j].number
      BY <1>1, <2>5 DEF Rising
    <3>2. entries[i].number + 1 <= entries[j].number /\ entries[i].number + 1 \in Nat
          /\ entries[j].number \in Nat
      BY <3>1, <1>2
    <3> QED BY <3>2, <2>3, OlderStill
  <2> QED BY <2>1, <2>4, <2>5
<1>7. \A i \in 0 .. N : i \in T
  <2> HIDE DEF T
  <2> QED BY <1>1, <1>5, <1>6, NumbersUpTo
<1>8. N \in 0 .. N
  BY <1>1
<1> QED BY <1>4, <1>7, <1>8

\* An empty directory is a sound log.
LEMMA EmptyLogIsSound ==
  ASSUME NEW n \in Nat, NEW disk, disk.lines = NoFiles, Holes(disk)
  PROVE  SoundLog(disk, n)
<1> DEFINE N == LastDay
           T == {i \in Nat : BytesFrom(NoFiles, N + 1 - i) = 0}
<1>1. N \in Nat /\ LogDay = 1 .. N /\ MaxBytes \in Nat
  BY DiagnosticsAssumption DEF LogDay
<1>2. NoFiles \in LogFiles /\ \A d \in LogDay : NoFiles[d] = <<>>
  <2>1. <<>> \in Seq(LogEntry)
    OBVIOUS
  <2> QED BY <2>1 DEF NoFiles, LogFiles
<1>3. BytesFrom(NoFiles, 1) = 0
  <2>1. 0 \in T
    <3>1. N + 1 - 0 = N + 1
      BY <1>1
    <3> QED BY <3>1, <1>2, BytesRun
  <2>2. ASSUME NEW i \in 1 .. N, i - 1 \in T PROVE i \in T
    <3>1. i \in Nat /\ N + 1 - i \in LogDay /\ (N + 1 - i) + 1 = N + 1 - (i - 1)
      BY <1>1
    <3>2. Len(NoFiles[N + 1 - i]) = 0
      BY <3>1, <1>2
    <3>3. BytesFrom(NoFiles, N + 1 - i) = Len(NoFiles[N + 1 - i]) + BytesFrom(NoFiles, (N + 1 - i) + 1)
      BY <3>1, <1>2, BytesRun
    <3>4. BytesFrom(NoFiles, N + 1 - (i - 1)) = 0
      BY <2>2
    <3> QED BY <3>1, <3>2, <3>3, <3>4
  <2>3. \A i \in 0 .. N : i \in T
    <3> HIDE DEF T
    <3> QED BY <1>1, <2>1, <2>2, NumbersUpTo
  <2>4. N \in 0 .. N /\ N + 1 - N = 1
    BY <1>1
  <2> QED BY <2>3, <2>4
<1>4. \A d \in LogDay : DOMAIN NoFiles[d] = {}
  BY <1>2
<1>5. Under(NoFiles, n) /\ InOrder(NoFiles) /\ Neat(NoFiles)
  BY <1>4 DEF Under, InOrder, Neat
<1> QED BY <1>1, <1>2, <1>3, <1>5 DEF SoundLog

\* Only the lines matter.
LEMMA SameLog ==
  ASSUME NEW disk, NEW other, NEW n, SoundLog(disk, n),
         other.lines = disk.lines, Holes(other)
  PROVE  SoundLog(other, n)
BY DEF SoundLog

\* What push_memory keeps of a list.
LEMMA NewestFacts ==
  ASSUME NEW S, NEW s \in Seq(S)
  PROVE  LET z == Len(s) - Len(Newest(s)) IN
         /\ Newest(s) \in Seq(S)
         /\ Len(Newest(s)) = IF Len(s) > MaxEntries THEN MaxEntries ELSE Len(s)
         /\ z \in Nat
         /\ \A k \in 1 .. Len(Newest(s)) : k + z \in 1 .. Len(s) /\ Newest(s)[k] = s[k + z]
<1> DEFINE z == IF Len(s) > MaxEntries THEN Len(s) - MaxEntries ELSE 0
<1>1. MaxEntries \in Nat /\ Len(s) \in Nat
  BY DiagnosticsAssumption
<1>2. z \in Nat /\ z <= Len(s)
  BY <1>1
<1>3. Newest(s) = SubSeq(s, z + 1, Len(s))
  BY DEF Newest
<1> HIDE DEF z
<1>4. /\ SubSeq(s, z + 1, Len(s)) \in Seq(S)
      /\ Len(SubSeq(s, z + 1, Len(s))) = Len(s) - z
      /\ \A k \in 1 .. Len(s) - z : SubSeq(s, z + 1, Len(s))[k] = s[z + 1 + k - 1]
  <2>1. \A i \in (z + 1) .. Len(s) : s[i] \in S
    BY <1>1, <1>2
  <2> QED BY <1>1, <1>2, <2>1
<1>5. Len(Newest(s)) = Len(s) - z /\ z = Len(s) - Len(Newest(s))
  BY <1>1, <1>2, <1>3, <1>4
<1>6. ASSUME NEW k \in 1 .. Len(Newest(s)) PROVE k + z \in 1 .. Len(s) /\ Newest(s)[k] = s[k + z]
  <2>1. k \in 1 .. Len(s) - z /\ z + 1 + k - 1 = k + z
    BY <1>1, <1>2, <1>5
  <2> QED BY <2>1, <1>1, <1>2, <1>3, <1>4
<1>7. Len(Newest(s)) = IF Len(s) > MaxEntries THEN MaxEntries ELSE Len(s)
  BY <1>1, <1>5 DEF z
<1> QED BY <1>1, <1>2, <1>3, <1>4, <1>5, <1>6, <1>7

\* The last of a list are the last of what is kept.
LEMMA NewestIsLast ==
  ASSUME NEW S, NEW s \in Seq(S), NEW i \in Nat, i < Len(s), i < MaxEntries
  PROVE  /\ i < Len(Newest(s)) /\ Newest(s)[Len(Newest(s)) - i] = s[Len(s) - i]
<1> DEFINE m == Newest(s)
           z == Len(s) - Len(m)
<1>1. /\ m \in Seq(S) /\ Len(m) = IF Len(s) > MaxEntries THEN MaxEntries ELSE Len(s)
      /\ z \in Nat /\ \A k \in 1 .. Len(m) : k + z \in 1 .. Len(s) /\ m[k] = s[k + z]
  BY NewestFacts
<1>2. MaxEntries \in Nat /\ Len(s) \in Nat
  BY DiagnosticsAssumption
<1> HIDE DEF m
<1>3. Len(m) \in Nat
  BY <1>1
<1>4. Len(m) - i \in 1 .. Len(m) /\ (Len(m) - i) + z = Len(s) - i /\ i < Len(m)
  BY <1>1, <1>2, <1>3
<1>5. m[Len(m) - i] = s[(Len(m) - i) + z]
  BY <1>1, <1>4
<1> QED BY <1>4, <1>5 DEF m

\* At the start everything is empty.
LEMMA DiagInvInit == DiagInit => DiagInv
<1> SUFFICES ASSUME DiagInit PROVE DiagInv
  OBVIOUS
<1>1. /\ records = 0 /\ logDir = FALSE /\ memory = <<>> /\ said = <<>>
      /\ loaded.entries = <<>>
  BY DEF DiagInit, NotLoaded
<1>2. SoundLog(LogDisk, records + 1)
  <2>1. LogDisk.lines = NoFiles /\ Holes(LogDisk)
    BY DEF DiagInit, LogDisk, Holes
  <2>2. records + 1 \in Nat
    BY <1>1
  <2> QED BY <2>1, <2>2, EmptyLogIsSound
<1>3. memory \in Seq(LogEntry) /\ said \in Seq(Nat) /\ Len(memory) = 0 /\ Len(said) = 0 /\ DOMAIN memory = {}
      /\ loaded.entries \in Seq(LogEntry)
  BY <1>1
<1>4. Rising(memory)
  BY <1>3 DEF Rising
<1>5. LastAreThere
  <2> SUFFICES ASSUME NEW i \in Nat, i < Len(said), i < MaxEntries PROVE FALSE
    BY DEF LastAreThere
  <2> QED BY <1>3
<1>6. MaxEntries \in Nat /\ Len(memory) <= MaxEntries
  BY <1>3, DiagnosticsAssumption
<1>7. records \in Nat /\ logDir \in BOOLEAN
  BY <1>1
<1>8. \A i \in DOMAIN memory : memory[i].number <= records /\ SoundLog(LogDisk, memory[i].number)
  BY <1>3
<1> QED BY <1>2, <1>3, <1>4, <1>5, <1>6, <1>7, <1>8 DEF DiagInv

\* An entry is recorded.
LEMMA RecordingKeeps ==
  ASSUME DiagInv, NEW day \in LogDay, RecordEntry(day)
  PROVE  DiagInv'
<1> DEFINE e == [number |-> records + 1, day |-> day]
           s == Append(memory, e)
<1>1. /\ records \in Nat /\ records' = records + 1 /\ logDir \in BOOLEAN /\ logDir' = logDir
      /\ memory \in Seq(LogEntry) /\ Len(memory) <= MaxEntries /\ said \in Seq(Nat)
      /\ loaded.entries \in Seq(LogEntry) /\ loaded' = loaded
      /\ SoundLog(LogDisk, records + 1) /\ LastAreThere
  BY DEF DiagInv, RecordEntry, Memory
<1>2. e \in LogEntry /\ e.number = records + 1
  BY <1>1 DEF LogEntry
<1>3. said' = Append(said, records + 1) /\ memory' = Newest(s)
  BY DEF RecordEntry, Memory
<1>4. \/ logDir /\ DiskBecomes(Appended(LogDisk, e))
      \/ logDir /\ HalfLine(LogDisk, day)
      \/ UNCHANGED <<files, torn, broken, ruined>>
  BY DEF RecordEntry
<1> HIDE DEF e
<1>5. MaxEntries \in Nat
  BY DiagnosticsAssumption
<1>6. /\ s \in Seq(LogEntry) /\ Len(s) = Len(memory) + 1
      /\ \A k \in 1 .. Len(memory) : s[k] = memory[k]
      /\ s[Len(memory) + 1] = e /\ Len(memory) \in Nat
  BY <1>1, <1>2
<1> HIDE DEF s
<1> DEFINE z == Len(s) - Len(memory')
<1>7. /\ memory' \in Seq(LogEntry)
      /\ Len(memory') = IF Len(s) > MaxEntries THEN MaxEntries ELSE Len(s)
      /\ z \in Nat
      /\ \A k \in 1 .. Len(memory') : k + z \in 1 .. Len(s) /\ memory'[k] = s[k + z]
  BY <1>3, <1>6, NewestFacts
<1>8. Len(memory') <= MaxEntries /\ Len(memory') \in Nat
  BY <1>5, <1>6, <1>7
<1>9. SoundLog(LogDisk', records' + 1)
  <2>1. CASE logDir /\ DiskBecomes(Appended(LogDisk, e))
    <3>1. SoundLog(Appended(LogDisk, e), e.number + 1)
      BY <1>1, <1>2, AppendedIsSound
    <3>2. LogDisk'.lines = Appended(LogDisk, e).lines /\ Holes(LogDisk')
      BY <2>1, <3>1 DEF LogDisk, DiskBecomes, SoundLog, Holes
    <3> QED BY <3>1, <3>2, <1>1, <1>2, SameLog
  <2>2. CASE HalfLine(LogDisk, day) \/ UNCHANGED <<files, torn, broken, ruined>>
    <3>1. LogDisk'.lines = LogDisk.lines /\ Holes(LogDisk')
      BY <1>1, <2>2 DEF LogDisk, HalfLine, SoundLog, Holes
    <3>2. records + 1 \in Nat /\ records' + 1 \in Nat /\ records + 1 <= records' + 1
      BY <1>1
    <3>3. SoundLog(LogDisk, records' + 1)
      BY <3>2, <1>1, OlderStill
    <3> QED BY <3>1, <3>3, SameLog
  <2> QED BY <2>1, <2>2, <1>4
<1>10. ASSUME ~logDir'
       PROVE  /\ Rising(memory')
              /\ \A i \in DOMAIN memory' : memory'[i].number <= records'
                                           /\ SoundLog(LogDisk', memory'[i].number)
  <2>1. ~logDir /\ LogDisk' = LogDisk
    BY <1>1, <1>4, <1>10 DEF LogDisk
  <2>2. /\ \A i, j \in 1 .. Len(memory) : i < j => memory[i].number < memory[j].number
        /\ \A i \in 1 .. Len(memory) : memory[i].number <= records
                                       /\ SoundLog(LogDisk, memory[i].number)
    <3>1. DOMAIN memory = 1 .. Len(memory)
      BY <1>1
    <3> QED BY <2>1, <3>1 DEF DiagInv, Rising
  <2>3. \A i \in 1 .. Len(memory) : memory[i].number \in Nat
    <3>1. \A i \in 1 .. Len(memory) : memory[i] \in LogEntry
      BY <1>1
    <3> QED BY <3>1 DEF LogEntry
  <2>4. \A k \in 1 .. Len(s) : k \in 1 .. Len(memory) \/ k = Len(memory) + 1
    BY <1>6
  <2>5. ASSUME NEW k \in 1 .. Len(s)
        PROVE  s[k].number \in Nat /\ s[k].number <= records + 1 /\ SoundLog(LogDisk, s[k].number)
    <3>1. CASE k \in 1 .. Len(memory)
      <4>1. s[k] = memory[k]
        BY <1>6, <3>1
      <4>2. memory[k].number <= records /\ memory[k].number \in Nat /\ SoundLog(LogDisk, memory[k].number)
        BY <2>2, <2>3, <3>1
      <4> QED BY <4>1, <4>2, <1>1
    <3>2. CASE k = Len(memory) + 1
      BY <3>2, <1>1, <1>2, <1>6
    <3> QED BY <3>1, <3>2, <2>4
  <2>6. ASSUME NEW i \in 1 .. Len(s), NEW j \in 1 .. Len(s), i < j PROVE s[i].number < s[j].number
    <3>1. i \in 1 .. Len(memory)
      BY <2>6, <1>6
    <3>2. CASE j \in 1 .. Len(memory)
      BY <2>2, <2>6, <3>1, <3>2, <1>6
    <3>3. CASE j = Len(memory) + 1
      <4>1. s[j].number = records + 1 /\ s[i] = memory[i]
        BY <3>1, <3>3, <1>2, <1>6
      <4> QED BY <4>1, <3>1, <2>2, <2>3, <1>1
    <3> QED BY <3>2, <3>3, <2>4
  <2>7. DOMAIN memory' = 1 .. Len(memory')
    BY <1>7
  <2>8. Rising(memory')
    <3> SUFFICES ASSUME NEW i \in 1 .. Len(memory'), NEW j \in 1 .. Len(memory'), i < j
                 PROVE  memory'[i].number < memory'[j].number
      BY <2>7 DEF Rising
    <3>1. i + z \in 1 .. Len(s) /\ j + z \in 1 .. Len(s) /\ i + z < j + z
      BY <1>7, <1>8
    <3> QED BY <3>1, <2>6, <1>7
  <2>9. ASSUME NEW i \in 1 .. Len(memory')
        PROVE  memory'[i].number <= records' /\ SoundLog(LogDisk', memory'[i].number)
    <3>1. i + z \in 1 .. Len(s) /\ memory'[i] = s[i + z]
      BY <1>7
    <3> HIDE DEF z
    <3> QED BY <3>1, <2>1, <2>5, <1>1
  <2> QED BY <2>7, <2>8, <2>9
<1>11. LastAreThere'
  <2> SUFFICES ASSUME NEW i \in Nat, i < Len(said'), i < MaxEntries
               PROVE  i < Len(memory') /\ said'[Len(said') - i] = memory'[Len(memory') - i].number
    BY DEF LastAreThere
  <2>1. /\ Len(said') = Len(said) + 1 /\ Len(said) \in Nat /\ said'[Len(said) + 1] = records + 1
        /\ \A k \in 1 .. Len(said) : said'[k] = said[k]
    BY <1>1, <1>3
  <2>2. CASE i = 0
    <3>1. i < Len(s) /\ Len(s) - i = Len(memory) + 1 /\ Len(said') - i = Len(said) + 1
      BY <2>2, <1>6, <2>1
    <3>2. i < Len(memory') /\ memory'[Len(memory') - i] = s[Len(memory) + 1]
      BY <3>1, <1>3, <1>6, NewestIsLast
    <3> QED BY <3>1, <3>2, <2>1, <1>2, <1>6
  <2>3. CASE i # 0
    <3> DEFINE h == i - 1
    <3>1. h \in Nat /\ h < Len(said) /\ h < MaxEntries
      BY <2>1, <2>3, <1>5
    <3>2. h < Len(memory) /\ said[Len(said) - h] = memory[Len(memory) - h].number
      BY <3>1, <1>1 DEF LastAreThere
    <3>3. /\ i < Len(s) /\ Len(s) - i = Len(memory) - h /\ Len(memory) - h \in 1 .. Len(memory)
          /\ Len(said') - i = Len(said) - h /\ Len(said) - h \in 1 .. Len(said)
      BY <3>1, <3>2, <2>1, <2>3, <1>6
    <3>4. i < Len(memory') /\ memory'[Len(memory') - i] = s[Len(s) - i]
      BY <3>3, <1>3, <1>6, NewestIsLast
    <3> HIDE DEF h
    <3> QED BY <3>2, <3>3, <3>4, <2>1, <1>6
  <2> QED BY <2>2, <2>3
<1>12. said' \in Seq(Nat) /\ records' \in Nat
  BY <1>1, <1>3
<1> QED BY <1>1, <1>7, <1>8, <1>9, <1>10, <1>11, <1>12 DEF DiagInv

\* The entries of a day are cleaned up and read.
LEMMA LoadingKeeps ==
  ASSUME DiagInv, NEW day \in LogDay, LoadHistory(day)
  PROVE  DiagInv'
<1>1. /\ records \in Nat /\ SoundLog(LogDisk, records + 1) /\ memory \in Seq(LogEntry)
      /\ UNCHANGED <<memory, logDir, said, records>>
  BY DEF DiagInv, LoadHistory
<1>2. ASSUME NEW n \in Nat, SoundLog(LogDisk, n) PROVE SoundLog(LogDisk', n)
  <2>1. SoundLog(CleanedUp(LogDisk, day), n)
    BY <1>2, CleanedStaysSound
  <2>2. LogDisk'.lines = CleanedUp(LogDisk, day).lines /\ Holes(LogDisk')
    BY <2>1 DEF LogDisk, DiskBecomes, LoadHistory, SoundLog, Holes
  <2> QED BY <2>1, <2>2, SameLog
<1>3. SoundLog(LogDisk', records' + 1)
  <2>1. records + 1 \in Nat
    BY <1>1
  <2> QED BY <1>1, <1>2, <2>1
<1>4. loaded'.entries \in Seq(LogEntry)
  <2>1. files' \in LogFiles
    BY <1>3 DEF SoundLog, LogDisk
  <2>2. files' \in Seq(Seq(LogEntry))
    <3>1. LogDay = 1 .. LastDay /\ LastDay \in Nat
      BY DiagnosticsAssumption DEF LogDay
    <3> QED BY <2>1, <3>1 DEF LogFiles
  <2>3. Lines(files') \in Seq(LogEntry)
    BY <2>2, FlattenIsTyped DEF Lines
  <2>4. Newest(Lines(files')) \in Seq(LogEntry)
    BY <2>3, NewestFacts
  <2>5. loaded'.entries = Newest(Lines(files'))
    BY DEF LoadHistory
  <2> QED BY <2>4, <2>5
<1>5. \A i \in DOMAIN memory : memory[i].number \in Nat
  <2>1. \A i \in DOMAIN memory : memory[i] \in LogEntry
    BY <1>1
  <2> QED BY <2>1 DEF LogEntry
<1>6. LastAreThere'
  BY <1>1 DEF LastAreThere, DiagInv
<1>7. ~logDir' => \A i \in DOMAIN memory' : memory'[i].number <= records' /\ SoundLog(LogDisk', memory'[i].number)
  BY <1>1, <1>2, <1>5 DEF DiagInv
<1>8. ~logDir' => Rising(memory')
  BY <1>1 DEF DiagInv
<1> QED BY <1>1, <1>3, <1>4, <1>6, <1>7, <1>8 DEF DiagInv

\* A new process has recorded nothing.
LEMMA NewProcessKeeps ==
  ASSUME DiagInv, memory' = <<>>, said' = <<>>, records' = records, logDir' \in BOOLEAN,
         loaded'.entries \in Seq(LogEntry), SoundLog(LogDisk', records + 1)
  PROVE  DiagInv'
<1>1. /\ memory' \in Seq(LogEntry) /\ Len(memory') = 0 /\ DOMAIN memory' = {}
      /\ said' \in Seq(Nat) /\ Len(said') = 0
  OBVIOUS
<1>2. Rising(memory') /\ LastAreThere'
  BY <1>1 DEF Rising, LastAreThere
<1>3. MaxEntries \in Nat
  BY DiagnosticsAssumption
<1> QED BY <1>1, <1>2, <1>3 DEF DiagInv

\* So the log is one.
LEMMA LogIsShaped == ASSUME NEW n, SoundLog(LogDisk, n) PROVE LogDisk \in LogShapes
<1>1. files \in LogFiles /\ torn \in SUBSET LogDay /\ broken \in SUBSET LogDay /\ ruined \in Nat
  BY DEF SoundLog, Holes, LogDisk
<1> QED BY <1>1 DEF LogDisk, LogShapes

\* Entries that waited are written, one after the other, as many as there are.
LEMMA WaitingIsWritten ==
  ASSUME DiagInv, ~logDir, NEW n \in 0 .. Len(memory)
  PROVE  SoundLog(AllAppended(LogDisk, SubSeq(memory, 1, n)), records + 1)
<1> DEFINE part == SubSeq(memory, 1, n)
<1>1. /\ records \in Nat /\ records + 1 \in Nat /\ memory \in Seq(LogEntry)
      /\ SoundLog(LogDisk, records + 1) /\ Rising(memory)
      /\ \A i \in DOMAIN memory : memory[i].number <= records /\ SoundLog(LogDisk, memory[i].number)
  BY DEF DiagInv
<1>2. /\ part \in Seq(LogEntry) /\ Len(part) = n /\ n \in Nat
      /\ \A k \in 1 .. n : k \in DOMAIN memory /\ part[k] = memory[k]
  <2>1. n \in Nat /\ n <= Len(memory) /\ Len(memory) \in Nat
    BY <1>1
  <2>2. \A i \in 1 .. n : memory[i] \in LogEntry
    BY <1>1, <2>1
  <2> QED BY <1>1, <2>1, <2>2
<1> HIDE DEF part
<1>3. DOMAIN part = 1 .. n
  BY <1>2
<1>4. \A i \in DOMAIN memory : memory[i].number \in Nat
  <2>1. \A i \in DOMAIN memory : memory[i] \in LogEntry
    BY <1>1
  <2> QED BY <2>1 DEF LogEntry
<1>5. Rising(part)
  BY <1>1, <1>2, <1>3 DEF Rising
<1>6. \A i \in DOMAIN part : part[i].number < records + 1 /\ SoundLog(LogDisk, part[i].number)
  <2> SUFFICES ASSUME NEW i \in 1 .. n
               PROVE  part[i].number < records + 1 /\ SoundLog(LogDisk, part[i].number)
    BY <1>3
  <2>1. part[i] = memory[i] /\ memory[i].number <= records /\ memory[i].number \in Nat
        /\ SoundLog(LogDisk, memory[i].number)
    BY <1>1, <1>2, <1>4
  <2> QED BY <2>1, <1>1
<1>7. LogDisk \in LogShapes
  BY <1>1, LogIsShaped
<1>8. SoundLog(AllAppended(LogDisk, part), records + 1)
  BY <1>1, <1>2, <1>5, <1>6, <1>7, AllAppendedIsSound
<1> QED BY <1>8 DEF part

\* configure takes over.
LEMMA TakingOverKeeps ==
  ASSUME DiagInv, TakeOver
  PROVE  DiagInv'
<1> DEFINE disk == AllAppended(LogDisk, memory)
           s == loaded.entries \o memory
<1>1. /\ records \in Nat /\ records' = records /\ logDir' = TRUE /\ ~logDir
      /\ memory \in Seq(LogEntry) /\ Len(memory) <= MaxEntries
      /\ loaded.entries \in Seq(LogEntry) /\ LastAreThere
      /\ said \in Seq(Nat) /\ said' = said
  BY DEF DiagInv, TakeOver
<1>2. SoundLog(disk, records + 1)
  <2>1. Len(memory) \in 0 .. Len(memory) /\ SubSeq(memory, 1, Len(memory)) = memory
    BY <1>1
  <2> QED BY <1>1, <2>1, WaitingIsWritten
<1>3. memory' = Newest(s) /\ DiskBecomes(disk) /\ loaded' = NotLoaded
  BY DEF TakeOver, Waiting
<1> HIDE DEF disk
<1>4. SoundLog(LogDisk', records' + 1)
  <2>1. LogDisk'.lines = disk.lines /\ Holes(LogDisk')
    BY <1>2, <1>3 DEF LogDisk, DiskBecomes, SoundLog, Holes
  <2> QED BY <1>1, <1>2, <2>1, SameLog
<1>5. /\ s \in Seq(LogEntry) /\ Len(s) = Len(loaded.entries) + Len(memory)
      /\ Len(loaded.entries) \in Nat /\ Len(memory) \in Nat
      /\ \A k \in 1 .. Len(memory) : s[Len(loaded.entries) + k] = memory[k]
  <2>1. Len(loaded.entries) \in Nat /\ Len(memory) \in Nat
    BY <1>1
  <2>2. s \in Seq(LogEntry) /\ Len(s) = Len(loaded.entries) + Len(memory)
    BY <1>1, <2>1
  <2>3. ASSUME NEW k \in 1 .. Len(memory) PROVE s[Len(loaded.entries) + k] = memory[k]
    <3>1. /\ Len(loaded.entries) + k \in 1 .. Len(loaded.entries) + Len(memory)
          /\ Len(loaded.entries) + k > Len(loaded.entries)
          /\ (Len(loaded.entries) + k) - Len(loaded.entries) = k
      BY <2>1
    <3> QED BY <1>1, <3>1
  <2> QED BY <2>1, <2>2, <2>3
<1> HIDE DEF s
<1>6. MaxEntries \in Nat
  BY DiagnosticsAssumption
<1>7. memory' \in Seq(LogEntry) /\ Len(memory') <= MaxEntries
  <2>1. memory' \in Seq(LogEntry) /\ Len(memory') = IF Len(s) > MaxEntries THEN MaxEntries ELSE Len(s)
    BY <1>3, <1>5, NewestFacts
  <2> QED BY <2>1, <1>5, <1>6
<1>8. LastAreThere'
  <2> SUFFICES ASSUME NEW i \in Nat, i < Len(said), i < MaxEntries
               PROVE  i < Len(memory') /\ said[Len(said) - i] = memory'[Len(memory') - i].number
    BY <1>1 DEF LastAreThere
  <2>1. i < Len(memory) /\ said[Len(said) - i] = memory[Len(memory) - i].number
    BY <1>1 DEF LastAreThere
  <2>2. i < Len(s) /\ Len(s) - i = Len(loaded.entries) + (Len(memory) - i)
        /\ Len(memory) - i \in 1 .. Len(memory)
    BY <2>1, <1>5
  <2>3. i < Len(memory') /\ memory'[Len(memory') - i] = s[Len(s) - i]
    BY <2>2, <1>3, <1>5, NewestIsLast
  <2> QED BY <2>1, <2>2, <2>3, <1>5
<1>9. loaded'.entries \in Seq(LogEntry)
  BY <1>3 DEF NotLoaded
<1> QED BY <1>1, <1>4, <1>7, <1>8, <1>9 DEF DiagInv

\* Every step keeps the invariant.
LEMMA DiagInvStep == DiagInv /\ [DiagNext]_diagVars => DiagInv'
<1> SUFFICES ASSUME DiagInv, [DiagNext]_diagVars PROVE DiagInv'
  OBVIOUS
<1>1. /\ records \in Nat /\ records + 1 \in Nat /\ SoundLog(LogDisk, records + 1)
      /\ logDir \in BOOLEAN /\ memory \in Seq(LogEntry)
      /\ LogDisk.lines = files /\ LogDisk'.lines = files' /\ Holes(LogDisk)
  BY DEF DiagInv, LogDisk, SoundLog
<1>2. NotLoaded.entries \in Seq(LogEntry)
  BY DEF NotLoaded
<1>3. ASSUME NEW d \in LogDay, RecordEntry(d) PROVE DiagInv'
  BY <1>3, RecordingKeeps
<1>4. ASSUME NEW d \in LogDay, LoadHistory(d) PROVE DiagInv'
  BY <1>4, LoadingKeeps
<1>5. CASE ClearLogs
  <2>1. /\ memory' = <<>> /\ said' = <<>> /\ records' = records /\ logDir' = logDir /\ loaded' = loaded
    BY <1>5 DEF ClearLogs, Memory
  <2>2. SoundLog(LogDisk', records + 1)
    <3>1. CASE logDir
      <4>1. files' = NoFiles /\ Holes(LogDisk')
        BY <1>1, <1>5, <3>1 DEF ClearLogs, Holes, LogDisk
      <4> QED BY <4>1, <1>1, EmptyLogIsSound
    <3>2. CASE ~logDir
      <4>1. files' = files /\ Holes(LogDisk')
        BY <1>1, <1>5, <3>2 DEF ClearLogs, Holes, LogDisk
      <4> QED BY <4>1, <1>1, SameLog
    <3> QED BY <3>1, <3>2
  <2> QED BY <2>1, <2>2, <1>1, NewProcessKeeps DEF DiagInv
<1>6. CASE TakeOver
  BY <1>6, TakingOverKeeps
<1>7. CASE TakeOverFails
  <2>1. PICK n \in 0 .. (Len(memory) - 1) :
          LET disk == AllAppended(LogDisk, SubSeq(memory, 1, n))
          IN  DiskBecomes(disk) \/ HalfLine(disk, memory[n + 1].day)
    BY <1>7 DEF TakeOverFails, Waiting
  <2> DEFINE disk == AllAppended(LogDisk, SubSeq(memory, 1, n))
  <2>2. DiskBecomes(disk) \/ HalfLine(disk, memory[n + 1].day)
    BY <2>1
  <2>3. n \in 0 .. Len(memory) /\ n + 1 \in 1 .. Len(memory) /\ ~logDir
    <3>1. Len(memory) \in Nat
      BY <1>1
    <3> QED BY <3>1, <1>7 DEF TakeOverFails
  <2>4. SoundLog(disk, records + 1)
    BY <2>3, WaitingIsWritten
  <2>5. memory[n + 1].day \in LogDay
    <3>1. memory[n + 1] \in LogEntry
      BY <2>3, <1>1
    <3> QED BY <3>1 DEF LogEntry
  <2> HIDE DEF disk
  <2>6. files' = disk.lines /\ Holes(LogDisk')
    BY <2>2, <2>4, <2>5 DEF SoundLog, Holes, LogDisk, DiskBecomes, HalfLine
  <2>7. SoundLog(LogDisk', records + 1)
    BY <2>4, <2>6, <1>1, SameLog
  <2> QED BY <1>2, <1>7, <2>7, NewProcessKeeps DEF TakeOverFails, Gone
<1>8. CASE LogDies
  <2>1. files' = files /\ Holes(LogDisk')
    BY <1>1, <1>8 DEF LogDies, HalfLine, Holes, LogDisk
  <2>2. SoundLog(LogDisk', records + 1)
    BY <2>1, <1>1, SameLog
  <2> QED BY <1>2, <1>8, <2>2, NewProcessKeeps DEF LogDies, Gone
<1>10. ASSUME NEW d \in LogDay, HistoryUnreadable(d) PROVE DiagInv'
  <2>1. SoundLog(CleanedUp(LogDisk, d), records + 1)
    BY <1>1, CleanedStaysSound
  <2>2. LogDisk'.lines = CleanedUp(LogDisk, d).lines /\ Holes(LogDisk')
    BY <1>10, <2>1 DEF HistoryUnreadable, LogDisk, DiskBecomes, SoundLog, Holes
  <2>3. SoundLog(LogDisk', records + 1)
    BY <2>1, <2>2, SameLog
  <2> QED BY <1>2, <1>10, <2>3, NewProcessKeeps DEF HistoryUnreadable, Gone
<1>9. CASE UNCHANGED diagVars
  BY <1>9 DEF diagVars, DiagInv, LogDisk, LastAreThere
<1> QED BY <1>3, <1>4, <1>5, <1>6, <1>7, <1>8, <1>9, <1>10 DEF DiagNext

\* The invariant gives the property.
LEMMA SoundLogKeepsTheNewest == DiagInv => LogsKeepTheNewest
<1> SUFFICES ASSUME DiagInv PROVE LogsBounded /\ NewestAreShown
  BY DEF LogsKeepTheNewest
<1>1. /\ files \in LogFiles /\ BytesFrom(files, 1) <= MaxBytes /\ InOrder(files)
      /\ Under(files, records + 1) /\ records \in Nat
  BY DEF DiagInv, SoundLog, LogDisk
<1>2. \A d \in LogDay : files[d] \in Seq(LogEntry)
  BY <1>1 DEF LogFiles
<1>3. ASSUME NEW e \in OnDisk, \A other \in OnDisk : other.number <= e.number,
             NEW d \in LogDay, d + Retention <= e.day
      PROVE  files[d] = <<>>
  <2>0. PICK c \in LogDay : e \in ToSet(files[c])
    BY <1>3 DEF OnDisk
  <2>1. PICK i \in DOMAIN files[c] : e = files[c][i]
    BY <2>0 DEF ToSet
  <2>2. e.number \in Nat
    <3>1. e \in LogEntry
      BY <2>1, <1>2
    <3> QED BY <3>1 DEF LogEntry
  <2>3. ASSUME NEW j \in DOMAIN files[d] PROVE FALSE
    <3>1. e.number < files[d][j].number
      BY <1>1, <1>3, <2>1 DEF InOrder
    <3>2. files[d][j] \in OnDisk
      BY DEF OnDisk, ToSet
    <3>3. files[d][j].number <= e.number
      BY <3>2, <1>3
    <3>4. files[d][j].number \in Nat
      <4>1. files[d][j] \in LogEntry
        BY <1>2
      <4> QED BY <4>1 DEF LogEntry
    <3> QED BY <3>1, <3>3, <3>4, <2>2
  <2>4. files[d] \in Seq(LogEntry) /\ Len(files[d]) \in Nat /\ DOMAIN files[d] = 1 .. Len(files[d])
    BY <1>2
  <2>5. Len(files[d]) = 0
    <3>1. 1 \notin 1 .. Len(files[d])
      BY <2>3, <2>4
    <3> QED BY <3>1, <2>4
  <2> QED BY <2>4, <2>5
<1>4. LogsBounded
  BY <1>1, <1>3 DEF LogsBounded
<1>5. ASSUME NEW k \in DOMAIN Newest(said) PROVE Newest(said)[k] \in Numbers(memory)
  <2> DEFINE r == Newest(said)
             z == Len(said) - Len(r)
             i == Len(r) - k
  <2>1. said \in Seq(Nat) /\ memory \in Seq(LogEntry) /\ LastAreThere /\ MaxEntries \in Nat
    BY DiagnosticsAssumption DEF DiagInv
  <2>2. /\ r \in Seq(Nat) /\ Len(r) = IF Len(said) > MaxEntries THEN MaxEntries ELSE Len(said)
        /\ z \in Nat /\ \A a \in 1 .. Len(r) : a + z \in 1 .. Len(said) /\ r[a] = said[a + z]
    BY <2>1, NewestFacts
  <2>3. k \in DOMAIN r
    BY <1>5
  <2> HIDE DEF r
  <2> HIDE DEF i, z
  <2>4. k \in 1 .. Len(r) /\ Len(r) \in Nat /\ Len(said) \in Nat /\ Len(memory) \in Nat
    <3>1. r \in Seq(Nat)
      BY <2>2
    <3>2. DOMAIN r = 1 .. Len(r) /\ Len(r) \in Nat
      BY <3>1
    <3> QED BY <2>1, <2>3, <3>2
  <2>5. i \in Nat /\ i < Len(said) /\ i < MaxEntries /\ Len(said) - i = k + z
    <3>1. z = Len(said) - Len(r) /\ i = Len(r) - k /\ z \in Nat
          /\ Len(r) = IF Len(said) > MaxEntries THEN MaxEntries ELSE Len(said)
      BY <2>2 DEF z, i
    <3>2. k \in Nat /\ 1 <= k /\ k <= Len(r) /\ Len(r) \in Nat /\ Len(said) \in Nat /\ MaxEntries \in Nat
      BY <2>1, <2>4
    <3> QED BY <3>1, <3>2
  <2>6. i < Len(memory) /\ said[Len(said) - i] = memory[Len(memory) - i].number
    BY <2>1, <2>5 DEF LastAreThere
  <2>7. Len(memory) - i \in DOMAIN memory
    BY <2>1, <2>4, <2>5, <2>6
  <2>8. r[k] = memory[Len(memory) - i].number
    BY <2>2, <2>4, <2>5, <2>6
  <2> QED BY <2>7, <2>8 DEF Numbers, r
<1>6. NewestAreShown
  BY <1>5 DEF NewestAreShown
<1> QED BY <1>4, <1>6

\* LogsKeepTheNewest: whatever days the entries carry and however often the process
\* dies, the files stay below MAX_LOG_BYTES with nothing that is out of date, and
\* finding the data directory loses no recent entry of this process.
THEOREM LogsStayKept == DiagSpec => []LogsKeepTheNewest
<1>1. DiagInit => DiagInv
  BY DiagInvInit
<1>2. DiagInv /\ [DiagNext]_diagVars => DiagInv'
  BY DiagInvStep
<1>3. DiagInv => LogsKeepTheNewest
  BY SoundLogKeepsTheNewest
<1> QED BY <1>1, <1>2, <1>3, PTL DEF DiagSpec

\* Nor do several, one after the other.
LEMMA AllAppendedIsLog ==
  ASSUME NEW disk \in LogShapes, NEW entries \in Seq(LogEntry)
  PROVE  AllAppended(disk, entries) \in LogShapes /\ Damage(AllAppended(disk, entries)) <= Damage(disk)
<1> DEFINE N == Len(entries)
<1>1. N \in Nat /\ \A i \in 1 .. N : entries[i] \in LogEntry
  OBVIOUS
<1>2. PICK w : AppendRun(w, disk, entries)
  <2>1. \A d \in LogShapes, e \in LogEntry : Appended(d, e) \in LogShapes
    BY AppendedIsLog
  <2>2. \E S : disk \in S /\ \A d \in S, e \in LogEntry : Appended(d, e) \in S
    BY <2>1
  <2> QED BY <2>2, AppendRuns
<1> HIDE DEF N
<1>3. w[0] = disk /\ (\A i \in 1 .. N : w[i] = Appended(w[i - 1], entries[i]))
      /\ AllAppended(disk, entries) = w[N]
  BY <1>2 DEF AppendRun, N
<1> DEFINE T == {i \in 0 .. N : w[i] \in LogShapes /\ Damage(w[i]) <= Damage(disk)}
<1>4. 0 \in T
  <2>1. Damage(disk) \in Nat
    BY DamageIsNat
  <2> QED BY <1>1, <1>3, <2>1
<1>5. ASSUME NEW i \in 1 .. N, i - 1 \in T PROVE i \in T
  <2>1. w[i - 1] \in LogShapes /\ Damage(w[i - 1]) <= Damage(disk)
    BY <1>5
  <2>2. w[i] \in LogShapes /\ Damage(w[i]) <= Damage(w[i - 1])
    BY <1>1, <1>3, <2>1, AppendedIsLog
  <2>3. Damage(w[i]) \in Nat /\ Damage(w[i - 1]) \in Nat /\ Damage(disk) \in Nat
    BY <2>1, <2>2, DamageIsNat
  <2>4. i \in 0 .. N
    BY <1>1
  <2> QED BY <2>1, <2>2, <2>3, <2>4
<1>6. \A i \in 0 .. N : i \in T
  <2> HIDE DEF T
  <2> QED BY <1>1, <1>4, <1>5, NumbersUpTo
<1>7. N \in 0 .. N
  BY <1>1
<1> QED BY <1>3, <1>6, <1>7

\* The half lines so far are a number, and no fewer than the lines they cost.
Contained == tears \in Nat /\ Damage(LogDisk) <= tears

\* A disk that is not more damaged than there are half lines stays so, when one more
\* is written too.
LEMMA DiskStaysContained ==
  ASSUME tears \in Nat, NEW disk \in LogShapes, Damage(disk) <= tears, NEW d,
         (DiskBecomes(disk) /\ UNCHANGED tears) \/ HalfLine(disk, d)
  PROVE  Contained'
<1>1. Damage(LogDisk)' = ruined' + Cardinality(torn')
  BY DEF Damage, LogDisk
<1>2. /\ IsFiniteSet(disk.torn) /\ Cardinality(disk.torn) \in Nat /\ disk.ruined \in Nat
      /\ disk.ruined + Cardinality(disk.torn) <= tears
  BY DamageIsNat DEF Damage
<1>3. CASE DiskBecomes(disk) /\ UNCHANGED tears
  <2>1. ruined' = disk.ruined /\ torn' = disk.torn /\ tears' = tears
    BY <1>3 DEF DiskBecomes
  <2> QED BY <1>1, <1>2, <2>1 DEF Contained
<1>4. CASE HalfLine(disk, d)
  <2>1. ruined' = disk.ruined /\ torn' = disk.torn \cup {d} /\ tears' = tears + 1
    BY <1>4 DEF HalfLine
  <2>2. Cardinality(disk.torn \cup {d}) =
           (IF d \in disk.torn THEN Cardinality(disk.torn) ELSE Cardinality(disk.torn) + 1)
    BY <1>2, FS_AddElement
  <2> DEFINE k == Cardinality(disk.torn)
             m == Cardinality(disk.torn \cup {d})
  <2>3. k \in Nat /\ m = (IF d \in disk.torn THEN k ELSE k + 1) /\ disk.ruined + k <= tears
    BY <1>2, <2>2
  <2>4. Damage(LogDisk)' = disk.ruined + m
    BY <1>1, <2>1
  <2> HIDE DEF k, m
  <2>5. disk.ruined + m <= tears + 1
    BY <1>2, <2>3
  <2> QED BY <2>1, <2>4, <2>5 DEF Contained
<1> QED BY <1>3, <1>4

\* Every step keeps it.
LEMMA ContainedStep == DiagInv /\ Contained /\ [DiagNext]_diagVars => Contained'
<1> SUFFICES ASSUME DiagInv, Contained, [DiagNext]_diagVars PROVE Contained'
  OBVIOUS
<1>1. LogDisk \in LogShapes /\ tears \in Nat /\ Damage(LogDisk) <= tears
  BY LogIsShaped DEF DiagInv, Contained
<1>2. Damage(LogDisk) \in Nat
  BY <1>1, DamageIsNat
<1>3. ASSUME NEW d \in LogDay, RecordEntry(d) PROVE Contained'
  <2> DEFINE e == [number |-> records + 1, day |-> d]
  <2>1. \/ DiskBecomes(Appended(LogDisk, e)) /\ UNCHANGED tears
        \/ HalfLine(LogDisk, d)
        \/ UNCHANGED <<files, torn, broken, ruined, tears>>
    BY <1>3 DEF RecordEntry
  <2>2. e \in LogEntry
    <3>1. records + 1 \in Nat
      BY DEF DiagInv
    <3> QED BY <3>1 DEF LogEntry
  <2> HIDE DEF e
  <2>3. Appended(LogDisk, e) \in LogShapes /\ Damage(Appended(LogDisk, e)) <= Damage(LogDisk)
    BY <1>1, <2>2, AppendedIsLog
  <2>4. Damage(Appended(LogDisk, e)) <= tears
    BY <1>1, <1>2, <2>3, DamageIsNat
  <2>5. CASE DiskBecomes(Appended(LogDisk, e)) /\ UNCHANGED tears
    BY <1>1, <2>3, <2>4, <2>5, DiskStaysContained
  <2>6. CASE HalfLine(LogDisk, d)
    BY <1>1, <2>6, DiskStaysContained
  <2>7. CASE UNCHANGED <<files, torn, broken, ruined, tears>>
    <3>1. LogDisk' = LogDisk /\ tears' = tears
      BY <2>7 DEF LogDisk
    <3> QED BY <1>1, <3>1 DEF Contained
  <2> QED BY <2>1, <2>5, <2>6, <2>7
<1>4. ASSUME NEW d \in LogDay, LoadHistory(d) \/ HistoryUnreadable(d) PROVE Contained'
  <2>1. DiskBecomes(CleanedUp(LogDisk, d)) /\ UNCHANGED tears
    BY <1>4 DEF LoadHistory, HistoryUnreadable
  <2>2. CleanedUp(LogDisk, d) \in LogShapes /\ Damage(CleanedUp(LogDisk, d)) <= Damage(LogDisk)
    BY <1>1, CleanedIsLog
  <2>3. Damage(CleanedUp(LogDisk, d)) <= tears
    BY <1>1, <1>2, <2>2, DamageIsNat
  <2> QED BY <1>1, <2>1, <2>2, <2>3, DiskStaysContained
<1>5. CASE ClearLogs
  <2>1. ruined' = ruined /\ tears' = tears /\ (torn' = {} \/ torn' = torn)
    BY <1>5 DEF ClearLogs
  <2>2. LogDisk.ruined = ruined /\ LogDisk.torn = torn /\ LogDisk'.ruined = ruined' /\ LogDisk'.torn = torn'
    BY DEF LogDisk
  <2>3. ruined \in Nat /\ Cardinality(torn) \in Nat /\ ruined + Cardinality(torn) <= tears
    BY <1>1, <2>2, DamageIsNat DEF Damage
  <2>4. Cardinality(torn') <= Cardinality(torn) /\ Cardinality(torn') \in Nat
    <3>1. CASE torn' = {}
      <4>1. Cardinality(torn') = 0
        BY <3>1, FS_EmptySet
      <4> QED BY <2>3, <4>1
    <3>2. CASE torn' = torn
      BY <2>3, <3>2
    <3> QED BY <2>1, <3>1, <3>2
  <2> QED BY <1>1, <2>1, <2>2, <2>3, <2>4 DEF Contained, Damage
<1>6. CASE TakeOver
  <2>1. DiskBecomes(AllAppended(LogDisk, memory)) /\ UNCHANGED tears
    BY <1>6 DEF TakeOver, Waiting
  <2>2. memory \in Seq(LogEntry)
    BY DEF DiagInv
  <2>3. /\ AllAppended(LogDisk, memory) \in LogShapes
        /\ Damage(AllAppended(LogDisk, memory)) <= Damage(LogDisk)
    BY <1>1, <2>2, AllAppendedIsLog
  <2>4. Damage(AllAppended(LogDisk, memory)) <= tears
    BY <1>1, <1>2, <2>3, DamageIsNat
  <2> QED BY <1>1, <2>1, <2>3, <2>4, DiskStaysContained
<1>7. CASE TakeOverFails
  <2>1. PICK n \in 0 .. (Len(memory) - 1) :
          LET disk == AllAppended(LogDisk, SubSeq(memory, 1, n))
          IN  (DiskBecomes(disk) /\ UNCHANGED tears) \/ HalfLine(disk, memory[n + 1].day)
    BY <1>7 DEF TakeOverFails, Waiting
  <2> DEFINE part == SubSeq(memory, 1, n)
             disk == AllAppended(LogDisk, part)
  <2>2. (DiskBecomes(disk) /\ UNCHANGED tears) \/ HalfLine(disk, memory[n + 1].day)
    BY <2>1
  <2>3. memory \in Seq(LogEntry) /\ Len(memory) \in Nat
    BY DEF DiagInv
  <2>4. part \in Seq(LogEntry)
    <3>1. \A i \in 1 .. n : memory[i] \in LogEntry
      BY <2>3
    <3> QED BY <2>3, <3>1
  <2> HIDE DEF part
  <2>6. disk \in LogShapes /\ Damage(disk) <= Damage(LogDisk)
    BY <1>1, <2>4, AllAppendedIsLog
  <2> HIDE DEF disk
  <2>7. Damage(disk) <= tears
    BY <1>1, <1>2, <2>6, DamageIsNat
  <2> QED BY <1>1, <2>2, <2>6, <2>7, DiskStaysContained
<1>8. CASE LogDies
  <2>1. PICK d : UNCHANGED <<files, torn, broken, ruined, tears>> \/ HalfLine(LogDisk, d)
    BY <1>8 DEF LogDies
  <2>2. CASE HalfLine(LogDisk, d)
    BY <1>1, <2>2, DiskStaysContained
  <2>3. CASE UNCHANGED <<files, torn, broken, ruined, tears>>
    <3>1. LogDisk' = LogDisk /\ tears' = tears
      BY <2>3 DEF LogDisk
    <3> QED BY <1>1, <3>1 DEF Contained
  <2> QED BY <2>1, <2>2, <2>3
<1>9. CASE UNCHANGED diagVars
  BY <1>9 DEF diagVars, Contained, LogDisk
<1> QED BY <1>3, <1>4, <1>5, <1>6, <1>7, <1>8, <1>9 DEF DiagNext

\* DamageIsContained: each half line that a failed append or a process that died left
\* in the log costs one later line at most (append_entry ends its line).
THEOREM DamageStaysContained == DiagSpec => []DamageIsContained
<1>1. DiagInit => DiagInv /\ Contained
  <2> SUFFICES ASSUME DiagInit PROVE Contained
    BY DiagInvInit
  <2>1. Cardinality(LogDisk.torn) = 0 /\ LogDisk.ruined = 0 /\ tears = 0
    BY FS_EmptySet DEF DiagInit, LogDisk
  <2> QED BY <2>1 DEF Contained, Damage
<1>2. Contained => DamageIsContained
  BY DEF Contained, DamageIsContained, Damage, LogDisk
<1> QED BY <1>1, <1>2, DiagInvStep, ContainedStep, PTL DEF DiagSpec

\* As many things as there are numbers for them.
LEMMA AsManyThings ==
  ASSUME NEW n \in Nat, NEW g, NEW T, \A t : t \in T <=> \E i \in 1 .. n : t = g[i],
         \A i, j \in 1 .. n : g[i] = g[j] => i = j
  PROVE  IsFiniteSet(T) /\ Cardinality(T) = n
<1> DEFINE f == [i \in 1 .. n |-> g[i]]
<1>1. IsFiniteSet(1 .. n) /\ Cardinality(1 .. n) = n
  <2>1. IsFiniteSet(1 .. n) /\ Cardinality(1 .. n) = IF 1 > n THEN 0 ELSE n - 1 + 1
    BY FS_Interval
  <2> QED BY <2>1
<1>2. f \in [1 .. n -> T] /\ (\A t \in T : \E i \in 1 .. n : f[i] = t)
      /\ \A i, j \in 1 .. n : f[i] = f[j] => i = j
  OBVIOUS
<1> HIDE DEF f
<1>3. f \in Surjection(1 .. n, T) /\ f \in Injection(1 .. n, T)
  BY <1>2 DEF Surjection, Injection, IsInjective
<1>4. /\ IsFiniteSet(T)
      /\ Cardinality(T) = Cardinality(1 .. n) <=> f \in Injection(1 .. n, T)
  BY <1>1, <1>3, FS_Surjection
<1> QED BY <1>1, <1>3, <1>4

\* No entry is twice in a list.
Apart(s) == \A i, j \in DOMAIN s : s[i].number = s[j].number => i = j

\* What push_memory keeps is in the list it keeps it of.
LEMMA NewestIsApart ==
  ASSUME NEW s \in Seq(LogEntry), Apart(s)
  PROVE  /\ Apart(Newest(s))
         /\ \A k \in DOMAIN Newest(s) : \E i \in DOMAIN s : Newest(s)[k] = s[i]
<1> DEFINE m == Newest(s)
           z == Len(s) - Len(m)
<1>1. /\ m \in Seq(LogEntry) /\ z \in Nat
      /\ \A k \in 1 .. Len(m) : k + z \in 1 .. Len(s) /\ m[k] = s[k + z]
  BY NewestFacts
<1> HIDE DEF m, z
<1>2. DOMAIN m = 1 .. Len(m) /\ DOMAIN s = 1 .. Len(s) /\ Len(m) \in Nat
  BY <1>1
<1>3. \A k \in DOMAIN m : k + z \in DOMAIN s /\ m[k] = s[k + z] /\ k \in Nat
  BY <1>1, <1>2
<1>4. Apart(m)
  <2> SUFFICES ASSUME NEW i \in DOMAIN m, NEW j \in DOMAIN m, m[i].number = m[j].number PROVE i = j
    BY DEF Apart
  <2>1. i + z = j + z
    BY <1>3 DEF Apart
  <2> QED BY <1>1, <1>3, <2>1
<1>5. \A k \in DOMAIN m : \E i \in DOMAIN s : m[k] = s[i]
  BY <1>3
<1> QED BY <1>4, <1>5 DEF m

\* The lines of the files, file after file, are lines of the files, and none is twice there.
LEMMA LinesAreApart ==
  ASSUME NEW f \in LogFiles, Neat(f)
  PROVE  /\ Lines(f) \in Seq(LogEntry) /\ Apart(Lines(f))
         /\ \A k \in DOMAIN Lines(f) : \E d \in LogDay : \E i \in DOMAIN f[d] : Lines(f)[k] = f[d][i]
<1> DEFINE n == LastDay
<1>1. n \in Nat /\ LogDay = 1 .. n /\ f \in Seq(Seq(LogEntry)) /\ Len(f) = n
  BY DiagnosticsAssumption DEF LogDay, LogFiles
<1>2. Lines(f) \in Seq(LogEntry)
  BY <1>1, FlattenIsTyped DEF Lines
<1>3. CASE f = <<>>
  <2>1. Lines(f) = <<>>
    BY <1>3 DEF Lines, FlattenSeq
  <2>2. DOMAIN Lines(f) = {}
    BY <2>1
  <2> QED BY <1>2, <2>2 DEF Apart
<1>4. CASE f # <<>>
  <2>1. PICK w \in [1 .. n -> Seq(LogEntry)] : FlattenRun(w, f)
    <3>1. \E w \in [1 .. Len(f) -> Seq(LogEntry)] : FlattenRun(w, f)
      BY <1>1, <1>4, FlattenRuns
    <3> QED BY <1>1, <3>1
  <2>2. /\ w[1] = f[1] /\ Lines(f) = w[n] /\ n \in 1 .. n /\ 1 \in LogDay
        /\ \A i \in 2 .. n : w[i] = w[i - 1] \o f[i]
    <3>1. n # 0
      BY <1>1, <1>4
    <3>2. /\ w[1] = f[1] /\ FlattenSeq(f) = w[Len(f)]
          /\ \A i \in 2 .. Len(f) : w[i] = w[i - 1] \o f[i]
      BY <2>1 DEF FlattenRun
    <3>3. Lines(f) = w[n] /\ \A i \in 2 .. n : w[i] = w[i - 1] \o f[i]
      BY <1>1, <3>2 DEF Lines
    <3>4. n \in 1 .. n /\ 1 \in LogDay
      BY <1>1, <3>1
    <3> QED BY <3>2, <3>3, <3>4
  <2> DEFINE Among(m) == \A k \in DOMAIN w[m] : \E d \in 1 .. m : \E i \in DOMAIN f[d] : w[m][k] = f[d][i]
             T == {m \in Nat : m + 1 \in 1 .. n => Apart(w[m + 1]) /\ Among(m + 1)}
  <2>3. 0 \in T
    <3>1. Apart(w[1])
      BY <2>2 DEF Neat, Apart
    <3>2. Among(1)
      <4>1. 1 \in 1 .. 1
        OBVIOUS
      <4> QED BY <2>2, <4>1
    <3> HIDE DEF Among
    <3>3. 0 + 1 = 1
      OBVIOUS
    <3> QED BY <3>1, <3>2, <3>3
  <2>4. ASSUME NEW m \in T PROVE m + 1 \in T
    <3> SUFFICES ASSUME m + 1 + 1 \in 1 .. n PROVE Apart(w[m + 1 + 1]) /\ Among(m + 1 + 1)
      OBVIOUS
    <3> DEFINE b == m + 1
               c == m + 2
               s == w[b]
               t == f[c]
    <3>1. /\ m \in Nat /\ b \in 1 .. n /\ c \in 2 .. n /\ c \in LogDay /\ c - 1 = b /\ m + 1 + 1 = c
          /\ \A d \in 1 .. b : d \in LogDay /\ d # c /\ d \in 1 .. c
      BY <1>1
    <3>2. Apart(s) /\ Among(b)
      BY <2>4, <3>1
    <3>3. /\ s \in Seq(LogEntry) /\ t \in Seq(LogEntry) /\ w[c] = s \o t
      <4>1. w[b] \in Seq(LogEntry) /\ f[c] \in Seq(LogEntry)
        BY <2>1, <3>1 DEF LogFiles
      <4>2. w[c] = w[c - 1] \o f[c]
        <5> HIDE DEF c
        <5> QED BY <2>2, <3>1
      <4>3. w[c] = w[b] \o f[c]
        <5> HIDE DEF c, b
        <5> QED BY <4>2, <3>1
      <4> QED BY <4>1, <4>3
    <3> HIDE DEF s, t, c
    <3>4. /\ Len(s) \in Nat /\ Len(t) \in Nat /\ DOMAIN s = 1 .. Len(s) /\ DOMAIN t = 1 .. Len(t)
          /\ DOMAIN w[c] = 1 .. Len(s) + Len(t)
      BY <3>3
    <3>5. ASSUME NEW k \in DOMAIN w[c]
          PROVE  \/ k \in DOMAIN s /\ w[c][k] = s[k]
                 \/ k - Len(s) \in DOMAIN t /\ w[c][k] = t[k - Len(s)]
      <4>1. CASE k <= Len(s)
        BY <3>3, <3>4, <4>1
      <4>2. CASE ~(k <= Len(s))
        BY <3>3, <3>4, <4>2
      <4> QED BY <4>1, <4>2
    <3>6. ASSUME NEW i \in DOMAIN s, NEW j \in DOMAIN t PROVE s[i].number # t[j].number
      <4>1. PICK d \in 1 .. b : \E h \in DOMAIN f[d] : s[i] = f[d][h]
        BY <3>2 DEF s
      <4>2. PICK h \in DOMAIN f[d] : s[i] = f[d][h]
        BY <4>1
      <4> QED BY <3>1, <4>2 DEF Neat, t
    <3>7. ASSUME NEW i \in DOMAIN t, NEW j \in DOMAIN t, t[i].number = t[j].number PROVE i = j
      BY <3>1, <3>7 DEF Neat, t
    <3>8. Apart(w[c])
      <4> SUFFICES ASSUME NEW i \in DOMAIN w[c], NEW j \in DOMAIN w[c], w[c][i].number = w[c][j].number
                   PROVE  i = j
        BY DEF Apart
      <4>1. CASE i \in DOMAIN s /\ w[c][i] = s[i] /\ j \in DOMAIN s /\ w[c][j] = s[j]
        BY <3>2, <4>1 DEF Apart
      <4>2. CASE i - Len(s) \in DOMAIN t /\ w[c][i] = t[i - Len(s)]
                 /\ j - Len(s) \in DOMAIN t /\ w[c][j] = t[j - Len(s)]
        <5>1. i - Len(s) = j - Len(s)
          BY <3>7, <4>2
        <5> QED BY <3>4, <5>1
      <4>3. CASE \/ i \in DOMAIN s /\ w[c][i] = s[i] /\ j - Len(s) \in DOMAIN t /\ w[c][j] = t[j - Len(s)]
                 \/ j \in DOMAIN s /\ w[c][j] = s[j] /\ i - Len(s) \in DOMAIN t /\ w[c][i] = t[i - Len(s)]
        BY <3>6, <4>3
      <4> QED BY <3>5, <4>1, <4>2, <4>3
    <3>9. Among(c)
      <4> SUFFICES ASSUME NEW k \in DOMAIN w[c]
                   PROVE  \E d \in 1 .. c : \E i \in DOMAIN f[d] : w[c][k] = f[d][i]
        OBVIOUS
      <4>1. CASE k \in DOMAIN s /\ w[c][k] = s[k]
        <5>1. PICK d \in 1 .. b : \E h \in DOMAIN f[d] : s[k] = f[d][h]
          BY <3>2, <4>1 DEF s
        <5> QED BY <3>1, <4>1, <5>1
      <4>2. CASE k - Len(s) \in DOMAIN t /\ w[c][k] = t[k - Len(s)]
        <5>1. c \in 1 .. c
          BY <3>1
        <5> QED BY <4>2, <5>1 DEF t
      <4> QED BY <3>5, <4>1, <4>2
    <3> HIDE DEF Among
    <3> QED BY <3>1, <3>8, <3>9
  <2>5. T = Nat
    <3>1. T \in SUBSET Nat
      OBVIOUS
    <3> HIDE DEF T
    <3> QED BY <2>3, <2>4, <3>1, AllNumbers
  <2>6. Apart(w[n]) /\ Among(n)
    <3>1. n - 1 \in Nat /\ (n - 1) + 1 = n
      BY <1>1, <2>2
    <3>2. n - 1 \in T
      <4> HIDE DEF T
      <4> QED BY <2>5, <3>1
    <3> HIDE DEF Among
    <3> QED BY <2>2, <3>1, <3>2
  <2> QED BY <1>1, <1>2, <2>2, <2>6
<1> QED BY <1>3, <1>4

\* What the files hold is as much as there are lines in them.
LEMMA FilesAreCounted ==
  ASSUME NEW f \in LogFiles, Neat(f)
  PROVE  Cardinality(UNION {ToSet(f[d]) : d \in LogDay}) = BytesFrom(f, 1)
<1> DEFINE N == LastDay
           From(d) == UNION {ToSet(f[c]) : c \in d .. N}
           T == {i \in Nat : /\ IsFiniteSet(From(N + 1 - i))
                             /\ Cardinality(From(N + 1 - i)) = BytesFrom(f, N + 1 - i)}
<1>1. N \in Nat /\ LogDay = 1 .. N
  BY DiagnosticsAssumption DEF LogDay
<1>2. /\ BytesFrom(f, N + 1) = 0
      /\ \A d \in LogDay : BytesFrom(f, d) = Len(f[d]) + BytesFrom(f, d + 1)
  BY BytesRun
<1>3. 0 \in T
  <2>1. From(N + 1) = {}
    BY <1>1
  <2>2. N + 1 - 0 = N + 1
    BY <1>1
  <2> HIDE DEF From
  <2>3. IsFiniteSet(From(N + 1)) /\ Cardinality(From(N + 1)) = 0
    BY <2>1, FS_EmptySet
  <2> QED BY <1>2, <2>2, <2>3
<1>4. ASSUME NEW i \in 1 .. N, i - 1 \in T PROVE i \in T
  <2> DEFINE d == N + 1 - i
             lines == {f[d][k] : k \in 1 .. Len(f[d])}
             later == From(d + 1)
  <2>1. i \in Nat /\ d \in LogDay /\ d + 1 = N + 1 - (i - 1)
    BY <1>1
  <2>2. IsFiniteSet(later) /\ Cardinality(later) = BytesFrom(f, d + 1)
    BY <1>4, <2>1
  <2> HIDE DEF d
  <2>3. f[d] \in Seq(LogEntry) /\ Len(f[d]) \in Nat /\ DOMAIN f[d] = 1 .. Len(f[d])
    BY <2>1 DEF LogFiles
  <2>4. \A k, h \in 1 .. Len(f[d]) : f[d][k] = f[d][h] => k = h
    BY <2>1, <2>3 DEF Neat
  <2>5. IsFiniteSet(lines) /\ Cardinality(lines) = Len(f[d])
    <3>1. \A t : t \in lines <=> \E k \in 1 .. Len(f[d]) : t = f[d][k]
      OBVIOUS
    <3> HIDE DEF lines
    <3> QED BY <2>3, <2>4, <3>1, AsManyThings
  <2>6. lines \cap later = {}
    <3> SUFFICES ASSUME NEW e \in lines, e \in later PROVE FALSE
      OBVIOUS
    <3>1. PICK k \in DOMAIN f[d] : e = f[d][k]
      BY <2>3
    <3>2. PICK c \in d + 1 .. N : e \in ToSet(f[c])
      OBVIOUS
    <3>3. PICK h \in DOMAIN f[c] : e = f[c][h]
      BY <3>2 DEF ToSet
    <3>4. c \in LogDay /\ c # d
      BY <1>1, <2>1
    <3> QED BY <2>1, <3>1, <3>3, <3>4 DEF Neat
  <2>7. From(d) = lines \cup later
    <3>1. ToSet(f[d]) = lines
      BY <2>3 DEF ToSet
    <3>2. \A c : c \in d .. N <=> c = d \/ c \in d + 1 .. N
      BY <1>1, <2>1
    <3>3. From(d) = ToSet(f[d]) \cup later
      <4> HIDE DEF lines
      <4> QED BY <3>2
    <3> QED BY <3>1, <3>3
  <2> HIDE DEF From, lines, later
  <2>8. IsFiniteSet(lines \cup later)
        /\ Cardinality(lines \cup later) = Cardinality(lines) + Cardinality(later) - Cardinality(lines \cap later)
    BY <2>2, <2>5, FS_Union
  <2>9. Cardinality({}) = 0
    BY FS_EmptySet
  <2>10. BytesFrom(f, d + 1) \in Nat
    <3>1. Cardinality(later) \in Nat
      BY <2>2, FS_CardinalityType
    <3> QED BY <2>2, <3>1
  <2>11. IsFiniteSet(From(d)) /\ Cardinality(From(d)) = BytesFrom(f, d)
    <3>1. Cardinality(lines \cap later) = 0
      BY <2>6, <2>9
    <3>2. Cardinality(lines \cup later) = Len(f[d]) + BytesFrom(f, d + 1)
      BY <2>2, <2>3, <2>5, <2>8, <2>10, <3>1
    <3>3. BytesFrom(f, d) = Len(f[d]) + BytesFrom(f, d + 1)
      BY <1>2, <2>1
    <3> QED BY <2>7, <2>8, <3>2, <3>3
  <2> QED BY <2>1, <2>11 DEF d
<1>5. N \in T
  <2>1. N \in 0 .. N
    BY <1>1
  <2> HIDE DEF T
  <2> QED BY <1>1, <1>3, <1>4, <2>1, NumbersUpTo
<1>6. N + 1 - N = 1
  BY <1>1
<1>7. From(1) = UNION {ToSet(f[d]) : d \in LogDay}
  BY <1>1
<1> HIDE DEF From
<1>8. Cardinality(From(1)) = BytesFrom(f, 1)
  BY <1>5, <1>6
<1> QED BY <1>7, <1>8

Within(entries, n) == \A i \in DOMAIN entries : entries[i].number <= n

\* What memory shows and what was loaded are each apart and recorded by now; while
\* entries wait, those that were loaded are older.
DiagTyped ==
    /\ Apart(memory) /\ Within(memory, records)
    /\ Apart(loaded.entries) /\ Within(loaded.entries, records)
    /\ ~logDir => \A i \in DOMAIN loaded.entries, j \in DOMAIN memory :
                     loaded.entries[i].number < memory[j].number

\* No entries have been loaded of a log that was not read.
LEMMA NothingLoaded == Apart(<<>>) /\ (\A n : Within(<<>>, n)) /\ NotLoaded.entries = <<>> /\ DOMAIN <<>> = {}
BY DEF Apart, Within, NotLoaded

\* An entry is recorded.
LEMMA RecordingStaysTyped ==
  ASSUME DiagInv, DiagTyped, NEW day \in LogDay, RecordEntry(day)
  PROVE  DiagTyped'
<1> DEFINE e == [number |-> records + 1, day |-> day]
           s == Append(memory, e)
<1>1. /\ records \in Nat /\ records' = records + 1 /\ memory \in Seq(LogEntry)
      /\ memory' = Newest(s) /\ loaded' = loaded /\ logDir' = logDir
      /\ loaded.entries \in Seq(LogEntry)
  BY DEF DiagInv, RecordEntry, Memory
<1>2. e \in LogEntry /\ e.number = records + 1
  BY <1>1 DEF LogEntry
<1> HIDE DEF e
<1>3. /\ s \in Seq(LogEntry) /\ Len(s) = Len(memory) + 1 /\ Len(memory) \in Nat
      /\ DOMAIN s = 1 .. Len(memory) + 1 /\ s[Len(memory) + 1] = e
      /\ \A k \in 1 .. Len(memory) : s[k] = memory[k]
      /\ DOMAIN memory = 1 .. Len(memory)
  BY <1>1, <1>2
<1> HIDE DEF s
<1>4. \A k \in DOMAIN memory : memory[k].number \in Nat /\ memory[k].number <= records
  <2>1. \A k \in DOMAIN memory : memory[k] \in LogEntry
    BY <1>1
  <2> QED BY <2>1 DEF LogEntry, DiagTyped, Within
<1>5. \A i \in DOMAIN loaded.entries : loaded.entries[i].number \in Nat /\ loaded.entries[i].number <= records
  <2>1. \A k \in DOMAIN loaded.entries : loaded.entries[k] \in LogEntry
    BY <1>1
  <2> QED BY <2>1 DEF LogEntry, DiagTyped, Within
<1>6. \A k \in DOMAIN s : \/ k = Len(memory) + 1 /\ s[k].number = records + 1
                          \/ k \in DOMAIN memory /\ s[k] = memory[k]
  BY <1>2, <1>3
<1>7. Apart(s)
  BY <1>1, <1>4, <1>6 DEF Apart, DiagTyped
<1>8. Apart(memory') /\ \A k \in DOMAIN memory' : \E i \in DOMAIN s : memory'[k] = s[i]
  BY <1>1, <1>3, <1>7, NewestIsApart
<1>9. Within(memory', records')
  <2>1. \A i \in DOMAIN s : s[i].number <= records + 1
    BY <1>1, <1>4, <1>6
  <2> QED BY <1>1, <1>8, <2>1 DEF Within
<1>10. Apart(loaded'.entries) /\ Within(loaded'.entries, records')
  BY <1>1, <1>5 DEF DiagTyped, Within
<1>11. ASSUME ~logDir', NEW i \in DOMAIN loaded'.entries, NEW j \in DOMAIN memory'
       PROVE  loaded'.entries[i].number < memory'[j].number
  <2>1. PICK k \in DOMAIN s : memory'[j] = s[k]
    BY <1>8
  <2>2. i \in DOMAIN loaded.entries /\ loaded'.entries[i] = loaded.entries[i]
    BY <1>1
  <2>3. loaded.entries[i].number < s[k].number
    BY <1>1, <1>5, <1>6, <1>11, <2>2 DEF DiagTyped
  <2> QED BY <2>1, <2>2, <2>3
<1> QED BY <1>8, <1>9, <1>10, <1>11 DEF DiagTyped

\* The lines are read.
LEMMA LoadingStaysTyped ==
  ASSUME DiagInv, DiagTyped, DiagInv', NEW day \in LogDay, LoadHistory(day)
  PROVE  DiagTyped'
<1> DEFINE s == Lines(files')
<1>1. /\ UNCHANGED <<memory, logDir, records>> /\ ~logDir
      /\ loaded'.entries = Newest(s) /\ records \in Nat
  BY DEF LoadHistory, DiagInv
<1>2. /\ files' \in LogFiles /\ Neat(files') /\ Under(files', records + 1)
      /\ \A j \in DOMAIN memory : Under(files', memory[j].number)
  BY <1>1 DEF DiagInv, SoundLog, LogDisk
<1>3. /\ s \in Seq(LogEntry) /\ Apart(s)
      /\ \A k \in DOMAIN s : \E d \in LogDay : \E i \in DOMAIN files'[d] : s[k] = files'[d][i]
  BY <1>2, LinesAreApart
<1> HIDE DEF s
<1>4. ASSUME NEW n, Under(files', n) PROVE \A k \in DOMAIN s : s[k].number < n
  BY <1>3, <1>4 DEF Under
<1>5. /\ Apart(loaded'.entries)
      /\ \A k \in DOMAIN loaded'.entries : \E i \in DOMAIN s : loaded'.entries[k] = s[i]
  BY <1>1, <1>3, NewestIsApart
<1>6. Within(loaded'.entries, records)
  <2>1. \A k \in DOMAIN s : s[k].number < records + 1 /\ s[k].number \in Nat
    <3>1. \A k \in DOMAIN s : s[k] \in LogEntry
      BY <1>3
    <3> QED BY <1>2, <1>4, <3>1 DEF LogEntry
  <2> QED BY <1>1, <1>5, <2>1 DEF Within
<1>7. \A i \in DOMAIN loaded'.entries, j \in DOMAIN memory : loaded'.entries[i].number < memory[j].number
  BY <1>2, <1>4, <1>5
<1> QED BY <1>1, <1>5, <1>6, <1>7 DEF DiagTyped

\* configure takes over.
LEMMA TakingOverStaysTyped ==
  ASSUME DiagInv, DiagTyped, TakeOver
  PROVE  DiagTyped'
<1> DEFINE l == loaded.entries
           s == l \o memory
<1>1. /\ records' = records /\ logDir' = TRUE /\ ~logDir /\ loaded' = NotLoaded
      /\ l \in Seq(LogEntry) /\ memory \in Seq(LogEntry) /\ memory' = Newest(s)
  BY DEF DiagInv, TakeOver, Waiting
<1>2. /\ Apart(l) /\ Apart(memory) /\ Within(l, records) /\ Within(memory, records)
      /\ \A i \in DOMAIN l, j \in DOMAIN memory : l[i].number < memory[j].number
  BY <1>1 DEF DiagTyped
<1> HIDE DEF l
<1>3. Len(l) \in Nat /\ Len(memory) \in Nat /\ DOMAIN l = 1 .. Len(l) /\ DOMAIN memory = 1 .. Len(memory)
  BY <1>1
<1>4. s \in Seq(LogEntry) /\ DOMAIN s = 1 .. Len(l) + Len(memory)
  BY <1>1, <1>3
<1>5. \A k \in DOMAIN s : \/ k \in DOMAIN l /\ s[k] = l[k]
                          \/ k - Len(l) \in DOMAIN memory /\ s[k] = memory[k - Len(l)] /\ k \in Nat
  BY <1>1, <1>3, <1>4
<1> HIDE DEF s
<1>6. (\A k \in DOMAIN l : l[k].number \in Nat) /\ (\A k \in DOMAIN memory : memory[k].number \in Nat)
  <2>1. (\A k \in DOMAIN l : l[k] \in LogEntry) /\ (\A k \in DOMAIN memory : memory[k] \in LogEntry)
    BY <1>1
  <2> QED BY <2>1 DEF LogEntry
<1>7. Apart(s)
  <2> SUFFICES ASSUME NEW i \in DOMAIN s, NEW j \in DOMAIN s, s[i].number = s[j].number PROVE i = j
    BY DEF Apart
  <2>1. CASE i \in DOMAIN l /\ s[i] = l[i] /\ j \in DOMAIN l /\ s[j] = l[j]
    BY <1>2, <2>1 DEF Apart
  <2>2. CASE /\ i - Len(l) \in DOMAIN memory /\ s[i] = memory[i - Len(l)] /\ i \in Nat
             /\ j - Len(l) \in DOMAIN memory /\ s[j] = memory[j - Len(l)] /\ j \in Nat
    <3>1. i - Len(l) = j - Len(l)
      BY <1>2, <2>2 DEF Apart
    <3> QED BY <1>3, <2>2, <3>1
  <2>3. CASE i \in DOMAIN l /\ s[i] = l[i] /\ j - Len(l) \in DOMAIN memory /\ s[j] = memory[j - Len(l)]
    <3>1. l[i].number < memory[j - Len(l)].number
      BY <1>2, <2>3
    <3> QED BY <1>6, <2>3, <3>1
  <2>4. CASE j \in DOMAIN l /\ s[j] = l[j] /\ i - Len(l) \in DOMAIN memory /\ s[i] = memory[i - Len(l)]
    <3>1. l[j].number < memory[i - Len(l)].number
      BY <1>2, <2>4
    <3> QED BY <1>6, <2>4, <3>1
  <2> QED BY <1>5, <2>1, <2>2, <2>3, <2>4
<1>8. Apart(memory') /\ \A k \in DOMAIN memory' : \E i \in DOMAIN s : memory'[k] = s[i]
  BY <1>1, <1>4, <1>7, NewestIsApart
<1>9. Within(memory', records)
  <2>1. \A k \in DOMAIN s : s[k].number <= records
    BY <1>2, <1>5 DEF Within
  <2> QED BY <1>8, <2>1 DEF Within
<1> QED BY <1>1, <1>8, <1>9, NothingLoaded DEF DiagTyped

\* Every step keeps it.
LEMMA DiagTypedStep == DiagInv /\ DiagTyped /\ [DiagNext]_diagVars => DiagTyped'
<1> SUFFICES ASSUME DiagInv, DiagTyped, [DiagNext]_diagVars PROVE DiagTyped'
  OBVIOUS
<1>1. DiagInv'
  BY DiagInvStep
<1>2. ASSUME NEW d \in LogDay, RecordEntry(d) PROVE DiagTyped'
  BY <1>2, RecordingStaysTyped
<1>3. ASSUME NEW d \in LogDay, LoadHistory(d) PROVE DiagTyped'
  BY <1>1, <1>3, LoadingStaysTyped
<1>4. CASE ClearLogs
  BY <1>4, NothingLoaded DEF ClearLogs, Memory, DiagTyped
<1>5. CASE TakeOver
  BY <1>5, TakingOverStaysTyped
<1>6. CASE Gone
  BY <1>6, NothingLoaded DEF Gone, DiagTyped
<1>7. CASE UNCHANGED diagVars
  BY <1>7 DEF diagVars, DiagTyped
<1> QED BY <1>2, <1>3, <1>4, <1>5, <1>6, <1>7 DEF DiagNext, HistoryUnreadable, TakeOverFails, LogDies

\* As many numbers as entries.
LEMMA NumbersAreCounted ==
  ASSUME NEW s \in Seq(LogEntry), \A i, j \in DOMAIN s : s[i].number = s[j].number => i = j
  PROVE  Cardinality(Numbers(s)) = Len(s)
<1> DEFINE n == Len(s)
           g == [i \in 1 .. n |-> s[i].number]
<1>1. n \in Nat /\ DOMAIN s = 1 .. n
  OBVIOUS
<1>2. \A k \in 1 .. n : g[k] = s[k].number
  OBVIOUS
<1>3. \A k, h \in 1 .. n : g[k] = g[h] => k = h
  BY <1>1
<1>4. \A t : t \in Numbers(s) <=> \E k \in 1 .. n : t = g[k]
  <2>1. \A t : t \in Numbers(s) <=> \E k \in 1 .. n : t = s[k].number
    BY <1>1 DEF Numbers
  <2> HIDE DEF g
  <2> QED BY <1>2, <2>1
<1> HIDE DEF n, g
<1>5. Cardinality(Numbers(s)) = n
  BY <1>1, <1>3, <1>4, AsManyThings
<1> QED BY <1>5 DEF n

\* What is counted in memory and on disk is what is there.
LEMMA TypedLogIsTyped == DiagInv /\ DiagTyped => DiagTypeOK
<1> SUFFICES ASSUME DiagInv, DiagTyped PROVE DiagTypeOK
  OBVIOUS
<1>1. /\ logDir \in BOOLEAN /\ torn \subseteq LogDay /\ broken \subseteq LogDay
      /\ memory \in Seq(LogEntry) /\ Len(memory) <= MaxEntries
      /\ files \in LogFiles /\ Neat(files)
  BY DEF DiagInv, SoundLog, Holes, LogDisk
<1>2. Cardinality(Numbers(memory)) = Len(memory)
  <2>1. \A i, j \in DOMAIN memory : memory[i].number = memory[j].number => i = j
    BY DEF DiagTyped, Apart
  <2> QED BY <1>1, <2>1, NumbersAreCounted
<1>3. Cardinality(OnDisk) = BytesFrom(files, 1)
  BY <1>1, FilesAreCounted DEF OnDisk
<1>4. \A d \in LogDay : \A i \in DOMAIN files[d] : files[d][i].day = d
  BY <1>1 DEF Neat
<1> QED BY <1>1, <1>2, <1>3, <1>4 DEF DiagTypeOK

\* The log is typed: memory holds as many entries as MAX_LOG_ENTRIES allows, and
\* no entry is twice in memory or on disk, whatever processes died on the way.
LEMMA LogsStayTyped == DiagSpec => []DiagTypeOK
<1>1. DiagInit => DiagInv /\ DiagTyped
  <2>1. DiagInit => DiagTyped
    BY NothingLoaded DEF DiagInit, DiagTyped
  <2> QED BY <2>1, DiagInvInit
<1> QED BY <1>1, DiagInvStep, DiagTypedStep, TypedLogIsTyped, PTL DEF DiagSpec

\* A ride has one record of a tool at most, in the registry and in every list of
\* records a task has yet to save.
Single(R) == \A r, s \in R : r.tool = s.tool /\ r.access = s.access => r = s
Lone == {d \in Deed : d.do = "save" => Single(d.list)}
Unsaving == {d \in Deed : d.do # "save"}

\* The record of a launch is saved before a client starts; a recovery saves nothing
\* before it is through, and keeps records of the registry only.
LaunchIsRecorded ==
    /\ task.pc = "spawn" =>
          IF task.todo = <<>> THEN NewRecord \in task.list
          ELSE LET d == task.todo[Len(task.todo)] IN d.do = "save" /\ NewRecord \in d.list
    /\ task.pc = "wait" => task.todo = <<>> /\ NewRecord \in task.list
RecoveryWaits ==
    task.pc = "recover" =>
       /\ task.todo \in Seq(Unsaving)
       /\ task.list \subseteq registry /\ task.left \subseteq registry /\ task.about \subseteq registry

ConfigTyped ==
    /\ Single(registry) /\ Single(task.list) /\ task.todo \in Seq(Lone)
    /\ LaunchIsRecorded /\ RecoveryWaits
    /\ profiles \subseteq Tool \X CarAccess
    /\ regfile \in {"fine", "damaged", "newer"}
    /\ faults \in 0 .. MaxFaults

\* Operations that save nothing are such operations.
LEMMA UnsavingIsLone ==
  /\ Unsaving \subseteq Lone
  /\ \A todo \in Seq(Unsaving) : todo \in Seq(Lone)
  /\ <<>> \in Seq(Unsaving) /\ <<>> \in Seq(Lone)
<1>1. Unsaving \subseteq Lone
  BY DEF Unsaving, Lone
<1> HIDE DEF Unsaving, Lone
<1> QED BY <1>1

\* Putting a record's files back saves nothing,
LEMMA CleanupSavesNothing ==
  ASSUME NEW r \in Instance
  PROVE  Cleanup(r) \in Seq(Unsaving)
<1> DEFINE back == [do |-> "restore", tool |-> r.tool]
           off == [do |-> "unmark", tool |-> r.tool]
           gone == [do |-> "rmprofile", tool |-> r.tool, access |-> r.access]
<1>1. back \in Unsaving /\ off \in Unsaving /\ gone \in Unsaving
  BY DEF Instance, Deed, Unsaving
<1>2. Cleanup(r) = IF r.tool \in Store THEN <<back, off>> ELSE <<gone>>
  BY DEF Cleanup
<1> HIDE DEF back, off, gone
<1> QED BY <1>1, <1>2

\* nor does putting back those of several,
LEMMA CleanupAllSavesNothing ==
  ASSUME NEW R \in SUBSET Instance
  PROVE  CleanupAll(R) \in Seq(Unsaving)
<1> DEFINE s == SetToSeq(R)
           lists == [i \in DOMAIN s |-> Cleanup(s[i])]
<1>1. s \in Seq(R)
  BY InstancesAreFinite, SetToSeqIsTyped
<1> HIDE DEF s
<1>2. \A i \in DOMAIN s : Cleanup(s[i]) \in Seq(Unsaving)
  <2>1. \A i \in DOMAIN s : s[i] \in Instance
    BY <1>1
  <2> QED BY <2>1, CleanupSavesNothing
<1>3. DOMAIN s = 1 .. Len(s) /\ Len(s) \in Nat
  BY <1>1
<1>4. lists \in Seq(Seq(Unsaving))
  <2>1. lists \in [1 .. Len(s) -> Seq(Unsaving)]
    BY <1>2, <1>3
  <2> HIDE DEF lists
  <2> QED BY <2>1, <1>3
<1> HIDE DEF lists
<1>5. FlattenSeq(lists) \in Seq(Unsaving)
  BY <1>4, FlattenIsTyped
<1> QED BY <1>5 DEF CleanupAll, lists, s

\* nor undoing the routes of older versions.
LEMMA MigrationSavesNothing ==
  ASSUME ClientShapes
  PROVE  Migration \in Seq(Unsaving)
<1> DEFINE s == SetToSeq(Tool)
           back(t) == [do |-> "restore", tool |-> t]
           gone(t) == [do |-> "rmprofile", tool |-> t, access |-> marker[t]]
           off(t) == [do |-> "unmark", tool |-> t]
           piece(t) == <<back(t)>> \o (IF t \notin Store /\ marker[t] # "none" THEN <<gone(t)>> ELSE <<>>) \o <<off(t)>>
           lists == [i \in DOMAIN s |-> piece(s[i])]
<1>1. s \in Seq(Tool)
  BY ClientAssumption, SetToSeqIsTyped
<1>2. Migration = FlattenSeq(lists)
  BY DEF Migration
<1> HIDE DEF s
<1>3. ASSUME NEW t \in Tool PROVE piece(t) \in Seq(Unsaving)
  <2>1. marker[t] # "none" => marker[t] \in CarAccess
    BY DEF ClientShapes
  <2>2. back(t) \in Unsaving /\ off(t) \in Unsaving /\ (marker[t] # "none" => gone(t) \in Unsaving)
    BY <2>1 DEF Deed, Unsaving
  <2> HIDE DEF back, off, gone
  <2>3. <<back(t)>> \in Seq(Unsaving) /\ <<off(t)>> \in Seq(Unsaving)
        /\ (IF t \notin Store /\ marker[t] # "none" THEN <<gone(t)>> ELSE <<>>) \in Seq(Unsaving)
    BY <2>2
  <2> QED BY <2>3
<1> HIDE DEF piece
<1>4. DOMAIN s = 1 .. Len(s) /\ Len(s) \in Nat /\ \A i \in DOMAIN s : s[i] \in Tool
  BY <1>1
<1>5. lists \in Seq(Seq(Unsaving))
  <2>1. lists \in [1 .. Len(s) -> Seq(Unsaving)]
    BY <1>3, <1>4
  <2> HIDE DEF lists
  <2> QED BY <2>1, <1>4
<1> HIDE DEF lists
<1> QED BY <1>2, <1>5, FlattenIsTyped

\* Saving records of which a ride has one of a tool.
LEMMA SavingIsLone ==
  ASSUME NEW R \in SUBSET Instance, Single(R)
  PROVE  Saving(R) \in Seq(Lone)
<1> DEFINE d == [do |-> "save", list |-> R]
<1>1. d \in Lone
  BY DEF Lone, Deed
<1>2. Saving(R) = <<d>>
  BY DEF Saving
<1> HIDE DEF d
<1> QED BY <1>1, <1>2

\* Fewer records.
LEMMA FewerIsSingle ==
  ASSUME NEW R, NEW S, S \subseteq R, Single(R) PROVE Single(S)
BY DEF Single

\* A task that neither starts a client nor recovers.
LEMMA PlainTaskIsTyped ==
  ASSUME ConfigTyped, UNCHANGED <<registry, profiles>>, regfile' \in {regfile, "fine"}, faults' \in 0 .. MaxFaults,
         Single(task'.list), task'.todo \in Seq(Lone), task'.pc \notin {"spawn", "wait", "recover"}
  PROVE  ConfigTyped'
BY DEF ConfigTyped, LaunchIsRecorded, RecoveryWaits

\* The lock is free.
LEMMA RestIsSingle == Single(NoTask.list) /\ NoTask.todo \in Seq(Lone) /\ NoTask.pc = "rest"
BY UnsavingIsLone DEF NoTask, Single

\* A task begins.
LEMMA BeginningIsTyped ==
  ASSUME ClientInv, ConfigTyped,
         \/ \E t \in Tool, a \in CarAccess : BeginLaunch(t, a)
         \/ \E a \in CarAccess : BeginRemove({r \in registry : r.access = a})
         \/ \E r \in registry : BeginRemove({r})
         \/ BeginList \/ BeginRecover
  PROVE  ConfigTyped'
<1> USE DEF Files
<1>1. /\ UNCHANGED <<profiles, registry>> /\ registry \in SUBSET Instance /\ Single(registry)
      /\ faults' \in 0 .. MaxFaults /\ regfile' \in {regfile, "fine"}
  BY DEF ClientInv, ClientShapes, ConfigTyped, BeginLaunch, BeginRemove, BeginList, BeginRecover
<1>2. ASSUME NEW stale \in SUBSET registry
      PROVE  CleanupAll(stale) \o Saving(registry \ stale) \in Seq(Lone) /\ Single(registry \ stale)
  <2>1. stale \in SUBSET Instance /\ registry \ stale \in SUBSET Instance /\ Single(registry \ stale)
    BY <1>1, FewerIsSingle
  <2>2. CleanupAll(stale) \in Seq(Lone) /\ Saving(registry \ stale) \in Seq(Lone)
    BY <2>1, CleanupAllSavesNothing, UnsavingIsLone, SavingIsLone
  <2> QED BY <2>1, <2>2
<1>3. ASSUME NEW t \in Tool, NEW a \in CarAccess, BeginLaunch(t, a) PROVE ConfigTyped'
  <2>1. PICK stale \in SUBSET registry :
           task' = [NoTask EXCEPT !.pc = "choose", !.tool = t, !.access = a, !.seen = ListedInstances,
                                  !.list = registry \ stale,
                                  !.todo = CleanupAll(stale) \o Saving(registry \ stale)]
    <3> DEFINE idle == {r \in registry : ~Possible(r, ListedInstances)}
    <3>1. \E young \in Young(idle) :
             task' = [NoTask EXCEPT !.pc = "choose", !.tool = t, !.access = a, !.seen = ListedInstances,
                                    !.list = registry \ (idle \ young),
                                    !.todo = CleanupAll(idle \ young) \o Saving(registry \ (idle \ young))]
      BY <1>3 DEF BeginLaunch
    <3> QED BY <3>1
  <2>2. task'.pc = "choose" /\ task'.list = registry \ stale
        /\ task'.todo = CleanupAll(stale) \o Saving(registry \ stale)
    BY <2>1 DEF NoTask
  <2> QED BY <1>1, <1>2, <2>2, PlainTaskIsTyped
<1>4. ASSUME NEW R \in SUBSET registry, BeginRemove(R) PROVE ConfigTyped'
  <2>1. task'.pc = "remove" /\ task'.list = registry /\ task'.todo = <<>>
    BY <1>4 DEF BeginRemove, NoTask
  <2> QED BY <1>1, <2>1, UnsavingIsLone, PlainTaskIsTyped
<1>5. CASE BeginList
  <2>1. PICK stale \in SUBSET registry :
           task' = [NoTask EXCEPT !.pc = "end", !.seen = ListedInstances,
                                  !.todo = CleanupAll(stale) \o Saving(registry \ stale)]
    <3> DEFINE idle == {r \in registry : ~Possible(r, ListedInstances)}
    <3>1. \E young \in Young(idle) :
             task' = [NoTask EXCEPT !.pc = "end", !.seen = ListedInstances,
                                    !.todo = CleanupAll(idle \ young) \o Saving(registry \ (idle \ young))]
      BY <1>5 DEF BeginList
    <3> QED BY <3>1
  <2>2. task'.pc = "end" /\ task'.list = {} /\ task'.todo = CleanupAll(stale) \o Saving(registry \ stale)
    BY <2>1 DEF NoTask
  <2>3. Single(task'.list)
    BY <2>2 DEF Single
  <2> QED BY <1>1, <1>2, <2>2, <2>3, PlainTaskIsTyped
<1>6. CASE BeginRecover
  <2>1. CASE task' = [NoTask EXCEPT !.pc = "end", !.todo = Migration]
    <3>1. Migration \in Seq(Lone)
      BY MigrationSavesNothing, UnsavingIsLone DEF ClientInv
    <3>2. task'.pc = "end" /\ task'.list = {} /\ task'.todo = Migration
      BY <2>1 DEF NoTask
    <3>3. Single(task'.list)
      BY <3>2 DEF Single
    <3> QED BY <1>1, <3>1, <3>2, <3>3, PlainTaskIsTyped
  <2>2. CASE task' = [NoTask EXCEPT !.pc = "recover", !.seen = ListedInstances, !.left = registry]
    <3>1. task'.pc = "recover" /\ task'.list = {} /\ task'.todo = <<>> /\ task'.left = registry /\ task'.about = {}
      BY <2>2 DEF NoTask
    <3>2. Single(task'.list)
      BY <3>1 DEF Single
    <3>3. LaunchIsRecorded' /\ RecoveryWaits'
      BY <1>1, <3>1, UnsavingIsLone DEF LaunchIsRecorded, RecoveryWaits
    <3> QED BY <1>1, <3>1, <3>2, <3>3, UnsavingIsLone DEF ConfigTyped
  <2> QED BY <2>1, <2>2, <1>6 DEF BeginRecover
<1>7. \A a \in CarAccess : {r \in registry : r.access = a} \in SUBSET registry
  OBVIOUS
<1>8. \A r \in registry : {r} \in SUBSET registry
  OBVIOUS
<1> QED BY <1>3, <1>4, <1>5, <1>6, <1>7, <1>8

\* A launch goes on.
LEMMA PrepareIsTyped ==
  ASSUME ClientInv, ConfigTyped, Prepare
  PROVE  ConfigTyped'
<1> DEFINE t == task.tool
           a == task.access
           R == task.list \cup {NewRecord}
           d1 == [do |-> "restore", tool |-> t]
           d2 == [do |-> "mkdir", tool |-> t]
           d3 == [do |-> "manifest", tool |-> t]
           d4 == [do |-> "route", tool |-> t, as |-> a]
           d5 == [do |-> "mark", tool |-> t]
           d6 == [do |-> "save", list |-> R]
           p1 == [do |-> "rmprofile", tool |-> t, access |-> a]
           p2 == [do |-> "mkprofile", tool |-> t, access |-> a]
           first == IF t \in Store THEN <<d1, d2, d3, d4, d5>> ELSE <<p1, p2>>
<1>1. /\ task.pc = "choose" /\ UNCHANGED <<registry, profiles, regfile, faults>> /\ ~Taken
      /\ t \in Tool /\ a \in CarAccess /\ task \in TaskRecord
  <2>1. task.pc = "choose" /\ UNCHANGED <<registry, profiles, regfile, faults>> /\ ~Taken
    BY DEF Prepare, Ready, Files
  <2> QED BY <2>1 DEF ClientInv, ClientShapes, OfLaunch
<1>2. R \in SUBSET Instance /\ NewRecord.tool = t /\ NewRecord.access = a
  <2>1. NewRecord \in Instance /\ NewRecord.tool = t /\ NewRecord.access = a
    BY <1>1 DEF NewRecord, Instance
  <2>2. task.list \in SUBSET Instance
    BY <1>1 DEF TaskRecord
  <2> QED BY <2>1, <2>2
<1>3. Single(R)
  BY <1>1, <1>2 DEF Single, Taken, ConfigTyped
<1>4. /\ d1 \in Lone /\ d2 \in Lone /\ d3 \in Lone /\ d4 \in Lone /\ d5 \in Lone
      /\ p1 \in Lone /\ p2 \in Lone
  BY <1>1 DEF Lone, Deed
<1>5. d6 \in Lone /\ d6.do = "save" /\ d6.list = R
  BY <1>2, <1>3 DEF Lone, Deed
<1>6. task' = [task EXCEPT !.pc = "spawn", !.todo = first \o <<d6>>]
  <2>1. Saving(R) = <<d6>>
    BY DEF Saving
  <2> QED BY <2>1 DEF Prepare
<1>7. first \in Seq(Lone)
  <2> HIDE DEF d1, d2, d3, d4, d5, p1, p2, Lone
  <2> QED BY <1>4
<1> DEFINE todo == first \o <<d6>>
<1>8. todo # <<>> /\ todo[Len(todo)] = d6 /\ todo \in Seq(Lone)
  <2> HIDE DEF first, d6, Lone
  <2> QED BY <1>5, <1>7, LastOfList
<1> HIDE DEF first, d6, R
<1>9. /\ task'.pc = "spawn" /\ task'.tool = t /\ task'.access = a /\ task'.todo = todo /\ task'.list = task.list
  BY <1>1, <1>6 DEF TaskRecord
<1> HIDE DEF todo
<1>10. NewRecord' = NewRecord
  BY <1>9 DEF NewRecord
<1>11. NewRecord \in R
  BY DEF R
<1>12. LaunchIsRecorded' /\ RecoveryWaits'
  BY <1>5, <1>8, <1>9, <1>10, <1>11 DEF LaunchIsRecorded, RecoveryWaits
<1> QED BY <1>1, <1>8, <1>9, <1>12 DEF ConfigTyped

\* A client starts, shows itself or does not.
LEMMA LaunchIsTyped ==
  ASSUME ClientInv, ConfigTyped, Spawn \/ SeeReady \/ WaitEnds \/ Unsaved
  PROVE  ConfigTyped'
<1>1. /\ UNCHANGED <<registry, profiles, regfile, faults>> /\ task \in TaskRecord /\ task.pc \in OfLaunch
      /\ task.tool \in Tool /\ task.access \in CarAccess /\ registry \in SUBSET Instance
  <2>1. UNCHANGED <<registry, profiles, regfile, faults>> /\ task.pc \in OfLaunch
    BY DEF Spawn, SeeReady, WaitEnds, Unsaved, Ready, Files, OfLaunch
  <2> QED BY <2>1 DEF ClientInv, ClientShapes
<1>2. /\ Single(registry) /\ Single(task.list) /\ faults \in 0 .. MaxFaults /\ task.list \in SUBSET Instance
  BY <1>1 DEF ConfigTyped, TaskRecord
<1>3. NewRecord \in Instance /\ NewRecord.tool = task.tool /\ NewRecord.access = task.access
  BY <1>1 DEF NewRecord, Instance
<1>4. ASSUME task' = Undo PROVE ConfigTyped'
  <2> DEFINE todo == IF NewRecord \in registry THEN Cleanup(NewRecord) \o Saving(registry \ {NewRecord}) ELSE <<>>
  <2>1. todo \in Seq(Lone)
    <3>1. Saving(registry \ {NewRecord}) \in Seq(Lone)
      <4>1. registry \ {NewRecord} \in SUBSET Instance /\ Single(registry \ {NewRecord})
        BY <1>1, <1>2, FewerIsSingle
      <4> QED BY <4>1, SavingIsLone
    <3>2. Cleanup(NewRecord) \in Seq(Lone) /\ <<>> \in Seq(Lone)
      BY <1>3, CleanupSavesNothing, UnsavingIsLone
    <3> QED BY <3>1, <3>2
  <2>2. task' = [task EXCEPT !.pc = "end", !.todo = todo]
    BY <1>4 DEF Undo
  <2> HIDE DEF todo
  <2>3. task'.pc = "end" /\ task'.list = task.list /\ task'.todo = todo
    BY <1>1, <2>2 DEF TaskRecord
  <2> QED BY <1>1, <1>2, <2>1, <2>3, PlainTaskIsTyped
<1>5. ASSUME task' = NoTask PROVE ConfigTyped'
  BY <1>1, <1>2, <1>5, RestIsSingle, PlainTaskIsTyped
<1>6. ASSUME Spawn, task' = [task EXCEPT !.pc = "wait"] PROVE ConfigTyped'
  <2>1. task.pc = "spawn" /\ task.todo = <<>> /\ NewRecord \in task.list
    BY <1>6 DEF Spawn, Ready, ConfigTyped, LaunchIsRecorded
  <2>2. /\ task'.pc = "wait" /\ task'.todo = <<>> /\ task'.list = task.list
        /\ task'.tool = task.tool /\ task'.access = task.access
    BY <1>1, <1>6, <2>1 DEF TaskRecord
  <2>3. NewRecord' = NewRecord
    BY <2>2 DEF NewRecord
  <2>4. LaunchIsRecorded' /\ RecoveryWaits'
    BY <2>1, <2>2, <2>3 DEF LaunchIsRecorded, RecoveryWaits
  <2> QED BY <1>1, <1>2, <2>2, <2>4, UnsavingIsLone DEF ConfigTyped
<1>7. CASE SeeReady
  <2> DEFINE ready == [NewRecord EXCEPT !.ready = TRUE]
             R == (task.list \ {NewRecord}) \cup {ready}
  <2>1. task' = [task EXCEPT !.pc = "ready", !.todo = Saving(R)] /\ NewRecord \in task.list
    BY <1>7 DEF SeeReady, Ready, ConfigTyped, LaunchIsRecorded
  <2>2. ready \in Instance /\ ready.tool = task.tool /\ ready.access = task.access
    BY <1>3 DEF Instance
  <2> HIDE DEF ready
  <2>3. R \in SUBSET Instance /\ Single(R)
    BY <1>2, <1>3, <2>1, <2>2 DEF Single
  <2> HIDE DEF R
  <2>4. Saving(R) \in Seq(Lone)
    BY <2>3, SavingIsLone
  <2>5. task'.pc = "ready" /\ task'.todo = Saving(R) /\ task'.list = task.list
    BY <1>1, <2>1 DEF TaskRecord
  <2> QED BY <1>1, <1>2, <2>4, <2>5, PlainTaskIsTyped
<1>8. \/ task' = Undo \/ task' = NoTask \/ (Spawn /\ task' = [task EXCEPT !.pc = "wait"]) \/ SeeReady
  <2>1. Spawn => task' = [task EXCEPT !.pc = "wait"] \/ task' = Undo
    BY DEF Spawn
  <2>2. WaitEnds => task' = Undo \/ task' = NoTask
    BY DEF WaitEnds
  <2>3. Unsaved => task' = Undo \/ task' = NoTask
    <3> HIDE DEF NoTask
    <3> QED BY DEF Unsaved
  <2> QED BY <2>1, <2>2, <2>3
<1> QED BY <1>4, <1>5, <1>6, <1>7, <1>8

\* Records are settled, one after the other.
LEMMA SettlingIsTyped ==
  ASSUME ClientInv, ConfigTyped, Settle \/ Recovered
  PROVE  ConfigTyped'
<1>1. /\ UNCHANGED <<registry, profiles, regfile, faults>> /\ task \in TaskRecord /\ task.pc \in {"remove", "recover"}
      /\ registry \in SUBSET Instance /\ task.todo = <<>>
  BY DEF Settle, Recovered, Ready, Files, ClientInv, ClientShapes
<1>2. /\ Single(registry) /\ Single(task.list) /\ faults \in 0 .. MaxFaults
      /\ task.left \in SUBSET Instance /\ task.list \in SUBSET Instance
  BY <1>1 DEF ConfigTyped, TaskRecord
<1>3. ASSUME task' = NoTask PROVE ConfigTyped'
  BY <1>1, <1>2, <1>3, RestIsSingle, PlainTaskIsTyped
<1>4. CASE Recovered
  <2> DEFINE tail == IF task.list = {} THEN Migration ELSE <<>>
  <2>1. task' = [task EXCEPT !.pc = "end", !.todo = Saving(task.list) \o tail]
    BY <1>4 DEF Recovered
  <2>2. tail \in Seq(Lone)
    BY MigrationSavesNothing, UnsavingIsLone DEF ClientInv
  <2> HIDE DEF tail
  <2>3. Saving(task.list) \o tail \in Seq(Lone)
    <3>1. Saving(task.list) \in Seq(Lone)
      BY <1>2, SavingIsLone
    <3> QED BY <2>2, <3>1
  <2>4. task'.pc = "end" /\ task'.list = task.list /\ task'.todo = Saving(task.list) \o tail
    BY <1>1, <2>1 DEF TaskRecord
  <2> QED BY <1>1, <1>2, <2>3, <2>4, PlainTaskIsTyped
<1>5. CASE Settle
  <2> DEFINE seen2 == IF task.pc = "remove" THEN ListedInstances ELSE task.seen
  <2>1. PICK r \in task.left :
          LET rest == [task EXCEPT !.left = @ \ {r}, !.seen = seen2] IN
          \/ task' = [rest EXCEPT !.about = {r}, !.todo = Cleanup(r) \o
                            (IF task.pc = "remove" THEN Saving(registry \ {r}) ELSE <<>>)]
          \/ task' = IF task.pc = "remove" THEN NoTask ELSE [rest EXCEPT !.list = @ \cup {r}]
    BY <1>5 DEF Settle
  <2> HIDE DEF seen2
  <2> DEFINE rest == [task EXCEPT !.left = @ \ {r}, !.seen = seen2]
             saving == IF task.pc = "remove" THEN Saving(registry \ {r}) ELSE <<>>
  <2>2. r \in Instance
    BY <1>2
  <2>3. /\ rest.pc = task.pc /\ rest.todo = task.todo /\ rest.list = task.list /\ rest.about = task.about
        /\ rest.left = task.left \ {r}
        /\ \A todo : LET tt == [rest EXCEPT !.about = {r}, !.todo = todo] IN
              tt.pc = task.pc /\ tt.todo = todo /\ tt.list = task.list /\ tt.about = {r} /\ tt.left = task.left \ {r}
        /\ \A list : LET tt == [rest EXCEPT !.list = list] IN
              /\ tt.pc = task.pc /\ tt.todo = task.todo /\ tt.list = list
              /\ tt.about = task.about /\ tt.left = task.left \ {r}
    BY <1>1 DEF TaskRecord
  <2>4. \/ task' = [rest EXCEPT !.about = {r}, !.todo = Cleanup(r) \o saving]
        \/ task' = IF task.pc = "remove" THEN NoTask ELSE [rest EXCEPT !.list = task.list \cup {r}]
    BY <2>1, <2>3
  <2> HIDE DEF rest
  <2>5. saving \in Seq(Lone) /\ Cleanup(r) \in Seq(Unsaving) /\ Cleanup(r) \in Seq(Lone)
        /\ (task.pc # "remove" => saving = <<>>)
    <3>1. registry \ {r} \in SUBSET Instance /\ Single(registry \ {r})
      BY <1>1, <1>2, FewerIsSingle
    <3> QED BY <2>2, <3>1, CleanupSavesNothing, UnsavingIsLone, SavingIsLone
  <2> HIDE DEF saving
  <2>6. Cleanup(r) \o saving \in Seq(Lone) /\ (task.pc # "remove" => Cleanup(r) \o saving \in Seq(Unsaving))
    BY <2>5, UnsavingIsLone
  <2>7. task.pc = "recover" => /\ task.list \subseteq registry /\ r \in registry
                               /\ task.left \subseteq registry /\ task.about \subseteq registry
    BY DEF ConfigTyped, RecoveryWaits
  <2>8. CASE task' = [rest EXCEPT !.about = {r}, !.todo = Cleanup(r) \o saving]
    <3>1. /\ task'.pc = task.pc /\ task'.todo = Cleanup(r) \o saving /\ task'.list = task.list
          /\ task'.about = {r} /\ task'.left = task.left \ {r}
      BY <2>3, <2>8
    <3>2. LaunchIsRecorded' /\ RecoveryWaits'
      BY <1>1, <2>6, <2>7, <3>1 DEF LaunchIsRecorded, RecoveryWaits
    <3> QED BY <1>1, <1>2, <2>6, <3>1, <3>2 DEF ConfigTyped
  <2>9. CASE task.pc # "remove" /\ task' = [rest EXCEPT !.list = task.list \cup {r}]
    <3>1. /\ task'.pc = task.pc /\ task'.todo = <<>> /\ task'.list = task.list \cup {r}
          /\ task'.about = task.about /\ task'.left = task.left \ {r} /\ task.pc = "recover"
      BY <1>1, <2>3, <2>9
    <3>2. LaunchIsRecorded' /\ RecoveryWaits'
      BY <1>1, <2>7, <3>1, UnsavingIsLone DEF LaunchIsRecorded, RecoveryWaits
    <3>3. Single(task'.list)
      BY <1>2, <2>7, <3>1, FewerIsSingle
    <3> QED BY <1>1, <1>2, <3>1, <3>2, <3>3, UnsavingIsLone DEF ConfigTyped
  <2> QED BY <1>3, <2>4, <2>8, <2>9
<1> QED BY <1>4, <1>5

\* What a task does about a failure saves nothing.
LEMMA FailingIsTyped ==
  ASSUME ClientInv, ConfigTyped, Failed \/ RouteFailed
  PROVE  ConfigTyped'
<1>1. /\ UNCHANGED <<registry, profiles, regfile>> /\ task \in TaskRecord /\ task.todo # <<>>
      /\ task.todo \in Seq(Deed)
  BY DEF Failed, RouteFailed, Failing, Files, ClientInv, ClientShapes, TaskRecord
<1>2. Single(registry) /\ Single(task.list)
  BY DEF ConfigTyped
<1>3. faults' \in 0 .. MaxFaults
  <2>1. faults' = faults \/ (faults < MaxFaults /\ faults' = faults + 1)
    BY DEF Failed, RouteFailed, Failing
  <2> QED BY <2>1, ClientAssumption DEF ConfigTyped
<1>4. ASSUME task' = NoTask PROVE ConfigTyped'
  BY <1>1, <1>2, <1>3, <1>4, RestIsSingle, PlainTaskIsTyped
<1>5. ASSUME NEW pc \in {"end", "unsaved"}, NEW todo \in Seq(Lone), task' = [task EXCEPT !.pc = pc, !.todo = todo]
      PROVE  ConfigTyped'
  <2>1. task'.pc = pc /\ task'.todo = todo /\ task'.list = task.list
    BY <1>1, <1>5 DEF TaskRecord
  <2>2. task'.pc \notin {"spawn", "wait", "recover"}
    BY <2>1
  <2> QED BY <1>1, <1>2, <1>3, <2>1, <2>2, PlainTaskIsTyped
<1>6. CASE RouteFailed
  <2> DEFINE d == [do |-> "restore", tool |-> Head1.tool]
  <2>1. task' = [task EXCEPT !.pc = "end", !.todo = <<d>>] /\ Head1.do = "route"
    BY <1>6 DEF RouteFailed, Doing
  <2>2. d \in Unsaving
    <3>1. Head1.tool \in Tool
      BY <1>1, <2>1, TailFacts, DeedFacts DEF Head1
    <3> QED BY <3>1 DEF Unsaving, Deed
  <2> HIDE DEF d
  <2>3. <<d>> \in Seq(Lone)
    BY <2>2, UnsavingIsLone
  <2> QED BY <1>5, <2>1, <2>3
<1>7. CASE Failed
  <2>1. CASE task.pc = "spawn" /\ Head1.do \in {"mark", "save", "mkprofile"}
    <3> DEFINE back == [do |-> "restore", tool |-> task.tool]
               off == [do |-> "unmark", tool |-> task.tool]
               gone == [do |-> "rmprofile", tool |-> task.tool, access |-> task.access]
    <3>1. task' = [task EXCEPT !.pc = "end", !.todo = Rollback]
      BY <1>7, <2>1 DEF Failed
    <3>2. task.tool \in Tool /\ task.access \in CarAccess
      BY <2>1 DEF ClientInv, ClientShapes, OfLaunch
    <3>3. back \in Unsaving /\ off \in Unsaving /\ gone \in Unsaving
      BY <3>2 DEF Unsaving, Deed
    <3>4. Rollback = IF task.tool \in Store THEN <<back, off>> ELSE <<gone>>
      BY DEF Rollback
    <3> HIDE DEF back, off, gone
    <3>5. Rollback \in Seq(Lone)
      <4>1. Rollback \in Seq(Unsaving)
        BY <3>3, <3>4
      <4> QED BY <4>1, UnsavingIsLone
    <3> QED BY <1>5, <3>1, <3>5
  <2>2. CASE task.pc = "ready"
    <3>1. task' = [task EXCEPT !.pc = "unsaved", !.todo = <<>>]
      BY <1>7, <2>2 DEF Failed
    <3> QED BY <1>5, <3>1, UnsavingIsLone
  <2>3. CASE task.pc = "recover"
    <3>1. task' = [task EXCEPT !.todo = <<>>, !.list = @ \cup task.about]
      BY <1>7, <2>3 DEF Failed
    <3>2. /\ task'.pc = "recover" /\ task'.todo = <<>> /\ task'.list = task.list \cup task.about
          /\ task'.left = task.left /\ task'.about = task.about
      BY <1>1, <2>3, <3>1 DEF TaskRecord
    <3>3. task'.list \subseteq registry /\ task'.left \subseteq registry /\ task'.about \subseteq registry
      BY <2>3, <3>2 DEF ConfigTyped, RecoveryWaits
    <3>4. LaunchIsRecorded' /\ RecoveryWaits' /\ Single(task'.list)
      BY <1>1, <1>2, <3>2, <3>3, UnsavingIsLone, FewerIsSingle DEF LaunchIsRecorded, RecoveryWaits
    <3> QED BY <1>1, <1>2, <1>3, <3>2, <3>4, UnsavingIsLone DEF ConfigTyped
  <2>4. CASE ~(task.pc = "spawn" /\ Head1.do \in {"mark", "save", "mkprofile"}) /\ task.pc \notin {"ready", "recover"}
    <3>1. task' = NoTask
      BY <1>7, <2>4 DEF Failed
    <3> QED BY <1>4, <3>1
  <2> QED BY <2>1, <2>2, <2>3, <2>4
<1> QED BY <1>6, <1>7

\* The lock is released, or clients come and go.
LEMMA RestingIsTyped ==
  ASSUME ConfigTyped,
         \/ LaunchNothing \/ FinishTask \/ ClientCrash
         \/ \E p \in clients : Appears(p) \/ Exits(p) \/ Renews(p)
         \/ \E t \in Tool : UserStarts(t)
  PROVE  ConfigTyped'
<1>1. UNCHANGED <<registry, profiles, regfile, faults>>
  BY DEF LaunchNothing, FinishTask, ClientCrash, Appears, Exits, Renews, UserStarts, Files
<1>2. task' = NoTask \/ task' = task
  BY DEF LaunchNothing, FinishTask, ClientCrash, Appears, Exits, Renews, UserStarts
<1>3. ASSUME task' = NoTask PROVE ConfigTyped'
  <2>1. faults \in 0 .. MaxFaults
    BY DEF ConfigTyped
  <2> QED BY <1>1, <1>3, <2>1, RestIsSingle, PlainTaskIsTyped
<1>4. ASSUME task' = task PROVE ConfigTyped'
  BY <1>1, <1>4 DEF ConfigTyped, LaunchIsRecorded, RecoveryWaits, NewRecord
<1> QED BY <1>2, <1>3, <1>4

\* The first of a list of such operations is one, and so are the others.
LEMMA LoneLists ==
  ASSUME NEW S, NEW todo \in Seq(S), todo # <<>>
  PROVE  todo[1] \in S /\ Tail(todo) \in Seq(S) /\ \A d \in S : <<d>> \o Tail(todo) \in Seq(S)
OBVIOUS

\* An operation of the list is carried out.
LEMMA FileStepIsTyped ==
  ASSUME ClientInv, ConfigTyped, FileStep
  PROVE  ConfigTyped'
<1> DEFINE todo == task.todo
<1>1. /\ UNCHANGED <<regfile, faults>> /\ todo # <<>> /\ todo \in Seq(Deed) /\ task \in TaskRecord
      /\ todo \in Seq(Lone)
  BY DEF FileStep, RestoreNothing, Restore, EmptySnap, SnapFiles, Route, Mark, Profile, Save, Doing,
         ClientInv, ClientShapes, TaskRecord, ConfigTyped
<1>2. /\ Head1 = todo[1] /\ Head1 \in Deed /\ Head1 \in Lone /\ Tail(todo) \in Seq(Lone)
      /\ \A d \in Lone : <<d>> \o Tail(todo) \in Seq(Lone)
      /\ task.pc = "recover" => /\ Head1 \in Unsaving /\ Tail(todo) \in Seq(Unsaving)
                                /\ \A d \in Unsaving : <<d>> \o Tail(todo) \in Seq(Unsaving)
  <2>1. /\ todo[1] \in Lone /\ Tail(todo) \in Seq(Lone)
        /\ \A d \in Lone : <<d>> \o Tail(todo) \in Seq(Lone)
    BY <1>1, LoneLists
  <2>2. CASE task.pc = "recover"
    <3>1. todo \in Seq(Unsaving)
      BY <2>2 DEF ConfigTyped, RecoveryWaits
    <3>2. /\ todo[1] \in Unsaving /\ Tail(todo) \in Seq(Unsaving)
          /\ \A d \in Unsaving : <<d>> \o Tail(todo) \in Seq(Unsaving)
      BY <1>1, <3>1, LoneLists
    <3> QED BY <1>1, <2>1, <3>2, TailFacts DEF Head1
  <2> QED BY <1>1, <2>1, <2>2, TailFacts DEF Head1
<1>3. /\ Head1.do # "save" => Head1.tool \in Tool
      /\ Head1.do \in {"rmprofile", "mkprofile"} => Head1.access \in CarAccess
  BY <1>2, DeedFacts
<1>4. ASSUME NEW more, more = Tail(todo) \/ (Head1.do # "save" /\ \E d \in Unsaving : more = <<d>> \o Tail(todo)),
             task' = [task EXCEPT !.todo = more] \/ (Head1.do = "save" /\ task' = [task EXCEPT !.todo = more, !.list = Head1.list]),
             registry' = IF Head1.do = "save" THEN Head1.list ELSE registry,
             Head1.do = "save" => task'.list = Head1.list,
             profiles' \subseteq Tool \X CarAccess
      PROVE  ConfigTyped'
  <2>1. more \in Seq(Lone) /\ (task.pc = "recover" => more \in Seq(Unsaving))
    BY <1>2, <1>4, UnsavingIsLone
  <2>2. /\ task'.pc = task.pc /\ task'.todo = more /\ task'.tool = task.tool /\ task'.access = task.access
        /\ task'.left = task.left /\ task'.about = task.about
        /\ task'.list = IF Head1.do = "save" THEN Head1.list ELSE task.list
    BY <1>1, <1>4 DEF TaskRecord
  <2>3. NewRecord' = NewRecord
    BY <2>2 DEF NewRecord
  <2>4. Single(registry') /\ Single(task'.list)
    BY <1>2, <1>4, <2>2 DEF ConfigTyped, Lone
  <2>5. RecoveryWaits'
    <3>1. task.pc = "recover" => Head1.do # "save"
      BY <1>2 DEF Unsaving
    <3> QED BY <1>4, <2>1, <2>2, <3>1 DEF RecoveryWaits, ConfigTyped
  <2>6. LaunchIsRecorded'
    <3>1. task.pc # "wait"
      BY <1>1 DEF ConfigTyped, LaunchIsRecorded
    <3>2. CASE task.pc = "spawn"
      <4>1. todo[Len(todo)].do = "save" /\ NewRecord \in todo[Len(todo)].list
        BY <1>1, <3>2 DEF ConfigTyped, LaunchIsRecorded
      <4>2. CASE more = Tail(todo)
        <5>1. CASE more = <<>>
          <6>1. todo[Len(todo)] = Head1
            BY <1>1, <1>2, <4>2, <5>1, LastOfList
          <6> QED BY <2>2, <2>3, <3>2, <4>1, <5>1, <6>1 DEF LaunchIsRecorded
        <5>2. CASE more # <<>>
          <6>1. more[Len(more)] = todo[Len(todo)]
            BY <1>1, <1>2, <4>2, <5>2, LastOfList
          <6> QED BY <2>2, <2>3, <3>2, <4>1, <5>2, <6>1 DEF LaunchIsRecorded
        <5> QED BY <5>1, <5>2
      <4>3. CASE Head1.do # "save" /\ \E d \in Unsaving : more = <<d>> \o Tail(todo)
        <5>1. PICK d \in Unsaving : more = <<d>> \o Tail(todo)
          BY <4>3
        <5>2. d \in Deed /\ Tail(todo) # <<>>
          <6>1. d \in Deed
            BY DEF Unsaving
          <6>2. Tail(todo) = <<>> => todo[Len(todo)] = todo[1]
            BY <1>1, <6>1, LastOfList
          <6> QED BY <1>2, <4>1, <4>3, <6>1, <6>2
        <5>3. more # <<>> /\ more[Len(more)] = todo[Len(todo)]
          BY <1>1, <5>1, <5>2, LastOfList
        <5> QED BY <2>2, <2>3, <3>2, <4>1, <5>3 DEF LaunchIsRecorded
      <4> QED BY <1>4, <4>2, <4>3
    <3> QED BY <2>2, <3>1, <3>2 DEF LaunchIsRecorded
  <2> QED BY <1>1, <1>4, <2>1, <2>2, <2>4, <2>5, <2>6 DEF ConfigTyped
<1>5. profiles \subseteq Tool \X CarAccess
  BY DEF ConfigTyped
<1>6. CASE RestoreNothing \/ SnapFiles \/ Route \/ Mark
  <2>1. /\ task' = [task EXCEPT !.todo = Tail(todo)] /\ UNCHANGED <<registry, profiles>> /\ Head1.do # "save"
    BY <1>6 DEF RestoreNothing, SnapFiles, Route, Mark, Going, Doing
  <2> QED BY <1>4, <1>5, <2>1
<1>7. CASE Restore \/ EmptySnap
  <2>1. PICK what \in {"empty", "rmdir"} :
          /\ task' = [task EXCEPT !.todo = <<[do |-> what, tool |-> Head1.tool]>> \o Tail(todo)]
          /\ UNCHANGED <<registry, profiles>> /\ Head1.do # "save"
    BY <1>7 DEF Restore, EmptySnap, GoingOn, Doing
  <2> DEFINE d == [do |-> what, tool |-> Head1.tool]
  <2>2. d \in Unsaving
    BY <1>3, <2>1 DEF Unsaving, Deed
  <2> HIDE DEF d
  <2>3. task' = [task EXCEPT !.todo = <<d>> \o Tail(todo)]
    BY <2>1 DEF d
  <2> QED BY <1>4, <1>5, <2>1, <2>2, <2>3
<1>8. CASE Profile
  <2>1. /\ task' = [task EXCEPT !.todo = Tail(todo)] /\ registry' = registry /\ Head1.do \in {"rmprofile", "mkprofile"}
    BY <1>8 DEF Profile, Going, Doing
  <2>2. profiles' \subseteq profiles \cup {<<Head1.tool, Head1.access>>}
    BY <1>8 DEF Profile
  <2>3. profiles' \subseteq Tool \X CarAccess
    BY <1>3, <1>5, <2>1, <2>2
  <2> QED BY <1>4, <2>1, <2>3
<1>9. CASE Save
  <2>1. /\ task' = [task EXCEPT !.todo = Tail(todo), !.list = Head1.list] /\ registry' = Head1.list
        /\ profiles' = profiles /\ Head1.do = "save"
    BY <1>9 DEF Save, Doing
  <2>2. task'.list = Head1.list
    BY <1>1, <2>1 DEF TaskRecord
  <2> QED BY <1>4, <1>5, <2>1, <2>2
<1> QED BY <1>6, <1>7, <1>8, <1>9 DEF FileStep

\* The start: no records, and profiles of the tools that are not from the Store.
LEMMA ConfigTypedInit == ClientInit => ConfigTyped
<1> SUFFICES ASSUME ClientInit PROVE ConfigTyped
  OBVIOUS
<1>1. registry = {} /\ task = NoTask /\ regfile \in {"fine", "damaged", "newer"} /\ faults = 0
  BY DEF ClientInit
<1>2. profiles \subseteq Tool \X CarAccess
  <2>1. PICK old \in SUBSET Tool, a \in CarAccess : profiles = {<<t, a>> : t \in old \ Store}
    BY DEF ClientInit
  <2> QED BY <2>1
<1>3. Single(registry) /\ Single(task.list) /\ task.todo \in Seq(Lone) /\ task.pc = "rest"
  BY <1>1, RestIsSingle DEF Single
<1>4. 0 \in 0 .. MaxFaults
  BY ClientAssumption
<1> QED BY <1>1, <1>2, <1>3, <1>4 DEF ConfigTyped, LaunchIsRecorded, RecoveryWaits

\* Every step keeps it.
LEMMA ConfigTypedStep == ClientInv /\ ConfigTyped /\ [ClientNext]_clientVars => ConfigTyped'
<1> SUFFICES ASSUME ClientInv, ConfigTyped, [ClientNext]_clientVars PROVE ConfigTyped'
  OBVIOUS
<1>1. CASE UNCHANGED clientVars
  <2>1. UNCHANGED <<registry, profiles, regfile, faults, task>>
    BY <1>1 DEF clientVars
  <2> QED BY <2>1 DEF ConfigTyped, LaunchIsRecorded, RecoveryWaits, NewRecord
<1>2. CASE ClientNext
  BY <1>2, BeginningIsTyped, FileStepIsTyped, FailingIsTyped, PrepareIsTyped, LaunchIsTyped, SettlingIsTyped,
     RestingIsTyped DEF ClientNext
<1> QED BY <1>1, <1>2

\* The registry, the profiles and the configurations are typed, and a ride has one
\* record of a tool at most (client_launcher.rs, launch and save_registry).
LEMMA ClientsStayTyped == ClientSpec => []ConfigTypeOK
<1>1. ClientInv /\ ConfigTyped => ConfigTypeOK
  BY DEF ClientInv, ClientShapes, ConfigTyped, ConfigTypeOK, Single
<1> QED BY <1>1, ClientInvInit, ClientInvStep, ConfigTypedInit, ConfigTypedStep, PTL DEF ClientSpec

\* The updater's types, with what a download works on: an offer that was found.
UpdateTyped == UpdateTypeOK /\ (Held("download") => pendingUpdate.offer # NoUpdate)

\* Every command of a ride or of the updater keeps the types.
LEMMA UpdateTypedStep == UpdateTyped /\ UpdateInv' /\ [UpdateNext]_updateVars => UpdateTyped'
<1> SUFFICES ASSUME UpdateTyped, UpdateInv', [UpdateNext]_updateVars PROVE UpdateTyped'
  OBVIOUS
<1> USE DEF UpdateTyped, UpdateTypeOK, Held, Free
<1>1. (Held("install") => installing)'
  BY DEF UpdateInv, RidesAreWarned
<1>9. Nothing \in [offer : Offer \cup {NoUpdate}, verified : BOOLEAN] /\ ~Nothing.verified
  BY DEF Nothing
<1>2. CASE UNCHANGED updateVars
  BY <1>2 DEF updateVars
<1>3. ASSUME NEW r \in Ride, BeginRide(r) \/ EndTransition(r) \/ EndRide(r) PROVE UpdateTyped'
  BY <1>1, <1>3 DEF BeginRide, EndTransition, EndRide
<1>4. CASE CheckAnswered
  <2>1. PICK o \in Offer \cup {NoUpdate} :
          pendingUpdate' = IF o = NoUpdate THEN Nothing
                           ELSE IF Valid(o) THEN [offer |-> o, verified |-> FALSE] ELSE pendingUpdate
    BY <1>4 DEF CheckAnswered
  <2>2. /\ pendingUpdate' \in [offer : Offer \cup {NoUpdate}, verified : BOOLEAN]
        /\ pendingUpdate'.verified => pendingUpdate'.offer # NoUpdate
    BY <2>1 DEF Nothing
  <2> QED BY <1>1, <1>4, <2>2 DEF CheckAnswered
<1>5. CASE DownloadEnds
  BY <1>1, <1>5 DEF DownloadEnds
<1>6. CASE BeginCheck \/ BeginDownload \/ BeginInstall \/ Restart
  BY <1>1, <1>6 DEF BeginCheck, BeginDownload, BeginInstall, Restart
<1>7. CASE InstallEnds
  BY <1>9, <1>1, <1>7 DEF InstallEnds
<1>8. CASE Relaunch
  BY <1>9, <1>1, <1>8 DEF Relaunch
<1> QED BY <1>2, <1>3, <1>4, <1>5, <1>6, <1>7, <1>8 DEF UpdateNext

\* The updater is typed, and what is verified is an update, for any offers (app_updater.rs,
\* PendingUpdate).
LEMMA UpdateStaysTyped == UpdateSpec => []UpdateTypeOK
<1>1. UpdateInit => UpdateTyped
  <2>1. Nothing \in [offer : Offer \cup {NoUpdate}, verified : BOOLEAN] /\ ~Nothing.verified
    BY DEF Nothing
  <2> QED BY <2>1 DEF UpdateInit, UpdateTyped, UpdateTypeOK, Held
<1>2. UpdateTyped => UpdateTypeOK
  BY DEF UpdateTyped
<1> QED BY <1>1, <1>2, UpdateTypedStep, UpdateInvariant, PTL DEF UpdateSpec

\* The record of the provenance and the count of mishaps stay in range.
LEMMA ProvenanceStays ==
  ASSUME ToolInv, prov \in 0 .. Releases, toolMishaps \in 0 .. MaxToolMishaps, [ToolNext]_toolVars
  PROVE  prov' \in 0 .. Releases /\ toolMishaps' \in 0 .. MaxToolMishaps
<1> USE ProvisionerAssumption DEF Disk, World
<1>1. CASE RecordProvenance
  BY <1>1 DEF RecordProvenance, ToolInv, ToolShapes, JobRecord
<1>2. CASE InstallFails
  BY <1>2 DEF InstallFails
<1>3. ASSUME NEW v \in Version, ForeignWrite(v) PROVE prov' = prov /\ toolMishaps' \in 0 .. MaxToolMishaps
  BY <1>3 DEF ForeignWrite
<1>4. CASE UNCHANGED toolVars
  BY <1>4 DEF toolVars
<1>5. CASE BeginInstallTool \/ Resolve \/ RefreshCache \/ Download \/ CancelInstall \/ SmokeTest
             \/ ClearTarget \/ Place \/ Point \/ Prune \/ NpmEnds \/ Publish \/ UserInstalls \/ ToolCrash
  BY <1>5 DEF BeginInstallTool, Resolve, RefreshCache, Download, CancelInstall, SmokeTest,
              ClearTarget, Place, Point, Prune, NpmEnds, Publish, UserInstalls, ToolCrash
<1>6. ASSUME NEW l \in Launch,
             BeginLaunchTool(l) \/ ReadPointer(l) \/ ReadProvenance(l) \/ CheckHash(l) \/ StartTool(l)
      PROVE  UNCHANGED <<prov, toolMishaps>>
  BY <1>6 DEF BeginLaunchTool, ReadPointer, ReadProvenance, CheckHash, StartTool, Around
<1> QED BY <1>1, <1>2, <1>3, <1>4, <1>5, <1>6 DEF ToolNext

\* What the proof of the pointer relies on holds of every behaviour of the provisioner.
LEMMA ToolInvHolds == ToolSpec => []ToolInv
<1>1. ToolInit => ToolInv
  BY ProvisionerAssumption DEF ToolInit, NoJob, ToolInv, ToolShapes, OnlyNewer, PlanIsSound, PointerIsSound,
     JobSteps, JobRecord, Installing, Version
<1>2. ToolInv /\ [ToolNext]_toolVars => ToolInv'
  <2> SUFFICES ASSUME ToolInv, [ToolNext]_toolVars PROVE ToolInv'
    OBVIOUS
  <2>1. CASE UNCHANGED toolVars
    BY <2>1 DEF toolVars, ToolInv, ToolShapes, OnlyNewer, PlanIsSound, PointerIsSound
  <2> QED BY <2>1, JobStepsKeep, DiskStepsKeep, OtherToolStepsKeep DEF ToolNext
<1> QED BY <1>1, <1>2, PTL DEF ToolSpec

\* The provisioner's types: a job that is past its resolution has a release.
LEMMA ToolStaysTyped == ToolSpec => []ToolTypeOK
<1> DEFINE Counts == prov \in 0 .. Releases /\ toolMishaps \in 0 .. MaxToolMishaps
<1>1. ToolInit => Counts
  BY ProvisionerAssumption DEF ToolInit
<1>2. ToolInv /\ Counts /\ [ToolNext]_toolVars => Counts'
  BY ProvenanceStays
<1>3. ToolInv /\ Counts => ToolTypeOK
  <2> SUFFICES ASSUME ToolInv, Counts PROVE ToolTypeOK
    OBVIOUS
  <2> USE ProvisionerAssumption
  <2>1. /\ official \in Version /\ known \in 0 .. Releases /\ current \in 0 .. Releases
        /\ bin \in [Version -> {"absent", "good", "changed"}]
        /\ job.plan \in 0 .. Releases /\ job.had \in 0 .. Releases /\ job.pc \in JobSteps
    BY DEF ToolInv, ToolShapes, JobRecord, Version
  <2>2. job.plan = 0 => job.pc \in {"none", "resolve", "npm"}
    BY <2>1 DEF ToolInv, OnlyNewer, JobSteps, Installing
  <2> QED BY <2>1, <2>2 DEF ToolTypeOK
<1> HIDE DEF Counts
<1> QED BY <1>1, <1>2, <1>3, ToolInvHolds, PTL DEF ToolSpec
=============================================================================
