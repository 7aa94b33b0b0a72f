---------------------------- MODULE ClientConfig ----------------------------
(***************************************************************************)
(* Desktop clients started for a ride (client_launcher.rs): the registry   *)
(* of instances, the profiles made for them, and, for a Microsoft Store    *)
(* client, which cannot be given a profile, the user's own configuration,  *)
(* which is saved, overwritten and put back.                               *)
(*                                                                         *)
(* One task runs at a time, under CLIENT_REGISTRY_LOCK.  A task is a list  *)
(* of file operations, each of which may fail; the application may die     *)
(* between any two of them.  The several files of one configuration are    *)
(* one value here: "own" only when every file is the user's.               *)
(***************************************************************************)
EXTENDS Naturals, Sequences, FiniteSets, SequencesExt

CONSTANTS Tool,       \* Claude and Codex
          Setting,    \* the installations looked at (below)
          CarAccess,  \* accesses of this passenger
          MaxFaults   \* bound on file operations that fail

\* The tools installed from the Microsoft Store, and whether a client may run for
\* a moment before a listing of processes shows it.
ASSUME ClientAssumption ==
    /\ IsFiniteSet(Tool) /\ IsFiniteSet(CarAccess)
    /\ Setting \subseteq [store : SUBSET Tool, slow : BOOLEAN]
    /\ MaxFaults \in Nat
    /\ "own" \notin CarAccess /\ "none" \notin CarAccess

VARIABLES setting,   \* the installation at hand
          config,    \* what the files of a Store tool say
          snap,      \* its backup directory: state, and the copy it holds
          marker,    \* active-<tool>.json
          profiles,  \* the profile directories of (tool, access)
          registry,  \* the records of the registry file
          regfile,   \* and its state: "fine", "damaged", or of a "newer" version
          clients,   \* the processes of the tools
          task,      \* the operation that holds the lock
          faults

clientVars == <<setting, config, snap, marker, profiles, registry, regfile, clients, task, faults>>

Store == setting.store
Slow == setting.slow

Instance == [tool : Tool, access : CarAccess, ready : BOOLEAN]
Process == [tool : Tool, with : CarAccess \cup {"own"}, ours : BOOLEAN,
            shown : BOOLEAN, named : BOOLEAN]
NoSnap == [dir |-> "none", copy |-> "own"]
NoTask == [pc |-> "rest", tool |-> "none", access |-> "none", seen |-> {},
            list |-> {}, todo |-> <<>>, left |-> {}, about |-> {}]

\* An older version may have left a route behind, and the registry may be damaged
\* or of a newer version.
ClientInit ==
    /\ setting \in Setting
    /\ \E old \in SUBSET Tool : \E a \in CarAccess :
         /\ config = [t \in Tool |-> IF t \in old \cap Store THEN a ELSE "own"]
         /\ snap = [t \in Tool |-> IF t \in old \cap Store
                                   THEN [dir |-> "whole", copy |-> "own"] ELSE NoSnap]
         /\ marker = [t \in Tool |-> IF t \in old THEN a ELSE "none"]
         /\ profiles = {<<t, a>> : t \in old \ Store}
    /\ registry = {}
    /\ regfile \in {"fine", "damaged", "newer"}
    /\ clients = {}
    /\ task = NoTask
    /\ faults = 0

-----------------------------------------------------------------------------
(***************************************************************************)
(* Processes and records.  A process fits a record when its executable and *)
(* its profile do (there is none to compare for a Store client), and is    *)
(* the recorded one when its number and start time are, too.               *)
(***************************************************************************)
ListedInstances == {p \in clients : p.shown}
Fits(p, r) == p.tool = r.tool /\ (r.tool \in Store \/ p.with = r.access)
Possible(r, seen) == \E p \in seen : Fits(p, r)
Matching(r, seen) == r.ready /\ \E p \in seen : Fits(p, r) /\ p.named

\* Fault: a process that only might be the record's does not hold its files back.
MayCleanAnyway(r, seen) == TRUE
MayClean(r, seen) == Matching(r, seen) \/ ~Possible(r, seen)

\* Which of these records started ten seconds ago at most; those whose client has
\* still to show itself certainly did.
Young(R) == {Y \in SUBSET {r \in R : ~r.ready} :
                \A r \in R : (\E p \in clients : ~p.shown /\ Fits(p, r)) => r \in Y \/ r.ready}

\* What putting a record's files back takes (cleanup_record_files).
Cleanup(r) == IF r.tool \in Store THEN <<[do |-> "restore", tool |-> r.tool],
                                         [do |-> "unmark", tool |-> r.tool]>>
              ELSE <<[do |-> "rmprofile", tool |-> r.tool, access |-> r.access]>>
CleanupAll(R) == FlattenSeq(LET s == SetToSeq(R) IN [i \in DOMAIN s |-> Cleanup(s[i])])
Saving(R) == <<[do |-> "save", list |-> R]>>

\* migrate_legacy_routes
Migration ==
    FlattenSeq(LET s == SetToSeq(Tool) IN [i \in DOMAIN s |->
        LET t == s[i] IN
        <<[do |-> "restore", tool |-> t]>>
        \o (IF t \notin Store /\ marker[t] # "none"
            THEN <<[do |-> "rmprofile", tool |-> t, access |-> marker[t]]>> ELSE <<>>)
        \o <<[do |-> "unmark", tool |-> t]>>])

-----------------------------------------------------------------------------
(***************************************************************************)
(* File operations.  The head of the task's list is carried out.           *)
(***************************************************************************)
Head1 == task.todo[1]
Doing(what) == task.todo # <<>> /\ Head1.do = what
Going == task' = [task EXCEPT !.todo = Tail(@)]
GoingOn(more) == task' = [task EXCEPT !.todo = more \o Tail(@)]

\* restore_snapshot: without a manifest there is nothing to restore; then the
\* directory is removed, its files in any order.
RestoreNothing ==
    /\ Doing("restore")
    /\ snap[Head1.tool].dir \in {"none", "bare"}
    /\ Going
    /\ UNCHANGED <<config, snap, marker, profiles, registry, regfile, setting, clients, faults>>

\* Fault: the backup goes before what it holds is back.
RestoreLate ==
    /\ Doing("restore")
    /\ snap[Head1.tool].dir = "whole"
    /\ snap' = [snap EXCEPT ![Head1.tool] = NoSnap]
    /\ GoingOn(<<[do |-> "route", tool |-> Head1.tool, as |-> snap[Head1.tool].copy]>>)
    /\ UNCHANGED <<config, marker, profiles, registry, regfile, setting, clients, faults>>

Restore ==
    /\ Doing("restore")
    /\ snap[Head1.tool].dir = "whole"
    /\ config' = [config EXCEPT ![Head1.tool] = snap[Head1.tool].copy]
    /\ GoingOn(<<[do |-> "empty", tool |-> Head1.tool]>>)
    /\ UNCHANGED <<snap, marker, profiles, registry, regfile, setting, clients, faults>>

EmptySnap ==
    /\ Doing("empty")
    /\ \E left \in {"bare", "torn"} : snap' = [snap EXCEPT ![Head1.tool].dir = left]
    /\ GoingOn(<<[do |-> "rmdir", tool |-> Head1.tool]>>)
    /\ UNCHANGED <<config, marker, profiles, registry, regfile, setting, clients, faults>>

\* snapshot_files: the copies first, the manifest last.
SnapFiles ==
    /\ \/ /\ Doing("rmdir")
          /\ snap' = [snap EXCEPT ![Head1.tool] = NoSnap]
       \/ /\ Doing("mkdir")
          /\ snap' = [snap EXCEPT ![Head1.tool].dir = IF @ = "none" THEN "bare" ELSE @]
       \/ /\ Doing("manifest")
          /\ snap' = [snap EXCEPT ![Head1.tool] = [dir |-> "whole", copy |-> config[Head1.tool]]]
    /\ Going
    /\ UNCHANGED <<config, marker, profiles, registry, regfile, setting, clients, faults>>

\* apply_claude_route, or codex_config over the user's file.
Route ==
    /\ Doing("route")
    /\ config' = [config EXCEPT ![Head1.tool] = Head1.as]
    /\ Going
    /\ UNCHANGED <<snap, marker, profiles, registry, regfile, setting, clients, faults>>

Mark ==
    /\ Doing("mark") \/ Doing("unmark")
    /\ marker' = [marker EXCEPT ![Head1.tool] = IF Doing("mark") THEN task.access ELSE "none"]
    /\ Going
    /\ UNCHANGED <<config, snap, profiles, registry, regfile, setting, clients, faults>>

Profile ==
    /\ Doing("rmprofile") \/ Doing("mkprofile")
    /\ LET p == <<Head1.tool, Head1.access>> IN
       profiles' = IF Doing("mkprofile") THEN profiles \cup {p} ELSE profiles \ {p}
    /\ Going
    /\ UNCHANGED <<config, snap, marker, registry, regfile, setting, clients, faults>>

Save ==
    /\ Doing("save")
    /\ registry' = Head1.list
    /\ task' = [task EXCEPT !.todo = Tail(@), !.list = Head1.list]
    /\ UNCHANGED <<config, snap, marker, profiles, regfile, setting, clients, faults>>

\* An operation fails, as reading a copy that is gone always does.  What follows
\* depends on the task (Failed below).
Failing ==
    /\ task.todo # <<>>
    /\ \/ Doing("restore") /\ snap[Head1.tool].dir = "torn" /\ faults' = faults
       \/ ~Doing("restore") /\ faults < MaxFaults /\ faults' = faults + 1

-----------------------------------------------------------------------------
(***************************************************************************)
(* launch                                                                  *)
(***************************************************************************)
Files == UNCHANGED <<config, snap, marker, profiles, registry, regfile, setting>>
Ready(pc) == task.pc = pc /\ task.todo = <<>>
RegistryReads == regfile = "fine"
NewRecord == [tool |-> task.tool, access |-> task.access, ready |-> FALSE]

\* Records whose client is gone are pruned, unless they are ten seconds old at
\* most and still starting.
BeginLaunch(t, a) ==
    /\ task.pc = "rest"
    /\ RegistryReads
    /\ LET idle == {r \in registry : ~Possible(r, ListedInstances)} IN
       \E young \in Young(idle) :
         LET stale == idle \ young IN
         task' = [NoTask EXCEPT !.pc = "choose", !.tool = t, !.access = a, !.seen = ListedInstances,
                                 !.list = registry \ stale,
                                 !.todo = CleanupAll(stale) \o Saving(registry \ stale)]
    /\ UNCHANGED <<clients, faults>> /\ Files

Taken == \E r \in task.list : r.tool = task.tool /\ r.access = task.access
Blocked == /\ task.tool \in Store
           /\ \/ \E r \in task.list : r.tool = task.tool
              \/ \E p \in task.seen : p.tool = task.tool

\* A client of this ride is focused instead, and a Store client must be alone.
LaunchNothing ==
    /\ Ready("choose")
    /\ Taken \/ Blocked
    /\ task' = NoTask
    /\ UNCHANGED <<clients, faults>> /\ Files

Prepare ==
    /\ Ready("choose")
    /\ ~Taken /\ ~Blocked
    /\ LET t == task.tool IN
       task' = [task EXCEPT !.pc = "spawn", !.todo =
           (IF t \in Store
            THEN <<[do |-> "restore", tool |-> t], [do |-> "mkdir", tool |-> t],
                   [do |-> "manifest", tool |-> t],
                   [do |-> "route", tool |-> t, as |-> task.access], [do |-> "mark", tool |-> t]>>
            ELSE <<[do |-> "rmprofile", tool |-> t, access |-> task.access],
                   [do |-> "mkprofile", tool |-> t, access |-> task.access]>>)
           \o Saving(task.list \cup {NewRecord})]
    /\ UNCHANGED <<clients, faults>> /\ Files

\* remove_instance_record, without terminating: the client did not start, or has
\* been terminated.
Undo == [task EXCEPT !.pc = "end", !.todo =
            IF NewRecord \in registry THEN Cleanup(NewRecord) \o Saving(registry \ {NewRecord}) ELSE <<>>]

\* A Store client that runs is activated; otherwise a process starts.
Spawn ==
    /\ Ready("spawn")
    /\ LET t == task.tool IN
       \/ /\ clients' = IF t \in Store /\ \E p \in clients : p.tool = t THEN clients
                        ELSE clients \cup {[tool |-> t, ours |-> TRUE, named |-> FALSE,
                                            shown |-> ~Slow,
                                            with |-> IF t \in Store THEN config[t] ELSE task.access]}
          /\ task' = [task EXCEPT !.pc = "wait"]
       \/ /\ task' = Undo
          /\ UNCHANGED clients
    /\ UNCHANGED faults /\ Files

\* wait_for_ready_process: a new process that fits is the client.
SeeReady ==
    /\ Ready("wait")
    /\ \E p \in ListedInstances \ task.seen :
         /\ Fits(p, NewRecord)
         /\ clients' = (clients \ {p}) \cup {[p EXCEPT !.named = TRUE]}
         /\ task' = [task EXCEPT !.pc = "ready",
                !.todo = Saving((task.list \ {NewRecord}) \cup {[NewRecord EXCEPT !.ready = TRUE]})]
    /\ UNCHANGED faults /\ Files

\* Eight seconds pass.  Only a child of this process is terminated and its record
\* removed; otherwise the record stays as a guard.
WaitEnds ==
    /\ Ready("wait")
    /\ \A p \in ListedInstances \ task.seen : ~Fits(p, NewRecord)
    /\ \/ /\ clients' = {p \in clients : p.shown \/ ~(p.ours /\ Fits(p, NewRecord))}
          /\ task' = Undo
       \/ /\ task' = NoTask
          /\ UNCHANGED clients
    /\ UNCHANGED faults /\ Files

\* The ready record could not be saved: the client is terminated, or kept with
\* the starting record on disk as its guard.
Unsaved ==
    /\ Ready("unsaved")
    /\ \/ /\ MayClean([NewRecord EXCEPT !.ready = TRUE], ListedInstances)
          /\ clients' = {p \in clients : ~(p.named /\ Fits(p, NewRecord))}
          /\ task' = Undo
       \/ /\ Possible(NewRecord, ListedInstances)
          /\ task' = NoTask
          /\ UNCHANGED clients
    /\ UNCHANGED faults /\ Files

-----------------------------------------------------------------------------
(***************************************************************************)
(* restore_access, before the passenger leaves, and close_instance; and    *)
(* recover_stale, when the application starts and when it exits.           *)
(***************************************************************************)
BeginRemove(R) ==
    /\ task.pc = "rest"
    /\ RegistryReads
    /\ task' = [NoTask EXCEPT !.pc = "remove", !.left = R, !.list = registry]
    /\ UNCHANGED <<clients, faults>> /\ Files

\* list_instances prunes and saves.
BeginList ==
    /\ task.pc = "rest"
    /\ RegistryReads
    /\ LET idle == {r \in registry : ~Possible(r, ListedInstances)} IN
       \E young \in Young(idle) :
         task' = [NoTask EXCEPT !.pc = "end", !.seen = ListedInstances,
                      !.todo = CleanupAll(idle \ young) \o Saving(registry \ (idle \ young))]
    /\ UNCHANGED <<clients, faults>> /\ Files

BeginRecover ==
    /\ task.pc = "rest"
    /\ \/ /\ regfile = "damaged"
          /\ regfile' = "fine"
          /\ task' = [NoTask EXCEPT !.pc = "end", !.todo = Migration]
       \/ /\ RegistryReads
          /\ task' = [NoTask EXCEPT !.pc = "recover", !.seen = ListedInstances, !.left = registry]
          /\ UNCHANGED regfile
    /\ UNCHANGED <<clients, faults, config, snap, marker, profiles, registry, setting>>

\* The recorded process is terminated; terminating may fail, as it does when the
\* process is gone by then.  One that only might be it keeps the record.
Settle ==
    /\ Ready("remove") \/ Ready("recover")
    /\ \E r \in task.left :
         LET seen == IF task.pc = "remove" THEN ListedInstances ELSE task.seen
             rest == [task EXCEPT !.left = @ \ {r}, !.seen = seen] IN
         \/ /\ MayClean(r, seen)
            /\ Matching(r, seen) => Matching(r, clients)
            /\ clients' = IF Matching(r, seen)
                          THEN {p \in clients : ~(Fits(p, r) /\ p.named)} ELSE clients
            /\ task' = [rest EXCEPT !.about = {r}, !.todo = Cleanup(r) \o
                            (IF task.pc = "remove" THEN Saving(registry \ {r}) ELSE <<>>)]
         \/ /\ Possible(r, seen)
            /\ task' = IF task.pc = "remove" THEN NoTask
                       ELSE [rest EXCEPT !.list = @ \cup {r}]
            /\ UNCHANGED clients
    /\ UNCHANGED faults /\ Files

\* Only when nothing is retained are the routes of older versions put back.
Recovered ==
    /\ Ready("recover")
    /\ task.left = {}
    /\ task' = [task EXCEPT !.pc = "end", !.todo = Saving(task.list)
                   \o (IF task.list = {} THEN Migration ELSE <<>>)]
    /\ UNCHANGED <<clients, faults>> /\ Files

FinishTask ==
    /\ Ready("ready") \/ Ready("end") \/ (Ready("remove") /\ task.left = {})
    /\ task' = NoTask
    /\ UNCHANGED <<clients, faults>> /\ Files

\* What a task does about a failure: preparing rolls back what it has prepared (a
\* Codex configuration that could not be written is left to the next recovery),
\* recovering retains the record, the others give up.
Rollback == IF task.tool \in Store
            THEN <<[do |-> "restore", tool |-> task.tool], [do |-> "unmark", tool |-> task.tool]>>
            ELSE <<[do |-> "rmprofile", tool |-> task.tool, access |-> task.access]>>

Failed ==
    /\ Failing
    /\ task' = CASE task.pc = "spawn" /\ Head1.do \in {"mark", "save", "mkprofile"} ->
                      [task EXCEPT !.pc = "end", !.todo = Rollback]
                 [] task.pc = "ready"   -> [task EXCEPT !.pc = "unsaved", !.todo = <<>>]
                 [] task.pc = "recover" -> [task EXCEPT !.todo = <<>>, !.list = @ \cup task.about]
                 [] OTHER -> NoTask
    /\ UNCHANGED clients /\ Files

\* apply_claude_route puts back what it could not overwrite.
RouteFailed ==
    /\ Failing /\ Doing("route")
    /\ task' = [task EXCEPT !.pc = "end", !.todo = <<[do |-> "restore", tool |-> Head1.tool]>>]
    /\ UNCHANGED clients /\ Files

-----------------------------------------------------------------------------
\* Clients and users.
Appears(p) ==
    /\ ~p.shown
    /\ clients' = (clients \ {p}) \cup {[p EXCEPT !.shown = TRUE]}
    /\ UNCHANGED <<task, faults>> /\ Files

Exits(p) == clients' = clients \ {p} /\ UNCHANGED <<task, faults>> /\ Files

\* It updates itself and runs on as another process.
Renews(p) ==
    /\ p.named
    /\ clients' = (clients \ {p}) \cup {[p EXCEPT !.named = FALSE]}
    /\ UNCHANGED <<task, faults>> /\ Files

UserStarts(t) ==
    /\ \A p \in clients : p.tool # t
    /\ clients' = clients \cup {[tool |-> t, ours |-> FALSE, shown |-> TRUE, named |-> FALSE,
                                 with |-> config[t]]}
    /\ UNCHANGED <<task, faults>> /\ Files

ClientCrash ==
    /\ task.pc # "rest"
    /\ task' = NoTask
    /\ UNCHANGED <<clients, faults>> /\ Files

FileStep == RestoreNothing \/ Restore \/ EmptySnap \/ SnapFiles \/ Route \/ Mark \/ Profile \/ Save

ClientNext ==
    \/ \E t \in Tool, a \in CarAccess : BeginLaunch(t, a)
    \/ \E a \in CarAccess : BeginRemove({r \in registry : r.access = a})
    \/ \E r \in registry : BeginRemove({r})
    \/ BeginList \/ BeginRecover
    \/ FileStep \/ Failed \/ RouteFailed
    \/ LaunchNothing \/ Prepare \/ Spawn \/ SeeReady \/ WaitEnds \/ Unsaved
    \/ Settle \/ Recovered \/ FinishTask
    \/ \E p \in clients : Appears(p) \/ Exits(p) \/ Renews(p)
    \/ \E t \in Tool : UserStarts(t)
    \/ ClientCrash

ClientSpec == ClientInit /\ [][ClientNext]_clientVars

-----------------------------------------------------------------------------
\* Types; a ride has one record of a tool at most.
ConfigTypeOK ==
    /\ setting \in Setting
    /\ config \in [Tool -> CarAccess \cup {"own"}]
    /\ snap \in [Tool -> [dir : {"none", "bare", "whole", "torn"}, copy : CarAccess \cup {"own"}]]
    /\ marker \in [Tool -> CarAccess \cup {"none"}]
    /\ profiles \subseteq Tool \X CarAccess
    /\ registry \subseteq Instance
    /\ regfile \in {"fine", "damaged", "newer"}
    /\ clients \subseteq Process
    /\ faults \in 0..MaxFaults
    /\ \A r, s \in registry : r.tool = s.tool /\ r.access = s.access => r = s

\* Whatever fails, and wherever the application dies, the configuration of a Store
\* client is the user's own or a complete backup holds it.
OriginalKept ==
    \A t \in Store : config[t] = "own" \/ snap[t] = [dir |-> "whole", copy |-> "own"]

\* docs/releases/v0.0.8.md: "Configuration remains untouched whenever a client may
\* still be using its carpool profile".  Where a listing of processes shows a client
\* as soon as it runs, the profile of a client that was started for a ride stays while
\* it lives, and so does the configuration it was started with, whatever is launched,
\* closed, listed or recovered meanwhile and wherever that stops.
UntouchedWhileInUse ==
    [][\A p \in clients \cap clients' : ~Slow /\ p.ours /\ p.with # "own" =>
          /\ <<p.tool, p.with>> \in profiles => <<p.tool, p.with>> \in profiles'
          /\ p.tool \in Store /\ config[p.tool] = p.with => config'[p.tool] = p.with]_clientVars
=============================================================================
