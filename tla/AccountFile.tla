----------------------------- MODULE AccountFile -----------------------------
(***************************************************************************)
(* The account store on disk (account_pool.rs).  Every operation takes the *)
(* store's lock, loads the file (recovering it from a backup or migrating  *)
(* it if need be), and replaces it.  Any step may fail and the process may *)
(* die between any two; on Windows a replacement takes two renames.        *)
(*                                                                         *)
(* A store is the set of facts it records: an account that was imported, a *)
(* setting that was changed.                                               *)
(***************************************************************************)
EXTENDS Naturals

CONSTANTS Fact,       \* what an operation may record or take out
          Build,      \* the builds looked at: "unix", "windows"
          MaxErrors,  \* how often the file system refuses an operation (a bound)
          Absent,     \* there is no such file
          Garbled     \* a file that fails authentication

ASSUME AccountFileAssumption ==
    /\ Build \subseteq {"unix", "windows"}
    /\ MaxErrors \in [Build -> Nat]
    /\ Absent # Garbled

VARIABLES build,      \* which replace_file was compiled in
          main,       \* accounts.json
          bak,        \* accounts.json.bak, left by a replacement
          legacy,     \* accounts.json.v1-authenticated.bak
          prerestore,       \* accounts.json.pre-restore.bak
          op,         \* the operation that holds ACCOUNT_STORE_LOCK
          reply,      \* what the last operation told its caller
          sure,       \* history: facts reported stored and not given up since
          found       \* history: the store as the installation found it

diskVars == <<build, main, bak, legacy, prerestore>>
fileVars == <<build, main, bak, legacy, prerestore, op, reply, sure, found>>

File == [ver : {1, 2}, facts : SUBSET Fact]
ASSUME FilesAreNoMarks == Absent \notin File /\ Garbled \notin File
Readable(f) == f \notin {Absent, Garbled}

\* What load_store makes of the files at this moment.
Stored == IF Readable(main) THEN main.facts
          ELSE IF Readable(bak) THEN bak.facts ELSE {}

Kinds == {"read", "record", "take out", "restore"}

Stages == {"idle", "load", "aside", "migrate", "work", "snapshot", "temp",
           "swap", "gap", "placed", "written", "broken"}

(***************************************************************************)
(* why: what the file is being written for.  read: the facts loaded.       *)
(* goal: the file to be written.  from, to: the facts before the operation *)
(* and those it is to leave.  errs: how often its writes were refused.     *)
(***************************************************************************)
Operation == [pc : Stages, kind : Kinds, arg : SUBSET Fact, read : SUBSET Fact,
              why : {"migrate", "revert", "commit", "rollback"},
              goal : File, from : SUBSET Fact, to : SUBSET Fact, errs : Nat]

Resting(from, to) ==
    [pc |-> "idle", kind |-> "read", arg |-> {}, read |-> {}, why |-> "commit",
     goal |-> [ver |-> 2, facts |-> {}], from |-> from, to |-> to, errs |-> 0]

FileInit ==
    /\ build \in Build
    /\ main \in {Absent} \cup File
    /\ bak = Absent
    /\ legacy = Absent
    /\ prerestore = Absent
    /\ found = main
    /\ reply = "nothing"
    /\ sure = Stored
    /\ op = Resting(Stored, Stored)

-----------------------------------------------------------------------------
At(stage) == op.pc = stage
Goto(stage) == op' = [op EXCEPT !.pc = stage]
Loaded(file) ==
    op' = [op EXCEPT !.read = file.facts,
                     !.pc = IF file.ver = 1 THEN "migrate" ELSE "work"]

\* atomic_write_secure is called with the bytes of a store.
WriteFile(file, why) == op' = [op EXCEPT !.goal = file, !.why = why, !.pc = "temp"]
V2(facts) == [ver |-> 2, facts |-> facts]
V1(facts) == [ver |-> 1, facts |-> facts]

Return(answer) ==
    /\ op' = Resting(op.from, op.to)
    /\ reply' = answer
Fail == Return("failed") /\ UNCHANGED sure

\* A caller takes the lock.  What it asks to be taken out it no longer counts on.
Call(kind, arg) ==
    /\ At("idle")
    /\ op' = [op EXCEPT !.kind = kind, !.arg = arg, !.pc = "load"]
    /\ sure' = IF kind = "take out" THEN sure \ arg
               ELSE IF kind = "restore" THEN sure \cap arg ELSE sure
    /\ UNCHANGED <<diskVars, reply, found>>

SomeCall ==
    \/ Call("read", {})
    \/ \E x \in Fact : Call("record", {x}) \/ Call("take out", {x})
    \/ \E facts \in SUBSET Fact : Call("restore", facts)

(***************************************************************************)
(* load_store.  A backup that is left beside a sound store is discarded if *)
(* that is possible; one beside a damaged or missing store replaces it.    *)
(***************************************************************************)
LoadMain ==
    /\ At("load")
    /\ Readable(main)
    /\ Loaded(main)
    /\ bak' \in {bak, Absent}
    /\ UNCHANGED <<build, main, legacy, prerestore, reply, sure, found>>

\* Fault: a missing store is an empty one, whatever its backup holds.
LoadNothingAtAll ==
    /\ At("load")
    /\ main = Absent
    /\ Loaded(V2({}))
    /\ UNCHANGED <<diskVars, reply, sure, found>>

LoadNothing ==
    /\ At("load")
    /\ main = Absent /\ bak = Absent
    /\ Loaded(V2({}))
    /\ UNCHANGED <<diskVars, reply, sure, found>>

\* recover_store_backup, second rename; the file may be in place and yet the
\* operation fail, when it cannot be secured or synced.
TakeBackup ==
    /\ main' = bak
    /\ bak' = Absent
    /\ \/ Loaded(bak) /\ UNCHANGED <<reply, sure>>
       \/ Fail
    /\ UNCHANGED <<build, legacy, prerestore, found>>

RecoverMissing ==
    /\ At("load")
    /\ main = Absent /\ Readable(bak)
    /\ TakeBackup

\* A damaged store is renamed out of the way first, and back if its backup
\* cannot be renamed into its place.
SetAside ==
    /\ At("load")
    /\ main = Garbled /\ Readable(bak)
    /\ main' = Absent
    /\ Goto("aside")
    /\ UNCHANGED <<build, bak, legacy, prerestore, reply, sure, found>>

RecoverDamaged ==
    /\ At("aside")
    /\ \/ TakeBackup
       \/ /\ main' \in {Garbled, Absent}
          /\ Fail
          /\ UNCHANGED <<build, bak, legacy, prerestore, found>>

\* An error of the file system, or a damaged store without a sound backup.
LoadFails ==
    /\ At("load")
    /\ Fail
    /\ UNCHANGED <<diskVars, found>>

(***************************************************************************)
(* migrate_store_v1: the version 1 file is copied aside once, then saved   *)
(* as version 2; when that fails the original is written back.             *)
(***************************************************************************)
Migrate ==
    /\ At("migrate")
    /\ legacy' = IF legacy = Absent THEN main ELSE legacy
    /\ WriteFile(V2(op.read), "migrate")
    /\ UNCHANGED <<build, main, bak, prerestore, reply, sure, found>>

MigrateFails ==
    /\ At("migrate") /\ legacy = Absent
    /\ Fail
    /\ UNCHANGED <<diskVars, found>>

(***************************************************************************)
(* The store is loaded.  Reading returns; the others work out the store    *)
(* they want and save it, a replacing restore behind a snapshot.           *)
(***************************************************************************)
Changed == CASE op.kind = "record"   -> op.read \cup op.arg
             [] op.kind = "take out" -> op.read \ op.arg
             [] OTHER                -> op.arg

Reading ==
    /\ At("work")
    /\ op.kind = "read" \/ (op.kind = "take out" /\ op.arg \cap op.read = {})
    /\ Return("done")
    /\ UNCHANGED <<diskVars, sure, found>>

Changing ==
    /\ At("work")
    /\ op.kind # "read"
    /\ op.kind = "take out" => op.arg \cap op.read # {}
    /\ op' = [op EXCEPT !.from = op.read, !.to = Changed, !.goal = V2(Changed),
                        !.why = "commit",
                        !.pc = IF op.kind = "restore" THEN "snapshot" ELSE "temp"]
    /\ UNCHANGED <<diskVars, reply, sure, found>>

Snapshot ==
    /\ At("snapshot")
    /\ \/ prerestore' = V2(op.read) /\ Goto("temp") /\ UNCHANGED <<reply, sure>>
       \/ prerestore' = prerestore /\ Fail
    /\ UNCHANGED <<build, main, bak, legacy, found>>

(***************************************************************************)
(* atomic_write_secure and replace_file, up to "written" or "broken".      *)
(***************************************************************************)
\* The file system refuses n times, and the write is given up.
Refuse(n) ==
    /\ op.errs + n <= MaxErrors[build]
    /\ op' = [op EXCEPT !.pc = "broken", !.errs = op.errs + n]

WriteTemp ==
    /\ At("temp")
    /\ Goto("swap")
    /\ UNCHANGED <<diskVars, reply, sure, found>>

PlaceStore(b) ==
    /\ main' = op.goal
    /\ bak' = b
    /\ Goto("placed")
    /\ UNCHANGED <<build, legacy, prerestore, reply, sure, found>>

SwapOnUnix == At("swap") /\ build = "unix" /\ PlaceStore(bak)

\* An older backup is discarded before the store becomes the backup.
DiscardBackup ==
    /\ At("swap") /\ build = "windows" /\ bak # Absent
    /\ bak' = Absent
    /\ UNCHANGED <<build, main, legacy, prerestore, op, reply, sure, found>>

\* Fault: the store is removed before its replacement is renamed.
MoveAwayRemoved ==
    /\ At("swap") /\ build = "windows" /\ bak = Absent /\ main # Absent
    /\ main' = Absent
    /\ Goto("gap")
    /\ UNCHANGED <<build, bak, legacy, prerestore, reply, sure, found>>

MoveAway ==
    /\ At("swap") /\ build = "windows" /\ bak = Absent /\ main # Absent
    /\ bak' = main
    /\ main' = Absent
    /\ Goto("gap")
    /\ UNCHANGED <<build, legacy, prerestore, reply, sure, found>>

FillGap ==
    \/ At("gap") /\ PlaceStore(bak)
    \/ At("swap") /\ build = "windows" /\ bak = Absent /\ main = Absent /\ PlaceStore(bak)

\* The second rename is refused; the first is undone, unless that is refused too.
UndoMove ==
    /\ At("gap")
    /\ \/ Refuse(1) /\ main' = bak /\ bak' = Absent
       \/ Refuse(2) /\ main' = main /\ bak' = bak
    /\ UNCHANGED <<build, legacy, prerestore, reply, sure, found>>

FinishSwap ==
    /\ At("placed")
    /\ bak' = IF build = "windows" THEN Absent ELSE bak
    /\ Goto("written")
    /\ UNCHANGED <<build, main, legacy, prerestore, reply, sure, found>>

\* The temporary file, a rename, the securing or the clean-up is refused.
Break ==
    /\ At("temp") \/ At("swap") \/ At("placed")
    /\ Refuse(1)
    /\ UNCHANGED <<diskVars, reply, sure, found>>

Replacement == WriteTemp \/ SwapOnUnix \/ DiscardBackup \/ MoveAway \/ FillGap
                 \/ UndoMove \/ FinishSwap \/ Break

(***************************************************************************)
(* What the caller of the write makes of its result.                       *)
(***************************************************************************)
RollBack == WriteFile(prerestore, "rollback") /\ UNCHANGED <<diskVars, reply, sure, found>>

Migrated ==
    /\ At("written") /\ op.why = "migrate"
    /\ Goto("work")
    /\ UNCHANGED <<diskVars, reply, sure, found>>

Committed ==
    /\ At("written") /\ op.why = "commit"
    /\ Return("done")
    /\ sure' = IF op.kind = "record" THEN sure \cup op.arg
               ELSE IF op.kind = "restore" THEN op.arg ELSE sure
    /\ UNCHANGED <<diskVars, found>>

\* commit_prepared_restore reads the store back; it may not be able to.
Unverified ==
    /\ At("written") /\ op.why = "commit" /\ op.kind = "restore"
    /\ RollBack

WriteBack ==
    /\ At("broken") /\ op.why = "migrate"
    /\ WriteFile(V1(op.read), "revert")
    /\ UNCHANGED <<diskVars, reply, sure, found>>

NotCommitted ==
    /\ At("broken") /\ op.why = "commit" /\ op.kind = "restore"
    /\ RollBack

RolledBack ==
    /\ At("written") /\ op.why = "rollback"
    /\ Return("undone")
    /\ UNCHANGED <<diskVars, sure, found>>

GivenUp ==
    /\ \/ At("broken") /\ op.why # "migrate" /\ ~(op.why = "commit" /\ op.kind = "restore")
       \/ At("written") /\ op.why = "revert"
    /\ Fail
    /\ UNCHANGED <<diskVars, found>>

Outcome == Migrated \/ Committed \/ Unverified \/ WriteBack \/ NotCommitted
             \/ RolledBack \/ GivenUp

\* The process dies, at any point; a store that was just put in place beside
\* its backup may turn out to be torn.
Die ==
    /\ op' = Resting(op.from, op.to)
    /\ reply' = "nothing"
    /\ main' \in {main} \cup (IF At("placed") /\ bak # Absent THEN {Garbled} ELSE {})
    /\ UNCHANGED <<build, bak, legacy, prerestore, sure, found>>

FileNext ==
    \/ SomeCall
    \/ LoadMain \/ LoadNothing \/ RecoverMissing \/ SetAside \/ RecoverDamaged
    \/ LoadFails \/ Migrate \/ MigrateFails
    \/ Reading \/ Changing \/ Snapshot
    \/ Replacement \/ Outcome
    \/ Die

FileSpec == FileInit /\ [][FileNext]_fileVars

-----------------------------------------------------------------------------
\* Types; what is written is always a store, also when a restore is rolled back.
AccountFileTypeOK ==
    /\ build \in Build
    /\ {main, bak, legacy, prerestore, found} \subseteq {Absent, Garbled} \cup File
    /\ op \in Operation
    /\ reply \in {"nothing", "done", "failed", "undone"}
    /\ sure \subseteq Fact

\* Whatever fails and whenever the process dies, the store reads as it did before
\* the operation or as the operation wants it, an operation reported done has
\* taken effect and one reported rolled back has not.
Busy == /\ op.pc \in {"snapshot", "temp", "swap", "gap", "placed", "written", "broken"}
        /\ op.why \in {"commit", "rollback"}

Promise == INSTANCE AtomicFile WITH
    Value <- SUBSET Fact, value <- Stored, busy <- Busy,
    before <- op.from, wanted <- op.to, told <- reply

AccountsReplacedWhole == Promise!ASpec

\* What a caller was told is stored is found by every later load: no recovery
\* from a backup, migration, failed write or rollback takes it away.
SureFactsStored == sure \subseteq Stored

\* CHANGELOG.md: reading a version 1 store keeps an authenticated copy of it.  Once
\* the store is version 2 the copy is there and is the file that was migrated.
LegacyIsKept ==
    found # Absent /\ found.ver = 1 /\ Readable(main) /\ main.ver = 2 => legacy = found

\* Neither what was reported stored nor the file of an older version is lost.
StoreIsKept == SureFactsStored /\ LegacyIsKept
=============================================================================
