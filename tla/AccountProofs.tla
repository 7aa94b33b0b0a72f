--------------------------- MODULE AccountProofs ---------------------------
(***************************************************************************)
(* Proofs about the accounts of a host: the store on disk (AccountFile),   *)
(* the previews of imports and restores (AccountTransfer) and the official *)
(* quotas (Quotas), for any facts, previews, passphrases, lifetimes, cars, *)
(* tools and accounts.                                                     *)
(***************************************************************************)
EXTENDS AccountFile, AccountTransfer, Quotas, FiniteSetTheorems, TLAPS

-----------------------------------------------------------------------------
(***************************************************************************)
(* AccountFile. The invariant says where the store is at each stage of an  *)
(* operation, and that what it records may be taken for the store before   *)
(* or after the operation; it says of the store's callers what each stage  *)
(* still has to take from them. It holds where Windows refuses at most one *)
(* step of an operation: after two, the store may be missing, and the      *)
(* write that is to put it right discards its backup first (replace_file). *)
(***************************************************************************)

\* On Windows the file system refuses one step of an operation at most.
OneRefusal == MaxErrors["windows"] <= 1

Replacing == {"temp", "swap", "gap", "placed", "written", "broken"}

\* What the store may hold while its file is replaced.
Allowed == IF op.why \in {"migrate", "revert"} THEN {op.read} ELSE {op.from, op.to}

FileTypes ==
  /\ build \in Build
  /\ main \in {Absent, Garbled} \cup File
  /\ {bak, found} \subseteq {Absent} \cup File
  /\ {legacy, prerestore} \subseteq {Absent, Garbled} \cup File
  /\ op \in Operation
  /\ reply \in {"nothing", "done", "failed", "undone"}
  /\ sure \subseteq Fact

\* Where the store is: the file or, between two renames and after a crash
\* there, its backup.
FilesAreThere ==
  /\ op.pc \in {"idle", "load"} => (main = Garbled => bak # Absent)
  /\ op.pc \in {"aside", "gap"} => main = Absent /\ bak # Absent
  /\ op.pc \notin {"idle", "load", "aside", "gap"} =>
        main # Garbled /\ (main = Absent => bak = Absent)
  /\ op.pc = "migrate" => main # Absent
  /\ op.pc \in {"placed", "written"} => main = op.goal
  /\ build = "unix" => bak = Absent /\ main # Garbled

\* What is in it.
FactsAreThere ==
  /\ sure \subseteq Stored
  /\ op.pc \in {"migrate", "work", "snapshot"} => Stored = op.read
  /\ op.pc \in Replacing => Stored \in Allowed /\ op.goal.facts \in Allowed
  /\ op.pc = "placed" /\ bak # Absent => bak.facts \in Allowed

\* What the operation is about to write, and that it takes nothing away that
\* anyone counts on.
GoalsAreSound ==
  /\ op.kind = "take out" => sure \cap op.arg = {}
  /\ op.kind = "restore" => sure \subseteq op.arg
  /\ op.pc \in Replacing \cup {"snapshot"} /\ op.why \in {"commit", "rollback"} =>
        /\ sure \subseteq op.from /\ sure \subseteq op.to
        /\ op.kind = "record" => op.arg \subseteq op.to
        /\ op.kind = "restore" => op.arg = op.to
        /\ op.goal.facts = IF op.why = "commit" THEN op.to ELSE op.from
        /\ op.pc # "snapshot" /\ op.kind = "restore" => prerestore = V2(op.from)
  /\ op.pc = "snapshot" => op.why = "commit" /\ op.from = op.read

\* The file of an older version is there, or the copy that was made of it.
OriginalIsThere ==
  found \in File /\ found.ver = 1 =>
    \/ legacy = found
    \/ /\ legacy = Absent /\ main = found /\ bak = Absent
       /\ op.pc \in {"idle", "load", "migrate"}

FileInv == FileTypes /\ FilesAreThere /\ FactsAreThere /\ GoalsAreSound /\ OriginalIsThere

-----------------------------------------------------------------------------
\* A call; what its caller asks to be taken out it no longer counts on.
LEMMA CallKeeps ==
  ASSUME FileInv, NEW kind \in Kinds, NEW arg \in SUBSET Fact, Call(kind, arg)
  PROVE  FileInv'
<1> USE FilesAreNoMarks, AccountFileAssumption DEF FileInv, FileTypes, At, diskVars, File, Operation
<1>1. op' \in Operation /\ sure' \subseteq sure
  BY DEF Call, Stages, Kinds
<1>2. /\ UNCHANGED <<diskVars, reply, found>> /\ op.pc = "idle" /\ op'.pc = "load"
      /\ op'.kind = kind /\ op'.arg = arg
      /\ kind = "take out" => sure' = sure \ arg
      /\ kind = "restore" => sure' = sure \cap arg
  BY DEF Call
<1>3. FileTypes'
  BY <1>1, <1>2
<1>4. FilesAreThere'
  BY <1>1, <1>2 DEF FilesAreThere
<1>5. FactsAreThere'
  BY <1>1, <1>2 DEF FactsAreThere, Stored, Readable, Replacing
<1>6. GoalsAreSound'
  BY <1>1, <1>2 DEF GoalsAreSound, Replacing
<1>7. OriginalIsThere'
  BY <1>1, <1>2 DEF OriginalIsThere
<1> QED BY <1>3, <1>4, <1>5, <1>6, <1>7

\* Any of the calls there are.
LEMMA SomeCallKeeps ==
  ASSUME FileInv, SomeCall
  PROVE  FileInv'
  BY CallKeeps DEF SomeCall, Kinds

\* Loading a sound store, with or without a backup beside it.
LEMMA LoadMainKeeps ==
  ASSUME FileInv, LoadMain
  PROVE  FileInv'
<1> USE FilesAreNoMarks, AccountFileAssumption
      DEF FileInv, FileTypes, Operation, File, LoadMain, At, diskVars, Loaded
<1>1. FileTypes'
  <2> HIDE DEF Operation, File
  <2>1. main \in File /\ main.facts \in SUBSET Fact
    BY DEF Readable, File
  <2>2. op' \in Operation
    BY <2>1 DEF Operation, Stages
  <2> QED BY <2>2
<1>2. FilesAreThere'
  BY DEF FilesAreThere, Readable
<1>3. FactsAreThere'
  BY DEF FilesAreThere, FactsAreThere, GoalsAreSound, Replacing, Allowed, Stored, Readable
<1>4. GoalsAreSound'
  BY DEF FactsAreThere, GoalsAreSound, Replacing
<1>5. OriginalIsThere'
  BY DEF FilesAreThere, OriginalIsThere, Readable
<1> QED BY <1>1, <1>2, <1>3, <1>4, <1>5

\* There is neither store nor backup.
LEMMA LoadNothingKeeps ==
  ASSUME FileInv, LoadNothing
  PROVE  FileInv'
<1> USE FilesAreNoMarks, AccountFileAssumption
      DEF FileInv, FileTypes, Operation, File, LoadNothing, At, diskVars, Loaded, V2
<1>1. FileTypes'
  BY DEF Stages
<1>2. FilesAreThere'
  BY DEF FilesAreThere, Readable
<1>3. FactsAreThere'
  BY DEF FilesAreThere, FactsAreThere, GoalsAreSound, Replacing, Allowed, Stored, Readable
<1>4. GoalsAreSound'
  BY DEF FactsAreThere, GoalsAreSound, Replacing
<1>5. OriginalIsThere'
  BY DEF FilesAreThere, OriginalIsThere, Readable
<1> QED BY <1>1, <1>2, <1>3, <1>4, <1>5

\* The backup takes the place of a store that is missing or damaged.
LEMMA TakeBackupKeeps ==
  ASSUME FileInv, op.pc \in {"load", "aside"}, ~Readable(main), bak # Absent, TakeBackup
  PROVE  FileInv'
<1> USE FilesAreNoMarks, AccountFileAssumption DEF FileInv, FileTypes
<1>1. /\ main' = bak /\ bak' = Absent /\ bak \in File /\ Stored = bak.facts /\ Stored' = Stored
      /\ UNCHANGED <<build, legacy, prerestore, found>>
  BY DEF TakeBackup, Stored, Readable, File
<1>2. /\ UNCHANGED sure
      /\ \/ op' = [op EXCEPT !.read = bak.facts, !.pc = IF bak.ver = 1 THEN "migrate" ELSE "work"]
            /\ UNCHANGED reply
         \/ op' = Resting(op.from, op.to) /\ reply' = "failed"
  BY DEF TakeBackup, Loaded, Fail, Return
<1>3. /\ op' \in Operation
      /\ op'.pc \in {"idle", "migrate", "work"}
      /\ op'.pc # "idle" => op'.read = bak.facts
      /\ op'.kind = "read" \/ (op'.kind = op.kind /\ op'.arg = op.arg)
  <2>1. CASE op' = [op EXCEPT !.read = bak.facts, !.pc = IF bak.ver = 1 THEN "migrate" ELSE "work"]
    <3>1. bak.facts \in SUBSET Fact
      BY <1>1 DEF File
    <3> QED BY <2>1, <3>1 DEF Operation, Stages
  <2>2. CASE op' = Resting(op.from, op.to)
    BY <2>2 DEF Operation, Stages, Kinds, Resting, File
  <2> QED BY <1>2, <2>1, <2>2
<1>5. FileTypes'
  BY <1>1, <1>2, <1>3
<1>6. FilesAreThere'
  BY <1>1, <1>3 DEF FilesAreThere
<1>7. FactsAreThere'
  BY <1>1, <1>2, <1>3 DEF FactsAreThere, Replacing
<1>8. GoalsAreSound'
  BY <1>1, <1>2, <1>3 DEF GoalsAreSound, Replacing
<1>9. OriginalIsThere'
  BY <1>1, <1>3 DEF OriginalIsThere
<1> QED BY <1>5, <1>6, <1>7, <1>8, <1>9

\* The store is missing and its backup takes its place.
LEMMA RecoverMissingKeeps ==
  ASSUME FileInv, RecoverMissing
  PROVE  FileInv'
<1>1. op.pc \in {"load", "aside"} /\ ~Readable(main) /\ bak # Absent /\ TakeBackup
  BY DEF RecoverMissing, At, Readable
<1> QED BY <1>1, TakeBackupKeeps


\* A damaged store is set aside for its backup.
LEMMA SetAsideKeeps ==
  ASSUME FileInv, SetAside
  PROVE  FileInv'
<1> USE FilesAreNoMarks, AccountFileAssumption
      DEF FileInv, FileTypes, Operation, File, SetAside, At, diskVars, Goto
<1>1. FileTypes'
  BY DEF Stages
<1>2. FilesAreThere'
  BY DEF FilesAreThere, Readable
<1>3. FactsAreThere'
  BY DEF FilesAreThere, FactsAreThere, GoalsAreSound, Replacing, Allowed, Stored, Readable
<1>4. GoalsAreSound'
  BY DEF FactsAreThere, GoalsAreSound, Replacing
<1>5. OriginalIsThere'
  BY DEF FilesAreThere, OriginalIsThere, Readable
<1> QED BY <1>1, <1>2, <1>3, <1>4, <1>5

\* The backup takes its place, or the recovery fails.
LEMMA RecoverDamagedKeeps ==
  ASSUME FileInv, RecoverDamaged
  PROVE  FileInv'
<1> USE FilesAreNoMarks, AccountFileAssumption DEF FileInv, FileTypes
<1>1. op.pc = "aside" /\ main = Absent /\ bak # Absent /\ ~Readable(main)
  BY DEF RecoverDamaged, At, FilesAreThere, Readable
<1>2. CASE TakeBackup
  BY <1>1, <1>2, TakeBackupKeeps
<1>3. CASE /\ main' \in {Garbled, Absent}
           /\ Fail
           /\ UNCHANGED <<build, bak, legacy, prerestore, found>>
  <2>1. op' = Resting(op.from, op.to) /\ reply' = "failed" /\ UNCHANGED sure
    BY <1>3 DEF Fail, Return
  <2>2. op' \in Operation /\ op'.pc = "idle" /\ op'.kind = "read"
    BY <2>1 DEF Resting, Operation, Stages, Kinds, File
  <2>3. FileTypes'
    BY <1>3, <2>1, <2>2
  <2>4. FilesAreThere'
    BY <1>1, <1>3, <2>2 DEF FilesAreThere
  <2>5. FactsAreThere'
    BY <1>1, <1>3, <2>1, <2>2 DEF FactsAreThere, Replacing, Stored, Readable
  <2>6. GoalsAreSound'
    BY <2>2 DEF GoalsAreSound, Replacing
  <2>7. OriginalIsThere'
    BY <1>1, <1>3 DEF OriginalIsThere
  <2> QED BY <2>3, <2>4, <2>5, <2>6, <2>7
<1> QED BY <1>2, <1>3 DEF RecoverDamaged

\* The load fails.
LEMMA LoadFailsKeeps ==
  ASSUME FileInv, LoadFails
  PROVE  FileInv'
<1> USE FilesAreNoMarks, AccountFileAssumption
      DEF FileInv, FileTypes, Operation, File, LoadFails, At, diskVars, Fail, Return, Resting
<1>1. FileTypes'
  BY DEF Stages, Kinds
<1>2. FilesAreThere'
  BY DEF FilesAreThere, Readable
<1>3. FactsAreThere'
  BY DEF FilesAreThere, FactsAreThere, GoalsAreSound, Replacing, Allowed, Stored, Readable
<1>4. GoalsAreSound'
  BY DEF FactsAreThere, GoalsAreSound, Replacing
<1>5. OriginalIsThere'
  BY DEF FilesAreThere, OriginalIsThere, Readable
<1> QED BY <1>1, <1>2, <1>3, <1>4, <1>5

\* A store of version 1 is copied before it is written anew.
LEMMA MigrateKeeps ==
  ASSUME FileInv, Migrate
  PROVE  FileInv'
<1> USE FilesAreNoMarks, AccountFileAssumption
      DEF FileInv, FileTypes, Operation, File, Migrate, At, diskVars, WriteFile, V2
<1>1. FileTypes'
  BY DEF Stages
<1>2. FilesAreThere'
  BY DEF FilesAreThere, Readable
<1>3. FactsAreThere'
  BY DEF FilesAreThere, FactsAreThere, GoalsAreSound, Replacing, Allowed, Stored, Readable
<1>4. GoalsAreSound'
  BY DEF FactsAreThere, GoalsAreSound, Replacing
<1>5. OriginalIsThere'
  BY DEF FilesAreThere, OriginalIsThere, Readable
<1> QED BY <1>1, <1>2, <1>3, <1>4, <1>5

\* The copy fails, and nothing is written.
LEMMA MigrateFailsKeeps ==
  ASSUME FileInv, MigrateFails
  PROVE  FileInv'
<1> USE FilesAreNoMarks, AccountFileAssumption
      DEF FileInv, FileTypes, Operation, File, MigrateFails, At, diskVars, Fail, Return, Resting
<1>1. FileTypes'
  BY DEF Stages, Kinds
<1>2. FilesAreThere'
  BY DEF FilesAreThere, Readable
<1>3. FactsAreThere'
  BY DEF FilesAreThere, FactsAreThere, GoalsAreSound, Replacing, Allowed, Stored, Readable
<1>4. GoalsAreSound'
  BY DEF FactsAreThere, GoalsAreSound, Replacing
<1>5. OriginalIsThere'
  BY DEF FilesAreThere, OriginalIsThere, Readable
<1> QED BY <1>1, <1>2, <1>3, <1>4, <1>5

\* The operation had nothing to write.
LEMMA ReadingKeeps ==
  ASSUME FileInv, Reading
  PROVE  FileInv'
<1> USE FilesAreNoMarks, AccountFileAssumption
      DEF FileInv, FileTypes, Operation, File, Reading, At, diskVars, Return, Resting
<1>1. FileTypes'
  BY DEF Stages, Kinds
<1>2. FilesAreThere'
  BY DEF FilesAreThere, Readable
<1>3. FactsAreThere'
  BY DEF FilesAreThere, FactsAreThere, GoalsAreSound, Replacing, Allowed, Stored, Readable
<1>4. GoalsAreSound'
  BY DEF FactsAreThere, GoalsAreSound, Replacing
<1>5. OriginalIsThere'
  BY DEF FilesAreThere, OriginalIsThere, Readable
<1> QED BY <1>1, <1>2, <1>3, <1>4, <1>5

\* The operation works out the store it wants.
LEMMA ChangingKeeps ==
  ASSUME FileInv, Changing
  PROVE  FileInv'
<1> USE FilesAreNoMarks, AccountFileAssumption DEF FileInv, FileTypes
<1> DEFINE to == Changed
           pc == IF op.kind = "restore" THEN "snapshot" ELSE "temp"
<1>1. /\ to \in SUBSET Fact
      /\ sure \subseteq to
      /\ op.kind = "record" => op.arg \subseteq to
      /\ op.kind = "restore" => op.arg = to
  BY DEF Changing, Changed, At, FactsAreThere, GoalsAreSound, Operation, Kinds
<1>2. /\ op.pc = "work" /\ UNCHANGED <<diskVars, reply, sure, found>>
      /\ op' = [op EXCEPT !.from = op.read, !.to = to, !.goal = V2(to), !.why = "commit", !.pc = pc]
  BY DEF Changing, At
<1> HIDE DEF to
<1>3. op.read \in SUBSET Fact /\ V2(to) \in File /\ V2(to).facts = to /\ pc \in Stages
  BY <1>1 DEF Operation, V2, File, Stages
<1>4. /\ op' \in Operation
      /\ op'.pc = pc /\ op'.from = op.read /\ op'.to = to /\ op'.goal = V2(to) /\ op'.why = "commit"
      /\ op'.read = op.read /\ op'.kind = op.kind /\ op'.arg = op.arg
  BY <1>1, <1>2, <1>3 DEF Operation
<1>5. FileTypes'
  BY <1>2, <1>4 DEF diskVars
<1>6. FilesAreThere'
  BY <1>2, <1>4 DEF diskVars, FilesAreThere
<1>7. FactsAreThere'
  BY <1>2, <1>3, <1>4 DEF diskVars, FactsAreThere, Allowed, Replacing, Stored, Readable
<1>8. GoalsAreSound'
  <2>1. sure \subseteq op.read
    BY <1>2 DEF FactsAreThere
  <2> QED BY <1>1, <1>2, <1>3, <1>4, <2>1 DEF diskVars, GoalsAreSound, Replacing
<1>9. OriginalIsThere'
  BY <1>2 DEF diskVars, OriginalIsThere
<1> QED BY <1>5, <1>6, <1>7, <1>8, <1>9

\* A replacing restore keeps the store it replaces.
LEMMA SnapshotKeeps ==
  ASSUME FileInv, Snapshot
  PROVE  FileInv'
<1> USE FilesAreNoMarks, AccountFileAssumption DEF FileInv, FileTypes
<1>1. op.pc = "snapshot" /\ UNCHANGED <<build, main, bak, legacy, sure, found>>
  BY DEF Snapshot, At, Fail
<1>2. CASE prerestore' = V2(op.read) /\ Goto("temp") /\ UNCHANGED reply
  <2>1. /\ op' \in Operation /\ op'.pc = "temp" /\ op'.read = op.read /\ op'.kind = op.kind
        /\ op'.arg = op.arg /\ op'.why = op.why /\ op'.goal = op.goal
        /\ op'.from = op.from /\ op'.to = op.to
    BY <1>2 DEF Goto, Operation, Stages
  <2>2. V2(op.read) \in File
    BY DEF Operation, V2, File
  <2>3. FileTypes'
    BY <1>1, <1>2, <2>1, <2>2
  <2>4. FilesAreThere'
    BY <1>1, <2>1 DEF FilesAreThere
  <2>5. FactsAreThere'
    BY <1>1, <2>1 DEF FactsAreThere, GoalsAreSound, Allowed, Replacing, Stored, Readable
  <2>6. GoalsAreSound'
    BY <1>1, <1>2, <2>1 DEF GoalsAreSound, Replacing
  <2>7. OriginalIsThere'
    BY <1>1 DEF OriginalIsThere
  <2> QED BY <2>3, <2>4, <2>5, <2>6, <2>7
<1>3. CASE prerestore' = prerestore /\ Fail
  <2>1. /\ op' = Resting(op.from, op.to) /\ reply' = "failed"
        /\ op' \in Operation /\ op'.pc = "idle" /\ op'.kind = "read"
    BY <1>3 DEF Fail, Return, Resting, Operation, Stages, Kinds, File
  <2>2. FileTypes'
    BY <1>1, <1>3, <2>1
  <2>3. FilesAreThere'
    BY <1>1, <2>1 DEF FilesAreThere
  <2>4. FactsAreThere'
    BY <1>1, <2>1 DEF FactsAreThere, Replacing, Stored, Readable
  <2>5. GoalsAreSound'
    BY <2>1 DEF GoalsAreSound, Replacing
  <2>6. OriginalIsThere'
    BY <1>1 DEF OriginalIsThere
  <2> QED BY <2>2, <2>3, <2>4, <2>5, <2>6
<1> QED BY <1>1, <1>2, <1>3 DEF Snapshot

\* The new store is in a temporary file.
LEMMA WriteTempKeeps ==
  ASSUME FileInv, WriteTemp
  PROVE  FileInv'
<1> USE FilesAreNoMarks, AccountFileAssumption
      DEF FileInv, FileTypes, Operation, File, WriteTemp, At, diskVars, Goto
<1>1. FileTypes'
  BY DEF Stages
<1>2. FilesAreThere'
  BY DEF FilesAreThere, Readable
<1>3. FactsAreThere'
  BY DEF FilesAreThere, FactsAreThere, GoalsAreSound, Replacing, Allowed, Stored, Readable
<1>4. GoalsAreSound'
  BY DEF FactsAreThere, GoalsAreSound, Replacing
<1>5. OriginalIsThere'
  BY DEF FilesAreThere, OriginalIsThere, Readable
<1> QED BY <1>1, <1>2, <1>3, <1>4, <1>5

\* One rename puts it in place.
LEMMA SwapOnUnixKeeps ==
  ASSUME FileInv, SwapOnUnix
  PROVE  FileInv'
<1> USE FilesAreNoMarks, AccountFileAssumption
      DEF FileInv, FileTypes, Operation, File, SwapOnUnix, At, diskVars, PlaceStore, Goto
<1>1. FileTypes'
  BY DEF Stages
<1>2. FilesAreThere'
  BY DEF FilesAreThere, Readable
<1>3. FactsAreThere'
  BY DEF FilesAreThere, FactsAreThere, GoalsAreSound, Replacing, Allowed, Stored, Readable
<1>4. GoalsAreSound'
  BY DEF FactsAreThere, GoalsAreSound, Replacing
<1>5. OriginalIsThere'
  BY DEF FilesAreThere, OriginalIsThere, Readable
<1> QED BY <1>1, <1>2, <1>3, <1>4, <1>5

\* An older backup goes: with one refusal at most, only beside a store.
LEMMA DiscardBackupKeeps ==
  ASSUME FileInv, DiscardBackup
  PROVE  FileInv'
<1> USE FilesAreNoMarks, AccountFileAssumption
      DEF FileInv, FileTypes, Operation, File, DiscardBackup, At, diskVars
<1>1. FileTypes'
  BY DEF Stages
<1>2. FilesAreThere'
  BY DEF FilesAreThere, Readable
<1>3. FactsAreThere'
  BY DEF FilesAreThere, FactsAreThere, GoalsAreSound, Replacing, Allowed, Stored, Readable
<1>4. GoalsAreSound'
  BY DEF FactsAreThere, GoalsAreSound, Replacing
<1>5. OriginalIsThere'
  BY DEF FilesAreThere, OriginalIsThere, Readable
<1> QED BY <1>1, <1>2, <1>3, <1>4, <1>5

\* The store becomes the backup.
LEMMA MoveAwayKeeps ==
  ASSUME FileInv, MoveAway
  PROVE  FileInv'
<1> USE FilesAreNoMarks, AccountFileAssumption
      DEF FileInv, FileTypes, Operation, File, MoveAway, At, diskVars, Goto
<1>1. FileTypes'
  BY DEF Stages, FilesAreThere
<1>2. FilesAreThere'
  BY DEF FilesAreThere, Readable
<1>3. FactsAreThere'
  BY DEF FilesAreThere, FactsAreThere, GoalsAreSound, Replacing, Allowed, Stored, Readable
<1>4. GoalsAreSound'
  BY DEF FactsAreThere, GoalsAreSound, Replacing
<1>5. OriginalIsThere'
  BY DEF FilesAreThere, OriginalIsThere, Readable
<1> QED BY <1>1, <1>2, <1>3, <1>4, <1>5

\* The new store takes the place that is free.
LEMMA FillGapKeeps ==
  ASSUME FileInv, FillGap
  PROVE  FileInv'
<1> USE FilesAreNoMarks, AccountFileAssumption DEF FileInv, FileTypes
<1>1. /\ op.pc \in {"gap", "swap"} /\ main = Absent /\ (op.pc = "swap" => bak = Absent)
      /\ main' = op.goal /\ Goto("placed")
      /\ UNCHANGED <<build, bak, legacy, prerestore, reply, sure, found>>
  BY DEF FillGap, PlaceStore, At, FilesAreThere
<1>2. /\ op' \in Operation /\ op'.pc = "placed" /\ op'.read = op.read /\ op'.kind = op.kind
      /\ op'.arg = op.arg /\ op'.why = op.why /\ op'.goal = op.goal
      /\ op'.from = op.from /\ op'.to = op.to
  BY <1>1 DEF Goto, Operation, Stages
<1>3. op.goal \in File
  BY DEF Operation
<1>4. FileTypes'
  BY <1>1, <1>2, <1>3
<1>5. FilesAreThere'
  BY <1>1, <1>2, <1>3 DEF FilesAreThere
<1>6. GoalsAreSound'
  BY <1>1, <1>2 DEF GoalsAreSound, Replacing
<1>7. FactsAreThere'
  <2>1. Stored' = op.goal.facts /\ Stored \in Allowed /\ op.goal.facts \in Allowed /\ Allowed' = Allowed
    BY <1>1, <1>2, <1>3 DEF FactsAreThere, Replacing, Allowed, Stored, Readable
  <2>2. bak # Absent => Stored = bak.facts
    BY <1>1 DEF Stored, Readable
  <2>3. sure \subseteq op.goal.facts
    <3>1. CASE op.why \in {"migrate", "revert"}
      BY <1>1, <2>1, <3>1 DEF FactsAreThere, Allowed
    <3>2. CASE op.why \in {"commit", "rollback"}
      BY <1>1, <3>2 DEF GoalsAreSound, Replacing
    <3> QED BY <3>1, <3>2 DEF Operation
  <2> QED BY <1>1, <1>2, <2>1, <2>2, <2>3 DEF FactsAreThere
<1>8. OriginalIsThere'
  BY <1>1, <1>2 DEF OriginalIsThere
<1> QED BY <1>4, <1>5, <1>6, <1>7, <1>8

\* The new store is refused; the old one goes back, since a second refusal
\* is excluded.
LEMMA UndoMoveKeeps ==
  ASSUME FileInv, OneRefusal, UndoMove
  PROVE  FileInv'
<1> USE FilesAreNoMarks, AccountFileAssumption DEF FileInv, FileTypes
<1>1. op.pc = "gap" /\ main = Absent /\ bak \in File /\ build = "windows" /\ op.errs \in Nat
  BY DEF UndoMove, At, FilesAreThere, Operation
<1>2. MaxErrors["windows"] \in Nat
  BY <1>1
<1>3. Refuse(1) /\ main' = bak /\ bak' = Absent
  BY <1>1, <1>2 DEF UndoMove, Refuse, OneRefusal
<1>4. UNCHANGED <<build, legacy, prerestore, reply, sure, found>>
  BY DEF UndoMove
<1>5. /\ op' \in Operation /\ op'.pc = "broken" /\ op'.read = op.read /\ op'.kind = op.kind
      /\ op'.arg = op.arg /\ op'.why = op.why /\ op'.goal = op.goal
      /\ op'.from = op.from /\ op'.to = op.to
  <2>1. op.errs + 1 \in Nat
    BY <1>1
  <2> QED BY <1>3, <2>1 DEF Refuse, Operation, Stages
<1>6. FileTypes'
  BY <1>1, <1>3, <1>4, <1>5
<1>7. FilesAreThere'
  BY <1>1, <1>3, <1>4, <1>5 DEF FilesAreThere
<1>8. FactsAreThere'
  BY <1>1, <1>3, <1>4, <1>5 DEF FactsAreThere, Replacing, Allowed, Stored, Readable
<1>9. GoalsAreSound'
  BY <1>1, <1>4, <1>5 DEF GoalsAreSound, Replacing
<1>10. OriginalIsThere'
  BY <1>1, <1>4 DEF OriginalIsThere
<1> QED BY <1>6, <1>7, <1>8, <1>9, <1>10

\* The backup of a finished replacement is discarded.
LEMMA FinishSwapKeeps ==
  ASSUME FileInv, FinishSwap
  PROVE  FileInv'
<1> USE FilesAreNoMarks, AccountFileAssumption
      DEF FileInv, FileTypes, Operation, File, FinishSwap, At, diskVars, Goto
<1>1. FileTypes'
  BY DEF Stages
<1>2. FilesAreThere'
  BY DEF FilesAreThere, Readable
<1>3. FactsAreThere'
  BY DEF FilesAreThere, FactsAreThere, GoalsAreSound, Replacing, Allowed, Stored, Readable
<1>4. GoalsAreSound'
  BY DEF FactsAreThere, GoalsAreSound, Replacing
<1>5. OriginalIsThere'
  BY DEF FilesAreThere, OriginalIsThere, Readable
<1> QED BY <1>1, <1>2, <1>3, <1>4, <1>5

\* A write is refused at another step.
LEMMA BreakKeeps ==
  ASSUME FileInv, Break
  PROVE  FileInv'
<1> USE FilesAreNoMarks, AccountFileAssumption DEF FileInv, FileTypes
<1>1. op.pc \in {"temp", "swap", "placed"} /\ UNCHANGED <<diskVars, reply, sure, found>> /\ op.errs + 1 \in Nat
  BY DEF Break, At, Operation
<1>2. /\ op' \in Operation /\ op'.pc = "broken" /\ op'.read = op.read /\ op'.kind = op.kind
      /\ op'.arg = op.arg /\ op'.why = op.why /\ op'.goal = op.goal
      /\ op'.from = op.from /\ op'.to = op.to
  BY <1>1 DEF Break, Refuse, Operation, Stages
<1>3. FileTypes'
  BY <1>1, <1>2 DEF diskVars
<1>4. FilesAreThere'
  BY <1>1, <1>2 DEF diskVars, FilesAreThere
<1>5. FactsAreThere'
  BY <1>1, <1>2 DEF diskVars, FactsAreThere, Replacing, Allowed, Stored, Readable
<1>6. GoalsAreSound'
  BY <1>1, <1>2 DEF diskVars, GoalsAreSound, Replacing
<1>7. OriginalIsThere'
  BY <1>1 DEF diskVars, OriginalIsThere
<1> QED BY <1>3, <1>4, <1>5, <1>6, <1>7

\* The migrated store is in place.
LEMMA MigratedKeeps ==
  ASSUME FileInv, Migrated
  PROVE  FileInv'
<1> USE FilesAreNoMarks, AccountFileAssumption
      DEF FileInv, FileTypes, Operation, File, Migrated, At, diskVars, Goto
<1>1. FileTypes'
  BY DEF Stages
<1>2. FilesAreThere'
  BY DEF FilesAreThere, Readable
<1>3. FactsAreThere'
  BY DEF FilesAreThere, FactsAreThere, GoalsAreSound, Replacing, Allowed, Stored, Readable
<1>4. GoalsAreSound'
  BY DEF FactsAreThere, GoalsAreSound, Replacing
<1>5. OriginalIsThere'
  BY DEF FilesAreThere, OriginalIsThere, Readable
<1> QED BY <1>1, <1>2, <1>3, <1>4, <1>5

\* The operation's store is in place, and its caller is told.
LEMMA CommittedKeeps ==
  ASSUME FileInv, Committed
  PROVE  FileInv'
<1> USE FilesAreNoMarks, AccountFileAssumption
      DEF FileInv, FileTypes, Operation, File, Committed, At, diskVars, Return, Resting
<1>1. FileTypes'
  BY DEF Stages, Kinds
<1>2. FilesAreThere'
  BY DEF FilesAreThere, Readable
<1>3. FactsAreThere'
  BY DEF FilesAreThere, FactsAreThere, GoalsAreSound, Replacing, Allowed, Stored, Readable
<1>4. GoalsAreSound'
  BY DEF FactsAreThere, GoalsAreSound, Replacing
<1>5. OriginalIsThere'
  BY DEF FilesAreThere, OriginalIsThere, Readable
<1> QED BY <1>1, <1>2, <1>3, <1>4, <1>5

\* The snapshot is what a failed restore writes back.
LEMMA RollBackKeeps ==
  ASSUME FileInv, op.pc \in {"written", "broken"}, op.why = "commit", op.kind = "restore", RollBack
  PROVE  FileInv'
<1> USE FilesAreNoMarks, AccountFileAssumption DEF FileInv, FileTypes
<1>1. prerestore = V2(op.from)
  BY DEF GoalsAreSound, Replacing
<1>2. V2(op.from) \in File /\ V2(op.from).facts = op.from
  BY DEF V2, File, Operation
<1>3. /\ op' \in Operation /\ op'.pc = "temp" /\ op'.read = op.read /\ op'.kind = op.kind
      /\ op'.arg = op.arg /\ op'.why = "rollback" /\ op'.goal = V2(op.from)
      /\ op'.from = op.from /\ op'.to = op.to /\ UNCHANGED <<diskVars, reply, sure, found>>
  BY <1>1, <1>2 DEF RollBack, WriteFile, Operation, Stages
<1>4. FileTypes'
  BY <1>3 DEF diskVars
<1>5. FilesAreThere'
  BY <1>3 DEF diskVars, FilesAreThere
<1>6. FactsAreThere'
  BY <1>2, <1>3 DEF diskVars, FactsAreThere, Replacing, Allowed, Stored, Readable
<1>7. GoalsAreSound'
  BY <1>1, <1>2, <1>3 DEF diskVars, GoalsAreSound, Replacing
<1>8. OriginalIsThere'
  BY <1>3 DEF diskVars, OriginalIsThere
<1> QED BY <1>4, <1>5, <1>6, <1>7, <1>8

\* A failed migration writes the original back.
LEMMA WriteBackKeeps ==
  ASSUME FileInv, WriteBack
  PROVE  FileInv'
<1> USE FilesAreNoMarks, AccountFileAssumption
      DEF FileInv, FileTypes, Operation, File, WriteBack, At, diskVars, WriteFile, V1
<1>1. FileTypes'
  BY DEF Stages
<1>2. FilesAreThere'
  BY DEF FilesAreThere, Readable
<1>3. FactsAreThere'
  BY DEF FilesAreThere, FactsAreThere, GoalsAreSound, Replacing, Allowed, Stored, Readable
<1>4. GoalsAreSound'
  BY DEF FactsAreThere, GoalsAreSound, Replacing
<1>5. OriginalIsThere'
  BY DEF FilesAreThere, OriginalIsThere, Readable
<1> QED BY <1>1, <1>2, <1>3, <1>4, <1>5


\* The snapshot is back in place.
LEMMA RolledBackKeeps ==
  ASSUME FileInv, RolledBack
  PROVE  FileInv'
<1> USE FilesAreNoMarks, AccountFileAssumption
      DEF FileInv, FileTypes, Operation, File, RolledBack, At, diskVars, Return, Resting
<1>1. FileTypes'
  BY DEF Stages, Kinds
<1>2. FilesAreThere'
  BY DEF FilesAreThere, Readable
<1>3. FactsAreThere'
  BY DEF FilesAreThere, FactsAreThere, GoalsAreSound, Replacing, Allowed, Stored, Readable
<1>4. GoalsAreSound'
  BY DEF FactsAreThere, GoalsAreSound, Replacing
<1>5. OriginalIsThere'
  BY DEF FilesAreThere, OriginalIsThere, Readable
<1> QED BY <1>1, <1>2, <1>3, <1>4, <1>5

\* A write was given up, or the original is back.
LEMMA GivenUpKeeps ==
  ASSUME FileInv, GivenUp
  PROVE  FileInv'
<1> USE FilesAreNoMarks, AccountFileAssumption
      DEF FileInv, FileTypes, Operation, File, GivenUp, At, diskVars, Fail, Return, Resting
<1>1. FileTypes'
  BY DEF Stages, Kinds
<1>2. FilesAreThere'
  BY DEF FilesAreThere, Readable
<1>3. FactsAreThere'
  BY DEF FilesAreThere, FactsAreThere, GoalsAreSound, Replacing, Allowed, Stored, Readable
<1>4. GoalsAreSound'
  BY DEF FactsAreThere, GoalsAreSound, Replacing
<1>5. OriginalIsThere'
  BY DEF FilesAreThere, OriginalIsThere, Readable
<1> QED BY <1>1, <1>2, <1>3, <1>4, <1>5

\* The process dies at any of these steps.
LEMMA DieKeeps ==
  ASSUME FileInv, Die
  PROVE  FileInv'
<1> USE FilesAreNoMarks, AccountFileAssumption
      DEF FileInv, FileTypes, Operation, File, Die, At, diskVars, Resting
<1>1. FileTypes'
  BY DEF Stages, Kinds
<1>2. FilesAreThere'
  BY DEF FilesAreThere, Readable
<1>3. FactsAreThere'
  BY DEF FilesAreThere, FactsAreThere, GoalsAreSound, Replacing, Allowed, Stored, Readable
<1>4. GoalsAreSound'
  BY DEF FactsAreThere, GoalsAreSound, Replacing
<1>5. OriginalIsThere'
  BY DEF FilesAreThere, OriginalIsThere, Readable
<1> QED BY <1>1, <1>2, <1>3, <1>4, <1>5

-----------------------------------------------------------------------------
\* Any installation satisfies the invariant.
LEMMA FileBegins ==
  ASSUME FileInit
  PROVE  FileInv
<1> USE FilesAreNoMarks, AccountFileAssumption DEF FileInit
<1>1. Stored \in SUBSET Fact
  BY DEF Stored, Readable, File
<1>2. op \in Operation /\ op.pc = "idle" /\ op.kind = "read"
  BY <1>1 DEF Resting, Operation, Stages, Kinds, File
<1>3. FileTypes
  BY <1>1, <1>2 DEF FileTypes
<1>4. FilesAreThere
  BY <1>2 DEF FilesAreThere, File
<1>5. FactsAreThere
  BY <1>2 DEF FactsAreThere, Replacing
<1>6. GoalsAreSound
  BY <1>2 DEF GoalsAreSound, Replacing
<1>7. OriginalIsThere
  BY <1>2 DEF OriginalIsThere
<1> QED BY <1>3, <1>4, <1>5, <1>6, <1>7 DEF FileInv

\* Every step keeps the invariant.
LEMMA FileSteps ==
  ASSUME FileInv, OneRefusal, [FileNext]_fileVars
  PROVE  FileInv'
<1>1. CASE UNCHANGED fileVars
  <2> USE <1>1 DEF fileVars, diskVars, FileInv
  <2>1. FileTypes'
    BY DEF FileTypes
  <2>2. FilesAreThere'
    BY DEF FilesAreThere
  <2>3. FactsAreThere'
    BY DEF FactsAreThere, Stored, Allowed
  <2>4. GoalsAreSound' /\ OriginalIsThere'
    BY DEF GoalsAreSound, OriginalIsThere
  <2> QED BY <2>1, <2>2, <2>3, <2>4
<1>2. CASE SomeCall \/ LoadMain \/ LoadNothing \/ RecoverMissing \/ SetAside \/ RecoverDamaged
             \/ LoadFails \/ Migrate \/ MigrateFails
  BY <1>2, SomeCallKeeps, LoadMainKeeps, LoadNothingKeeps, RecoverMissingKeeps, SetAsideKeeps,
     RecoverDamagedKeeps, LoadFailsKeeps, MigrateKeeps, MigrateFailsKeeps
<1>3. CASE Reading \/ Changing \/ Snapshot \/ Die
  BY <1>3, ReadingKeeps, ChangingKeeps, SnapshotKeeps, DieKeeps
<1>4. CASE Replacement
  BY <1>4, WriteTempKeeps, SwapOnUnixKeeps, DiscardBackupKeeps, MoveAwayKeeps, FillGapKeeps,
     UndoMoveKeeps, FinishSwapKeeps, BreakKeeps DEF Replacement
<1>5. CASE Outcome
  <2>1. CASE Unverified \/ NotCommitted
    <3>1. op.pc \in {"written", "broken"} /\ op.why = "commit" /\ op.kind = "restore" /\ RollBack
      BY <2>1 DEF Unverified, NotCommitted, At
    <3> QED BY <3>1, RollBackKeeps
  <2>2. CASE Migrated \/ Committed \/ WriteBack \/ RolledBack \/ GivenUp
    BY <2>2, MigratedKeeps, CommittedKeeps, WriteBackKeeps, RolledBackKeeps, GivenUpKeeps
  <2> QED BY <1>5, <2>1, <2>2 DEF Outcome
<1> QED BY <1>1, <1>2, <1>3, <1>4, <1>5 DEF FileNext

\* The invariant holds wherever a replacement is refused once at most.
LEMMA FileKeepsInv ==
  ASSUME OneRefusal
  PROVE  FileSpec => []FileInv
<1>1. FileInit => FileInv
  BY FileBegins
<1>2. FileInv /\ [FileNext]_fileVars => FileInv'
  BY FileSteps
<1> QED BY <1>1, <1>2, PTL DEF FileSpec

\* A fact that was reported stored is found by every later load, and the file of an
\* older version survives its migration, whatever fails and whenever the process dies
\* (account_pool.rs, load_store, migrate_store_v1, commit_prepared_restore).
THEOREM StoreStays ==
  ASSUME OneRefusal
  PROVE  FileSpec => []StoreIsKept
<1>1. FileInv => StoreIsKept
  BY FilesAreNoMarks DEF FileInv, FileTypes, FactsAreThere, FilesAreThere, OriginalIsThere, StoreIsKept, SureFactsStored,
         LegacyIsKept, Readable, File
<1> QED BY <1>1, FileKeepsInv, PTL

-----------------------------------------------------------------------------
\* What a step does to what the promise speaks of.
Quiet == UNCHANGED <<Stored, Busy, op.from, op.to, reply>>
GivesUp == UNCHANGED <<Stored, op.from, op.to>> /\ ~Busy' /\ reply' = "failed"

\* A refusal leaves what the operation is about to write.
LEMMA RefusedStep ==
  ASSUME op \in Operation, NEW n, Refuse(n)
  PROVE  UNCHANGED <<op.from, op.to, op.why>> /\ op'.pc = "broken"
BY DEF Refuse, Operation

\* These steps change nothing that the promise speaks of.
LEMMA QuietSteps ==
  ASSUME FileInv, OneRefusal,
         \/ SomeCall \/ LoadMain \/ LoadNothing \/ SetAside \/ Migrate
         \/ WriteTemp \/ DiscardBackup \/ MoveAway \/ UndoMove \/ FinishSwap \/ Break
         \/ Migrated \/ WriteBack \/ Unverified \/ NotCommitted
  PROVE  Quiet
<1> USE FilesAreNoMarks, AccountFileAssumption
      DEF FileInv, FileTypes, FilesAreThere, Quiet, Busy, Stored, Readable, At, diskVars, Operation, File, Goto
<1>1. CASE SomeCall
  <2>1. ASSUME NEW kind, NEW arg, Call(kind, arg)
        PROVE  Quiet
    BY <2>1 DEF Call
  <2> QED BY <1>1, <2>1 DEF SomeCall
<1>2. CASE LoadMain
  BY <1>2 DEF LoadMain, Loaded
<1>3. CASE LoadNothing
  BY <1>3 DEF LoadNothing, Loaded, V2
<1>4. CASE SetAside
  BY <1>4 DEF SetAside
<1>5. CASE Migrate
  BY <1>5 DEF Migrate, WriteFile, V2
<1>6. CASE WriteTemp
  BY <1>6 DEF WriteTemp
<1>7. CASE DiscardBackup
  BY <1>7 DEF DiscardBackup
<1>8. CASE MoveAway
  BY <1>8 DEF MoveAway
<1>9. CASE UndoMove
  <2>1. /\ op.pc = "gap" /\ main = Absent /\ bak # Absent /\ build = "windows"
        /\ bak \in File /\ op.errs \in Nat
    BY <1>9 DEF UndoMove
  <2>2. op.errs + 2 > MaxErrors[build]
    BY <2>1 DEF OneRefusal
  <2>3. Refuse(1) /\ main' = bak /\ bak' = Absent /\ UNCHANGED reply
    BY <1>9, <2>2 DEF UndoMove, Refuse
  <2>4. UNCHANGED Stored
    BY <2>1, <2>3
  <2>5. UNCHANGED <<op.from, op.to, op.why>> /\ op'.pc = "broken"
    BY <2>3, RefusedStep
  <2> QED BY <2>1, <2>3, <2>4, <2>5
<1>10. CASE FinishSwap
  BY <1>10 DEF FinishSwap
<1>11. CASE Break
  BY <1>11 DEF Break, Refuse
<1>12. CASE Migrated
  BY <1>12 DEF Migrated
<1>13. CASE WriteBack
  BY <1>13 DEF WriteBack, WriteFile, V1
<1>14. CASE Unverified
  BY <1>14 DEF Unverified, RollBack, WriteFile
<1>15. CASE NotCommitted
  BY <1>15 DEF NotCommitted, RollBack, WriteFile
<1> QED BY <1>1, <1>2, <1>3, <1>4, <1>5, <1>6, <1>7, <1>8, <1>9, <1>10, <1>11, <1>12, <1>13, <1>14, <1>15

\* These change nothing either, or report a failure and change no store.
LEMMA FailingSteps ==
  ASSUME FileInv,
         \/ LoadFails \/ MigrateFails \/ GivenUp
         \/ RecoverMissing \/ RecoverDamaged \/ Snapshot
  PROVE  GivesUp \/ Quiet
<1> USE FilesAreNoMarks, AccountFileAssumption
      DEF FileInv, FileTypes, FilesAreThere, Quiet, GivesUp, Busy, Stored, Readable, At, diskVars,
          Operation, File, Goto, Fail, Return, Resting
<1>1. CASE LoadFails
  BY <1>1 DEF LoadFails
<1>2. CASE MigrateFails
  BY <1>2 DEF MigrateFails
<1>3. CASE GivenUp
  BY <1>3 DEF GivenUp
<1>4. CASE Fail /\ UNCHANGED Stored
  BY <1>4
<1>5. ASSUME TakeBackup, op.pc \in {"load", "aside"}, ~Readable(main), bak # Absent
      PROVE  GivesUp \/ Quiet
  <2>1. UNCHANGED Stored
    BY <1>5 DEF TakeBackup
  <2>2. CASE Loaded(bak) /\ UNCHANGED reply
    BY <1>5, <2>1, <2>2 DEF Loaded
  <2> QED BY <1>4, <1>5, <2>1, <2>2 DEF TakeBackup
<1>6. CASE RecoverMissing
  BY <1>5, <1>6 DEF RecoverMissing
<1>7. CASE RecoverDamaged
  <2>1. op.pc = "aside" /\ main = Absent /\ bak # Absent
    BY <1>7 DEF RecoverDamaged
  <2>2. CASE TakeBackup
    BY <1>5, <2>1, <2>2
  <2>3. CASE main' \in {Garbled, Absent} /\ Fail /\ bak' = bak
    BY <1>4, <2>1, <2>3
  <2> QED BY <1>7, <2>2, <2>3 DEF RecoverDamaged
<1>8. CASE Snapshot
  <2>1. op.pc = "snapshot" /\ op.why = "commit" /\ UNCHANGED <<main, bak>>
    BY <1>8 DEF Snapshot, GoalsAreSound
  <2>2. CASE Goto("temp") /\ UNCHANGED reply
    BY <2>1, <2>2
  <2> QED BY <1>4, <1>8, <2>1, <2>2 DEF Snapshot
<1> QED BY <1>1, <1>2, <1>3, <1>6, <1>7, <1>8

\* Every step is one of the promise's steps, or none.
LEMMA FileRefines ==
  ASSUME FileInv, FileInv', OneRefusal, [FileNext]_fileVars
  PROVE  [Promise!ANext]_(Promise!avars)
<1> USE DEF Promise!ANext, Promise!avars
<1>1. Quiet => [Promise!ANext]_(Promise!avars)
  BY DEF Quiet
<1>2. GivesUp => Promise!ANext
  BY DEF GivesUp, Promise!AFail
<1>3. CASE UNCHANGED fileVars
  BY <1>1, <1>3 DEF fileVars, diskVars, Quiet, Stored, Busy
<1>4. CASE SwapOnUnix \/ FillGap
  <2> USE DEF FileInv, FileTypes
  <2>1. /\ op.pc \in Replacing /\ op'.pc = "placed" /\ op'.read = op.read /\ op'.why = op.why
        /\ UNCHANGED <<reply, op.from, op.to>> /\ Allowed' = Allowed
    BY <1>4 DEF SwapOnUnix, FillGap, PlaceStore, Goto, At, Operation, Stages, Replacing, Allowed
  <2>2. Stored \in Allowed /\ Stored' \in Allowed
    BY <2>1 DEF FactsAreThere, Replacing
  <2>3. CASE Busy
    <3>1. Busy' = TRUE /\ Busy = TRUE
      BY <2>1, <2>3 DEF Busy, Replacing
    <3>2. Stored' \in {op.from, op.to}
      BY <2>2, <2>3 DEF Allowed, Busy
    <3> QED BY <2>1, <2>3, <3>1, <3>2 DEF Promise!AMove
  <2>4. CASE ~Busy
    <3>1. Busy' = FALSE /\ Busy = FALSE /\ op.why \in {"migrate", "revert"}
      BY <2>1, <2>4 DEF Busy, Replacing, Operation
    <3>2. Stored' = Stored
      BY <2>2, <3>1 DEF Allowed
    <3> QED BY <1>1, <2>1, <3>1, <3>2 DEF Quiet
  <2> QED BY <2>3, <2>4
<1>5. CASE Reading
  BY <1>5 DEF Reading, Return, Resting, At, diskVars, Stored, Busy, Promise!ASucceed
<1>6. CASE Changing
  <2>1. ~Busy /\ Busy'
    BY <1>6 DEF FileInv, FileTypes, Changing, Busy, At, Operation
  <2>2. /\ op'.from = op.read /\ op'.to = Changed /\ UNCHANGED <<Stored, reply>> /\ Stored = op.read
    BY <1>6 DEF FileInv, FileTypes, FactsAreThere, Changing, At, Operation, diskVars, Stored
  <2>3. Changed \in SUBSET Fact
    BY <1>6 DEF FileInv, FileTypes, Changing, Changed, Operation
  <2>4. Promise!ABegin(Changed)
    BY <2>1, <2>2 DEF Promise!ABegin
  <2> QED BY <2>3, <2>4
<1>7. CASE Committed
  <2>1. Stored = op.to
    BY <1>7, FilesAreNoMarks DEF Committed, At, FileInv, FileTypes, FilesAreThere, GoalsAreSound, Replacing, Stored,
          Readable, Operation
  <2> QED BY <1>7, <2>1 DEF Committed, Return, Resting, At, diskVars, Stored, Busy, Promise!ASucceed
<1>8. CASE RolledBack
  <2>1. Stored = op.from /\ Busy
    BY <1>8, FilesAreNoMarks DEF RolledBack, At, FileInv, FileTypes, FilesAreThere, GoalsAreSound, Replacing, Stored,
          Readable, Operation, Busy
  <2> QED BY <1>8, <2>1 DEF RolledBack, Return, Resting, At, diskVars, Stored, Busy, Promise!AUndone
<1>9. CASE Die
  <2> USE FilesAreNoMarks, AccountFileAssumption DEF FileInv, FileTypes
  <2>1. /\ op'.pc = "idle" /\ UNCHANGED <<op.from, op.to, bak>> /\ reply' = "nothing"
        /\ main' = main \/ (main' = Garbled /\ op.pc = "placed" /\ bak # Absent)
    BY <1>9 DEF Die, Resting, At
  <2>2. Busy' = FALSE
    BY <2>1 DEF Busy
  <2>3. CASE Busy
    <3>1. op.pc # "snapshot" => Allowed = {op.from, op.to} /\ op.pc \in Replacing
      BY <2>3 DEF Busy, Allowed, Replacing
    <3>2. Stored \in {op.from, op.to}
      BY <3>1 DEF FactsAreThere, GoalsAreSound
    <3>3. Stored' \in {op.from, op.to}
      <4>1. CASE main' = main
        BY <2>1, <3>2, <4>1 DEF Stored
      <4>2. CASE main' = Garbled /\ op.pc = "placed" /\ bak # Absent
        <5>1. Stored' = bak.facts
          BY <2>1, <4>2 DEF Stored, Readable
        <5> QED BY <3>1, <4>2, <5>1 DEF FactsAreThere
      <4> QED BY <2>1, <4>1, <4>2
    <3> QED BY <2>1, <2>2, <2>3, <3>3 DEF Promise!ACrash
  <2>4. CASE ~Busy
    <3>1. Stored' = Stored
      <4>1. CASE main' = main
        BY <2>1, <4>1 DEF Stored
      <4>2. CASE main' = Garbled /\ op.pc = "placed" /\ bak # Absent
        <5>1. Stored' = bak.facts
          BY <2>1, <4>2 DEF Stored, Readable
        <5>2. op.why \in {"migrate", "revert"}
          BY <2>4, <4>2 DEF Busy, Operation
        <5> QED BY <4>2, <5>1, <5>2 DEF FactsAreThere, Allowed, Replacing
      <4> QED BY <2>1, <4>1, <4>2
    <3> QED BY <2>1, <2>2, <2>4, <3>1 DEF Promise!ACrash
  <2> QED BY <2>3, <2>4
<1>10. CASE \/ LoadFails \/ MigrateFails \/ GivenUp \/ RecoverMissing \/ RecoverDamaged \/ Snapshot
  BY <1>1, <1>2, <1>10, FailingSteps
<1>11. CASE \/ SomeCall \/ LoadMain \/ LoadNothing \/ SetAside \/ Migrate
            \/ WriteTemp \/ DiscardBackup \/ MoveAway \/ UndoMove \/ FinishSwap \/ Break
            \/ Migrated \/ WriteBack \/ Unverified \/ NotCommitted
  BY <1>1, <1>11, QuietSteps
<1> QED BY <1>3, <1>4, <1>5, <1>6, <1>7, <1>8, <1>9, <1>10, <1>11 DEF FileNext, Replacement, Outcome

\* To its callers the store is a file that is replaced whole: it reads as before the
\* operation or as the operation wants it, what is reported done is done, and what is
\* reported rolled back is not (atomic_write_secure, replace_file).
THEOREM StoreReplacedWhole ==
  ASSUME OneRefusal
  PROVE  FileSpec => AccountsReplacedWhole
<1>1. FileInit => Promise!AInit
  <2>1. ASSUME FileInit PROVE Stored \in SUBSET Fact
    BY <2>1, FileBegins DEF FileInv, FileTypes, FileInit, Stored, Readable, File
  <2>2. ASSUME FileInit PROVE Promise!AInit
    BY <2>1, <2>2 DEF FileInit, Resting, Busy, Promise!AInit
  <2> QED BY <2>2
<1>2. FileInv /\ FileInv' /\ [FileNext]_fileVars => [Promise!ANext]_(Promise!avars)
  BY FileRefines
<1> QED BY <1>1, <1>2, FileKeepsInv, PTL DEF FileSpec, AccountsReplacedWhole, Promise!ASpec

\* A backup that is about to be taken can be read, and a restore that is under way has
\* its snapshot. Unlike FileInv this holds however often the file system refuses.
FileTyped ==
  /\ AccountFileTypeOK
  /\ op.pc = "aside" => Readable(bak)
  /\ op.kind = "restore" /\ op.why = "commit" /\ op.pc \in Replacing => prerestore \in File

\* A store that is put down, with what an operation does when it ends.
LEMMA RestStaysTyped ==
  ASSUME FileTyped, op' = Resting(op.from, op.to), reply' \in {"nothing", "done", "failed", "undone"},
         sure' \subseteq Fact, main' \in {Absent, Garbled} \cup File, bak' \in {Absent, Garbled} \cup File,
         prerestore' \in {Absent, Garbled} \cup File, UNCHANGED <<build, legacy, found>>
  PROVE  FileTyped'
<1>1. op' \in Operation /\ op'.pc = "idle"
  BY DEF FileTyped, AccountFileTypeOK, Operation, Resting, Stages, Kinds, File
<1> QED BY <1>1 DEF FileTyped, AccountFileTypeOK, Replacing

\* An operation that goes on.
LEMMA StageStaysTyped ==
  ASSUME FileTyped, op' \in Operation, UNCHANGED <<build, legacy, found, prerestore, reply>>,
         sure' \subseteq Fact, main' \in {Absent, Garbled} \cup File, bak' \in {Absent, Garbled} \cup File,
         op'.pc = "aside" => Readable(bak'),
         op'.kind = "restore" /\ op'.why = "commit" /\ op'.pc \in Replacing => prerestore \in File
  PROVE  FileTyped'
  BY DEF FileTyped, AccountFileTypeOK

\* The next step of the same writing.
LEMMA NextStageStaysTyped ==
  ASSUME FileTyped, op.pc \in Replacing,
         \E stage \in Replacing \cup {"work"}, n \in Nat :
            op' = [op EXCEPT !.pc = stage] \/ op' = [op EXCEPT !.pc = stage, !.errs = n],
         UNCHANGED <<build, legacy, found, prerestore, reply, sure>>,
         main' \in {Absent, Garbled} \cup File, bak' \in {Absent, Garbled} \cup File
  PROVE  FileTyped'
<1>1. op \in Operation /\ sure \subseteq Fact
  BY DEF FileTyped, AccountFileTypeOK
<1>2. op' \in Operation /\ op'.kind = op.kind /\ op'.why = op.why /\ op'.pc \in Replacing \cup {"work"}
  BY <1>1 DEF Operation, Stages, Replacing
<1>3. op'.pc # "aside"
  BY <1>2 DEF Replacing
<1>4. op'.kind = "restore" /\ op'.why = "commit" /\ op'.pc \in Replacing => prerestore \in File
  BY <1>2 DEF FileTyped
<1> QED BY <1>1, <1>2, <1>3, <1>4, StageStaysTyped

\* A file is written for some reason.
LEMMA WritingStaysTyped ==
  ASSUME FileTyped, NEW file \in File, NEW why \in {"migrate", "revert", "rollback"},
         WriteFile(file, why), UNCHANGED <<build, main, bak, found, prerestore, reply, sure>>,
         legacy' \in {Absent, Garbled} \cup File
  PROVE  FileTyped'
<1>1. op \in Operation /\ "temp" \in Stages
  BY DEF FileTyped, AccountFileTypeOK, Stages
<1>2. op' \in Operation /\ op'.pc = "temp" /\ op'.why = why
  BY <1>1 DEF WriteFile, Operation
<1> QED BY <1>2 DEF FileTyped, AccountFileTypeOK

\* The store's types, on every file system.
LEMMA FileStaysTyped == FileSpec => []AccountFileTypeOK
<1>1. FileInit => FileTyped
  <2> SUFFICES ASSUME FileInit PROVE FileTyped
    OBVIOUS
  <2>1. Stored \in SUBSET Fact
    BY DEF FileInit, Stored, Readable, File
  <2>2. op \in Operation /\ op.pc = "idle"
    BY <2>1 DEF FileInit, Operation, Resting, Stages, Kinds, File
  <2> QED BY <2>1, <2>2 DEF FileInit, FileTyped, AccountFileTypeOK, Replacing
<1>2. FileTyped /\ [FileNext]_fileVars => FileTyped'
  <2> SUFFICES ASSUME FileTyped, [FileNext]_fileVars PROVE FileTyped'
    OBVIOUS
  <2>1. /\ op \in Operation /\ sure \subseteq Fact /\ build \in Build
        /\ main \in {Absent, Garbled} \cup File /\ bak \in {Absent, Garbled} \cup File
        /\ prerestore \in {Absent, Garbled} \cup File /\ legacy \in {Absent, Garbled} \cup File
        /\ reply \in {"nothing", "done", "failed", "undone"}
    BY DEF FileTyped, AccountFileTypeOK
  <2>2. op.read \in SUBSET Fact /\ op.arg \in SUBSET Fact /\ op.goal \in File
    BY <2>1 DEF Operation
  <2>3. V1(op.read) \in File /\ V2(op.read) \in File
    BY <2>2 DEF V1, V2, File
  <2>4. CASE UNCHANGED fileVars
    BY <2>4 DEF fileVars, FileTyped, AccountFileTypeOK, Readable
  <2>5. CASE SomeCall
    <3>1. ASSUME NEW kind \in Kinds, NEW arg \in SUBSET Fact, Call(kind, arg) PROVE FileTyped'
      <4>1. op' \in Operation /\ op'.pc = "load"
        BY <2>1, <3>1 DEF Call, Operation, Stages
      <4>2. sure' \subseteq Fact /\ UNCHANGED <<diskVars, reply, found>>
        BY <2>1, <3>1 DEF Call
      <4> QED BY <2>1, <4>1, <4>2, StageStaysTyped DEF diskVars, Replacing
    <3> QED BY <2>5, <3>1 DEF SomeCall, Kinds
  <2>6. ASSUME NEW file \in File, Loaded(file)
        PROVE  op' \in Operation /\ op'.pc \in {"migrate", "work"}
    <3>1. file.facts \in SUBSET Fact /\ {"migrate", "work"} \subseteq Stages
      BY DEF File, Stages
    <3>2. \/ op' = [op EXCEPT !.read = file.facts, !.pc = "migrate"]
          \/ op' = [op EXCEPT !.read = file.facts, !.pc = "work"]
      BY <2>6 DEF Loaded
    <3> QED BY <2>1, <3>1, <3>2 DEF Operation
  <2>7. ASSUME Readable(bak), TakeBackup PROVE FileTyped'
    <3>1. bak \in File /\ UNCHANGED <<build, legacy, prerestore, found>> /\ main' = bak /\ bak' = Absent
      BY <2>1, <2>7 DEF Readable, TakeBackup
    <3>2. CASE Loaded(bak) /\ UNCHANGED <<reply, sure>>
      BY <2>1, <2>6, <3>1, <3>2, StageStaysTyped DEF Replacing
    <3>3. CASE Fail
      BY <2>1, <3>1, <3>3, RestStaysTyped DEF Fail, Return
    <3> QED BY <2>7, <3>2, <3>3 DEF TakeBackup
  <2>8. CASE LoadMain
    <3>1. main \in File /\ Loaded(main) /\ bak' \in {bak, Absent} /\ UNCHANGED <<build, main, legacy, prerestore, reply, sure, found>>
      BY <2>1, <2>8 DEF Readable, LoadMain
    <3> QED BY <2>1, <2>6, <3>1, StageStaysTyped DEF Replacing
  <2>9. CASE LoadNothing
    <3>1. V2({}) \in File
      BY DEF V2, File
    <3>2. op' \in Operation /\ op'.pc \in {"migrate", "work"} /\ UNCHANGED <<diskVars, reply, sure, found>>
      BY <2>6, <2>9, <3>1 DEF LoadNothing
    <3> QED BY <2>1, <3>2, StageStaysTyped DEF Replacing, diskVars
  <2>10. CASE RecoverMissing
    BY <2>7, <2>10 DEF RecoverMissing
  <2>11. CASE SetAside
    <3>1. op' = [op EXCEPT !.pc = "aside"] /\ Readable(bak) /\ main' = Absent
          /\ UNCHANGED <<build, bak, legacy, prerestore, reply, sure, found>>
      BY <2>11 DEF SetAside, Goto
    <3>2. op' \in Operation /\ op'.pc = "aside"
      BY <2>1, <3>1 DEF Operation, Stages
    <3> QED BY <2>1, <3>1, <3>2, StageStaysTyped DEF Replacing
  <2>12. CASE RecoverDamaged
    <3>1. CASE TakeBackup
      BY <2>7, <2>12, <3>1 DEF RecoverDamaged, At, FileTyped
    <3>2. CASE main' \in {Garbled, Absent} /\ Fail /\ UNCHANGED <<build, bak, legacy, prerestore, found>>
      BY <2>1, <3>2, RestStaysTyped DEF Fail, Return
    <3> QED BY <2>12, <3>1, <3>2 DEF RecoverDamaged
  <2>13. CASE LoadFails \/ MigrateFails \/ GivenUp
    <3>1. Fail /\ UNCHANGED <<diskVars, found>>
      BY <2>13 DEF LoadFails, MigrateFails, GivenUp
    <3> QED BY <2>1, <3>1, RestStaysTyped DEF Fail, Return, diskVars
  <2>14. CASE Migrate
    <3>1. WriteFile(V2(op.read), "migrate") /\ legacy' \in {main, legacy}
          /\ UNCHANGED <<build, main, bak, prerestore, reply, sure, found>>
      BY <2>14 DEF Migrate
    <3> QED BY <2>1, <2>3, <3>1, WritingStaysTyped
  <2>15. CASE Reading \/ RolledBack
    <3>1. \E answer \in {"done", "undone"} : Return(answer) /\ UNCHANGED <<diskVars, sure, found>>
      BY <2>15 DEF Reading, RolledBack
    <3> QED BY <2>1, <3>1, RestStaysTyped DEF Return, diskVars
  <2>16. CASE Changing
    <3>1. Changed \in SUBSET Fact
      BY <2>2 DEF Changed
    <3>2. V2(Changed) \in File
      BY <3>1 DEF V2, File
    <3>3. /\ \/ op' = [op EXCEPT !.from = op.read, !.to = Changed, !.goal = V2(Changed),
                                 !.why = "commit", !.pc = "snapshot"]
             \/ op.kind # "restore" /\ op' = [op EXCEPT !.from = op.read, !.to = Changed, !.goal = V2(Changed),
                                                        !.why = "commit", !.pc = "temp"]
          /\ UNCHANGED <<diskVars, reply, sure, found>>
      BY <2>16 DEF Changing
    <3>4. op' \in Operation /\ op'.pc \in {"snapshot", "temp"} /\ (op'.pc = "temp" => op'.kind # "restore")
      <4> HIDE DEF V2, Changed
      <4> QED BY <2>1, <2>2, <3>1, <3>2, <3>3 DEF Operation, Stages
    <3> QED BY <2>1, <3>3, <3>4, StageStaysTyped DEF Replacing, diskVars
  <2>17. CASE Snapshot
    <3>1. CASE prerestore' = V2(op.read) /\ Goto("temp") /\ UNCHANGED <<reply, sure>>
      <4>1. op' \in Operation /\ op'.pc = "temp"
        BY <2>1, <3>1 DEF Goto, Operation, Stages
      <4> QED BY <2>1, <2>3, <2>17, <3>1, <4>1 DEF Snapshot, FileTyped, AccountFileTypeOK
    <3>2. CASE prerestore' = prerestore /\ Fail
      BY <2>1, <2>17, <3>2, RestStaysTyped DEF Snapshot, Fail, Return
    <3> QED BY <2>17, <3>1, <3>2 DEF Snapshot
  <2>18. CASE Replacement
    <3>1. op.pc \in Replacing
      BY <2>18 DEF Replacement, WriteTemp, SwapOnUnix, DiscardBackup, MoveAway, FillGap,
                   UndoMove, FinishSwap, Break, At, Replacing
    <3>2. op.errs \in Nat
      BY <2>1 DEF Operation
    <3>3. /\ UNCHANGED <<build, legacy, prerestore, reply, sure, found>>
          /\ {main', bak'} \subseteq {main, bak, op.goal, Absent}
      BY <2>18 DEF Replacement, WriteTemp, SwapOnUnix, DiscardBackup, MoveAway, FillGap,
                   UndoMove, FinishSwap, Break, PlaceStore, diskVars
    <3>4. op' = op \/ \E stage \in Replacing, n \in Nat :
             op' = [op EXCEPT !.pc = stage] \/ op' = [op EXCEPT !.pc = stage, !.errs = n]
      <4>1. ASSUME NEW stage \in Replacing, Goto(stage)
            PROVE  \E to \in Replacing, n \in Nat :
                      op' = [op EXCEPT !.pc = to] \/ op' = [op EXCEPT !.pc = to, !.errs = n]
        BY <4>1 DEF Goto
      <4>2. ASSUME NEW n \in Nat, Refuse(n)
            PROVE  \E to \in Replacing, m \in Nat :
                      op' = [op EXCEPT !.pc = to] \/ op' = [op EXCEPT !.pc = to, !.errs = m]
        <5>1. op.errs + n \in Nat /\ "broken" \in Replacing
          BY <3>2 DEF Replacing
        <5> QED BY <4>2, <5>1 DEF Refuse
      <4>3. CASE WriteTemp \/ SwapOnUnix \/ MoveAway \/ FillGap \/ FinishSwap
        <5>1. \E stage \in Replacing : Goto(stage)
          BY <4>3 DEF WriteTemp, SwapOnUnix, MoveAway, FillGap, FinishSwap, PlaceStore, Replacing
        <5> QED BY <4>1, <5>1
      <4>4. CASE UndoMove \/ Break
        BY <4>2, <4>4 DEF UndoMove, Break
      <4>5. CASE DiscardBackup
        BY <4>5 DEF DiscardBackup
      <4> QED BY <2>18, <4>3, <4>4, <4>5 DEF Replacement
    <3>5. CASE op' = op
      BY <2>1, <2>2, <3>1, <3>3, <3>5, StageStaysTyped DEF FileTyped, Replacing
    <3>6. CASE op' # op
      BY <2>2, <2>1, <3>1, <3>3, <3>4, <3>6, NextStageStaysTyped
    <3> QED BY <3>5, <3>6
  <2>19. CASE Migrated
    <3>1. op' = [op EXCEPT !.pc = "work"] /\ UNCHANGED <<diskVars, reply, sure, found>>
      BY <2>19 DEF Migrated, Goto
    <3>2. op' \in Operation /\ op'.pc = "work"
      BY <2>1, <3>1 DEF Operation, Stages
    <3> QED BY <2>1, <3>1, <3>2, StageStaysTyped DEF Replacing, diskVars
  <2>20. CASE Committed
    <3>1. sure' \subseteq Fact /\ Return("done") /\ UNCHANGED <<diskVars, found>>
      BY <2>1, <2>2, <2>20 DEF Committed
    <3> QED BY <2>1, <3>1, RestStaysTyped DEF Return, diskVars
  <2>21. CASE Unverified \/ NotCommitted
    <3>1. prerestore \in File
      BY <2>21 DEF Unverified, NotCommitted, At, FileTyped, Replacing
    <3>2. WriteFile(prerestore, "rollback") /\ UNCHANGED <<diskVars, reply, sure, found>>
      BY <2>21 DEF Unverified, NotCommitted, RollBack
    <3> QED BY <2>1, <3>1, <3>2, WritingStaysTyped DEF diskVars
  <2>22. CASE WriteBack
    BY <2>1, <2>3, <2>22, WritingStaysTyped DEF WriteBack, diskVars
  <2>23. CASE Die
    <3>1. op' = Resting(op.from, op.to) /\ reply' = "nothing" /\ main' \in {main, Garbled}
          /\ UNCHANGED <<build, bak, legacy, prerestore, sure, found>>
      BY <2>23 DEF Die
    <3> QED BY <2>1, <3>1, RestStaysTyped
  <2> QED BY <2>4, <2>5, <2>8, <2>9, <2>10, <2>11, <2>12, <2>13, <2>14, <2>15, <2>16, <2>17, <2>18,
             <2>19, <2>20, <2>21, <2>22, <2>23 DEF FileNext, Outcome
<1>3. FileTyped => AccountFileTypeOK
  BY DEF FileTyped
<1> QED BY <1>1, <1>2, <1>3, PTL DEF FileSpec

-----------------------------------------------------------------------------
(***************************************************************************)
(* AccountTransfer.                                                        *)
(***************************************************************************)

(***************************************************************************)
(* The inductive invariant follows a preview from the table to the hands   *)
(* of the commit that took it and on to its end.                           *)
(***************************************************************************)
Taking == [purpose : Purpose, at : Nat]
Ending == [how : Purpose \cup {"refused", "cancelled"}, at : Nat]

Shapes ==
    /\ now \in Nat
    /\ sessions \subseteq SessionId
    /\ shown \in [SessionId -> {Untold} \cup [purpose : Purpose, until : Nat]]
    /\ taken \in [SessionId -> {Untaken} \cup Taking]
    /\ ended \in [SessionId -> Seq(Ending)]

\* What is in the table was shown, and what was not shown is nowhere else.
InTable == \A i \in sessions : taken[i] = Untaken /\ ended[i] = <<>>
Unshown == \A i \in SessionId :
    shown[i] = Untold => i \notin sessions /\ taken[i] = Untaken /\ ended[i] = <<>>

\* A preview is with one commit, or has ended, once.
EndedOrTaken == \A i \in SessionId :
    /\ Len(ended[i]) <= 1
    /\ taken[i] # Untaken => ended[i] = <<>>

\* A commit holds what was shown, in time, and confirmed if it replaces.
Rightful(i, purpose, at) ==
    /\ purpose = shown[i].purpose
    /\ at < shown[i].until
    /\ purpose = "replace" => i \in confirmed

TakenRightly == \A i \in SessionId :
    taken[i] # Untaken => Rightful(i, taken[i].purpose, taken[i].at)

EndedRightly == \A i \in SessionId : \A n \in DOMAIN ended[i] :
    ended[i][n].how \in Purpose => Rightful(i, ended[i][n].how, ended[i][n].at)

TransferInv ==
    /\ Shapes /\ InTable /\ Unshown
    /\ EndedOrTaken /\ TakenRightly /\ EndedRightly

\* The table is empty when the process starts (sessions()).
LEMMA TransferInvInit == TransferInit => TransferInv
<1> SUFFICES ASSUME TransferInit PROVE TransferInv
  OBVIOUS
<1> USE DEF TransferInit
<1>1. Shapes
  BY DEF Shapes
<1>2. InTable /\ Unshown /\ EndedOrTaken /\ TakenRightly /\ EndedRightly
  BY DEF InTable, Unshown, EndedOrTaken, TakenRightly, EndedRightly
<1> QED BY <1>1, <1>2 DEF TransferInv

\* insert_session puts one new preview in the table and drops others.
LEMMA InsertKeeps ==
  ASSUME TransferInv, AccountTransferAssumption, NEW i \in SessionId,
         NEW purpose \in Purpose, Insert(i, purpose)
  PROVE  TransferInv'
<1>1. sessions' \subseteq sessions \cup {i}
  BY DEF Insert, Evicted, Unexpired
<1>2. /\ shown[i] = Untold
      /\ shown' = [shown EXCEPT ![i] = [purpose |-> purpose, until |-> now + SessionTtl]]
      /\ UNCHANGED <<now, taken, ended, confirmed>>
  BY DEF Insert
<1>3. /\ shown'[i] # Untold
      /\ \A j \in SessionId \ {i} : shown'[j] = shown[j]
  BY <1>2 DEF TransferInv, Shapes, Untold, Purpose
<1>4. taken[i] = Untaken /\ ended[i] = <<>>
  BY <1>2 DEF TransferInv, Unshown
<1>5. Shapes'
  BY <1>1, <1>2 DEF TransferInv, Shapes, AccountTransferAssumption
<1>6. InTable' /\ Unshown'
  BY <1>1, <1>2, <1>3, <1>4 DEF TransferInv, InTable, Unshown, Shapes
<1>7. EndedOrTaken'
  BY <1>2 DEF TransferInv, EndedOrTaken
<1>8. TakenRightly' /\ EndedRightly'
  <2>1. \A j \in SessionId : taken'[j] # Untaken => j # i
    BY <1>2, <1>4
  <2>2. \A j \in SessionId : \A n \in DOMAIN ended'[j] : j # i
    BY <1>2, <1>4
  <2> QED
    BY <1>2, <1>3, <2>1, <2>2 DEF TransferInv, TakenRightly, EndedRightly, Rightful
<1> QED BY <1>5, <1>6, <1>7, <1>8 DEF TransferInv

\* take_session hands one preview, still in time, to one commit, which proceeds
\* with it if it is of the right kind.
LEMMA TakeKeeps ==
  ASSUME TransferInv, NEW i \in SessionId, NEW purpose \in Purpose, NEW agrees \in BOOLEAN,
         TakeSession(i), Proceed(i, purpose, agrees),
         agrees => shown[i].purpose = purpose,
         confirmed \subseteq confirmed',
         agrees /\ purpose = "replace" => i \in confirmed',
         UNCHANGED <<now, shown, ended>>
  PROVE  TransferInv'
<1>1. /\ i \in sessions
      /\ sessions' \subseteq sessions \ {i}
      /\ now < shown[i].until
  <2>1. i \in sessions /\ shown[i].until > now /\ sessions' \subseteq sessions \ {i}
    BY DEF TakeSession, Live, Unexpired
  <2>2. shown[i] # Untold
    BY <2>1 DEF TransferInv, Unshown
  <2>3. shown[i].until \in Nat /\ now \in Nat
    BY <2>2 DEF TransferInv, Shapes
  <2> QED BY <2>1, <2>3
<1>2. /\ taken[i] = Untaken /\ ended[i] = <<>> /\ shown[i] # Untold
  BY <1>1 DEF TransferInv, InTable, Unshown
<1>3. \A j \in SessionId \ {i} : taken'[j] = taken[j]
  BY DEF Proceed, TransferInv, Shapes
<1>4. \/ taken'[i] = Untaken
      \/ taken'[i] = [purpose |-> purpose, at |-> now] /\ agrees
  BY <1>2 DEF Proceed, TransferInv, Shapes
<1>5. Shapes'
  BY <1>1 DEF TransferInv, Shapes, Proceed, Taking
<1>6. InTable' /\ Unshown'
  BY <1>1, <1>2, <1>3 DEF TransferInv, InTable, Unshown, Shapes
<1>7. EndedOrTaken'
  BY <1>2, <1>3 DEF TransferInv, EndedOrTaken
<1>8. TakenRightly'
  <2>1. ASSUME NEW j \in SessionId, taken'[j] # Untaken
        PROVE  Rightful(j, taken[j].purpose, taken[j].at)'
    <3>1. CASE j = i
      BY <3>1, <2>1, <1>1, <1>4 DEF Rightful
    <3>2. CASE j # i
      BY <3>2, <2>1, <1>3 DEF TransferInv, TakenRightly, Rightful
    <3> QED BY <3>1, <3>2
  <2> QED BY <2>1 DEF TakenRightly
<1>9. EndedRightly'
  BY DEF TransferInv, EndedRightly, Rightful
<1> QED BY <1>5, <1>6, <1>7, <1>8, <1>9 DEF TransferInv

\* A preview with nothing in its past ends.
LEMMA EndKeeps ==
  ASSUME TransferInv, NEW i \in SessionId, NEW how \in Purpose \cup {"refused", "cancelled"},
         NEW at \in Nat, Ends(i, how, at), ended[i] = <<>>, shown[i] # Untold,
         how \in Purpose => Rightful(i, how, at),
         taken' = [taken EXCEPT ![i] = Untaken],
         sessions' \subseteq sessions \ {i},
         UNCHANGED <<now, shown, confirmed>>
  PROVE  TransferInv'
<1> DEFINE e == [how |-> how, at |-> at]
<1>1. ended' = [ended EXCEPT ![i] = Append(ended[i], e)]
  BY DEF Ends
<1>2. e \in Ending /\ ended[i] \in Seq(Ending)
  BY DEF Ending, TransferInv, Shapes
<1>3. /\ Append(ended[i], e) \in Seq(Ending)
      /\ Len(Append(ended[i], e)) = 1
      /\ DOMAIN Append(ended[i], e) = {1}
      /\ Append(ended[i], e)[1] = e
  BY <1>2
<1> HIDE DEF e
<1>4. /\ ended'[i] = Append(ended[i], e)
      /\ \A j \in SessionId \ {i} : ended'[j] = ended[j]
      /\ taken'[i] = Untaken
      /\ \A j \in SessionId \ {i} : taken'[j] = taken[j]
  BY <1>1 DEF TransferInv, Shapes
<1>5. Shapes'
  BY <1>1, <1>3 DEF TransferInv, Shapes
<1>6. InTable' /\ Unshown'
  BY <1>4 DEF TransferInv, InTable, Unshown, Shapes
<1>7. EndedOrTaken'
  <2>1. ASSUME NEW j \in SessionId
        PROVE  Len(ended'[j]) <= 1 /\ (taken'[j] # Untaken => ended'[j] = <<>>)
    <3>1. CASE j = i
      <4>1. Len(ended'[j]) = 1 /\ taken'[j] = Untaken
        BY <3>1, <1>3, <1>4
      <4> QED BY <4>1
    <3>2. CASE j # i
      BY <3>2, <1>4 DEF TransferInv, EndedOrTaken
    <3> QED BY <3>1, <3>2
  <2> QED BY <2>1 DEF EndedOrTaken
<1>8. TakenRightly'
  BY <1>4 DEF TransferInv, TakenRightly, Rightful
<1>9. EndedRightly'
  <2>1. ASSUME NEW j \in SessionId, NEW n \in DOMAIN ended'[j], ended'[j][n].how \in Purpose
        PROVE  Rightful(j, ended[j][n].how, ended[j][n].at)'
    <3>1. CASE j = i
      <4>1. ended'[j][n] = e
        BY <3>1, <1>3, <1>4
      <4> QED BY <3>1, <4>1, <2>1 DEF e, Rightful
    <3>2. CASE j # i
      BY <3>2, <2>1, <1>4 DEF TransferInv, EndedRightly, Rightful
    <3> QED BY <3>1, <3>2
  <2> QED BY <2>1 DEF EndedRightly
<1> QED BY <1>5, <1>6, <1>7, <1>8, <1>9 DEF TransferInv

\* Every command and every tick of the clock keeps the invariant.
LEMMA TransferInvStep == TransferInv /\ [TransferNext]_transferVars => TransferInv'
<1> SUFFICES ASSUME TransferInv, [TransferNext]_transferVars PROVE TransferInv'
  OBVIOUS
<1> USE AccountTransferAssumption
<1>1. CASE UNCHANGED transferVars
  BY <1>1 DEF transferVars, TransferInv, Shapes, InTable, Unshown, EndedOrTaken,
              TakenRightly, EndedRightly, Rightful
<1>2. ASSUME NEW i \in SessionId, ShowImport(i) PROVE TransferInv'
  BY <1>2, InsertKeeps DEF ShowImport, Purpose
<1>3. ASSUME NEW i \in SessionId, NEW key \in Passphrase, NEW purpose \in Purpose,
             ShowRestore(i, key, purpose)
      PROVE  TransferInv'
  BY <1>3, InsertKeeps DEF ShowRestore
<1>4. ASSUME NEW i \in SessionId, CommitShownImport(i) PROVE TransferInv'
  <2>1. (shown[i].purpose = "import") \in BOOLEAN /\ "import" \in Purpose
    BY DEF Purpose
  <2> QED BY <1>4, <2>1, TakeKeeps DEF CommitShownImport
<1>5. ASSUME NEW i \in SessionId, NEW purpose \in Purpose, NEW yes \in BOOLEAN,
             CommitShownRestore(i, purpose, yes)
      PROVE  TransferInv'
  <2>1. Agrees(i, purpose) \in BOOLEAN
    BY DEF Agrees
  <2>2. Agrees(i, purpose) => shown[i].purpose = purpose
    BY DEF Agrees
  <2>3. /\ confirmed \subseteq confirmed'
        /\ purpose = "replace" => i \in confirmed'
        /\ UNCHANGED <<now, shown, ended>>
        /\ TakeSession(i) /\ Proceed(i, purpose, Agrees(i, purpose))
    BY <1>5 DEF CommitShownRestore
  <2> QED BY <2>1, <2>2, <2>3, TakeKeeps
<1>6. ASSUME NEW i \in SessionId, Apply(i) PROVE TransferInv'
  <2>1. PICK how \in {taken[i].purpose, "refused"} : Ends(i, how, taken[i].at)
    BY <1>6 DEF Apply
  <2>2. /\ taken[i] # Untaken /\ taken' = [taken EXCEPT ![i] = Untaken]
        /\ UNCHANGED <<now, sessions, shown, confirmed>>
    BY <1>6 DEF Apply
  <2>3. taken[i] \in Taking /\ ended[i] = <<>> /\ i \notin sessions /\ shown[i] # Untold
    BY <2>2 DEF TransferInv, Shapes, EndedOrTaken, InTable, Unshown
  <2>4. Rightful(i, taken[i].purpose, taken[i].at)
    BY <2>2 DEF TransferInv, TakenRightly
  <2>5. /\ how \in Purpose \cup {"refused", "cancelled"}
        /\ how \in Purpose => Rightful(i, how, taken[i].at)
    BY <2>1, <2>3, <2>4 DEF Taking, Purpose
  <2>6. taken[i].at \in Nat /\ sessions' \subseteq sessions \ {i}
    BY <2>2, <2>3 DEF Taking
  <2> QED BY <2>1, <2>2, <2>3, <2>5, <2>6, EndKeeps
<1>7. ASSUME NEW i \in SessionId, CancelShown(i) PROVE TransferInv'
  <2>1. /\ i \in sessions /\ sessions' \subseteq sessions \ {i}
        /\ Ends(i, "cancelled", now) /\ UNCHANGED <<now, shown, taken, confirmed>>
    BY <1>7 DEF CancelShown, TakeSession, Live, Unexpired
  <2>2. taken[i] = Untaken /\ ended[i] = <<>> /\ shown[i] # Untold
    BY <2>1 DEF TransferInv, InTable, Unshown
  <2>3. taken' = [taken EXCEPT ![i] = Untaken] /\ now \in Nat
    BY <2>1, <2>2 DEF TransferInv, Shapes
  <2>4. "cancelled" \notin Purpose
    BY DEF Purpose
  <2> QED BY <2>1, <2>2, <2>3, <2>4, EndKeeps
<1>8. ASSUME NEW key \in Passphrase, CreateBackup(key) PROVE TransferInv'
  BY <1>8 DEF CreateBackup, TransferInv, Shapes, InTable, Unshown, EndedOrTaken,
              TakenRightly, EndedRightly, Rightful
<1>9. CASE FillBackup
  BY <1>9 DEF FillBackup, TransferInv, Shapes, InTable, Unshown, EndedOrTaken,
              TakenRightly, EndedRightly, Rightful
<1>10. CASE TransferTick
  BY <1>10 DEF TransferTick, TransferInv, Shapes, InTable, Unshown, EndedOrTaken,
               TakenRightly, EndedRightly, Rightful
<1> QED
  BY <1>1, <1>2, <1>3, <1>4, <1>5, <1>6, <1>7, <1>8, <1>9, <1>10 DEF TransferNext

\* The invariant holds of every behaviour.
LEMMA TransferInvariant == TransferSpec => []TransferInv
  BY TransferInvInit, TransferInvStep, PTL DEF TransferSpec

-----------------------------------------------------------------------------
\* Whatever commands name it and however they interleave, a preview changes the
\* pool at most once, as it was shown, in time, and if it replaces all accounts
\* then after its confirmation (take_session, commit_import, commit_restore).
THEOREM AppliedOnceAsShown == TransferSpec => []ShownBeforeApplied
<1>1. TransferInv => ShownBeforeApplied
  <2> SUFFICES ASSUME TransferInv PROVE PreviewEndsOnce /\ AppliedAsShown
    BY DEF ShownBeforeApplied
  <2>1. PreviewEndsOnce
    <3> SUFFICES ASSUME NEW i \in SessionId
                 PROVE  Len(ended[i]) + (IF taken[i] = Untaken THEN 0 ELSE 1) <= 1
      BY DEF PreviewEndsOnce
    <3>1. Len(ended[i]) \in Nat /\ Len(ended[i]) <= 1
      BY DEF TransferInv, Shapes, EndedOrTaken
    <3>2. taken[i] # Untaken => Len(ended[i]) = 0
      BY DEF TransferInv, EndedOrTaken
    <3>3. CASE taken[i] = Untaken
      BY <3>1, <3>3
    <3>4. CASE taken[i] # Untaken
      BY <3>2, <3>4
    <3> QED BY <3>3, <3>4
  <2>2. AppliedAsShown
    BY DEF TransferInv, EndedRightly, Rightful, AppliedAsShown
  <2> QED BY <2>1, <2>2
<1> QED BY <1>1, TransferInvariant, PTL

\* The previews' types, and that the table of previews is finite: MAX_SESSIONS at most.
TransferTyped ==
  /\ now \in 0 .. LastTick
  /\ IsFiniteSet(sessions) /\ Cardinality(sessions) <= MaxSessions
  /\ shown \in [SessionId -> {Untold} \cup [purpose : Purpose, until : 0 .. (LastTick + SessionTtl)]]
  /\ \A i \in sessions : shown[i].until <= now + SessionTtl
  /\ taken \in [SessionId -> {Untaken} \cup [purpose : Purpose, at : 0 .. LastTick]]
  /\ backup = [state |-> backup.state, key |-> backup.key]
  /\ backup.state \in {"none", "torn", "whole"}
  /\ confirmed \subseteq SessionId

\* There is no backup yet.
LEMMA NoBackupTyped == NoBackup.state = "none" /\ NoBackup = [state |-> NoBackup.state, key |-> NoBackup.key]
<1>1. \A key : /\ [state |-> "none", key |-> key].state = "none"
               /\ [state |-> "none", key |-> key].key = key
  OBVIOUS
<1> QED BY <1>1, Zenon DEF NoBackup

\* A command may leave fewer previews in the table than there were.
LEMMA FewerPreviews ==
  ASSUME TransferTyped, NEW kept \in SUBSET sessions
  PROVE  IsFiniteSet(kept) /\ Cardinality(kept) <= Cardinality(sessions)
         /\ Cardinality(kept) \in Nat /\ Cardinality(sessions) \in Nat
  BY FS_Subset, FS_CardinalityType DEF TransferTyped

\* A command takes a preview, or removes it.
LEMMA TakingStaysTyped ==
  ASSUME TransferInv, TransferTyped, AccountTransferAssumption, NEW i \in SessionId, TakeSession(i),
         taken' = taken \/ \E purpose \in Purpose :
                              taken' = [taken EXCEPT ![i] = [purpose |-> purpose, at |-> now]],
         confirmed' \subseteq SessionId, UNCHANGED <<now, shown, backup>>
  PROVE  TransferTyped'
<1>1. sessions' \in SUBSET sessions
  BY DEF TakeSession, Live, Unexpired
<1>2. IsFiniteSet(sessions') /\ Cardinality(sessions') <= MaxSessions
  <2>1. MaxSessions \in Nat
    BY DEF AccountTransferAssumption
  <2> QED BY <1>1, <2>1, FewerPreviews DEF TransferTyped
<1>3. taken' \in [SessionId -> {Untaken} \cup [purpose : Purpose, at : 0 .. LastTick]]
  BY DEF TransferTyped
<1> QED BY <1>1, <1>2, <1>3 DEF TransferTyped

\* Previews stay typed; the table never holds more than MAX_SESSIONS (insert_session).
LEMMA TransferStaysTyped == TransferSpec => []TransferTypeOK
<1>1. TransferInit => TransferTyped
  <2> SUFFICES ASSUME TransferInit PROVE TransferTyped
    OBVIOUS
  <2>1. IsFiniteSet({})
    BY FS_EmptySet
  <2>2. Cardinality({}) = 0
    BY FS_EmptySet
  <2> QED BY <2>1, <2>2, AccountTransferAssumption, NoBackupTyped DEF AccountTransferAssumption, TransferInit, TransferTyped
<1>2. TransferInv /\ TransferTyped /\ [TransferNext]_transferVars => TransferTyped'
  <2> SUFFICES ASSUME TransferInv, TransferTyped, [TransferNext]_transferVars PROVE TransferTyped'
    OBVIOUS
  <2>1. SessionTtl \in Nat /\ MaxSessions \in Nat \ {0} /\ LastTick \in Nat /\ now \in Nat
    BY AccountTransferAssumption DEF AccountTransferAssumption, TransferTyped
  <2>2. CASE UNCHANGED transferVars
    BY <2>2 DEF transferVars, TransferTyped
  <2>3. ASSUME NEW i \in SessionId, NEW purpose \in Purpose, Insert(i, purpose) PROVE TransferTyped'
    <3>1. PICK kept \in Evicted(Unexpired(sessions)) : sessions' = kept \cup {i}
      BY <2>3 DEF Insert
    <3>2. kept \in SUBSET sessions /\ Cardinality(kept) < MaxSessions
      BY <3>1 DEF Evicted, Unexpired
    <3>3. IsFiniteSet(sessions') /\ Cardinality(sessions') <= MaxSessions
      <4>1. IsFiniteSet(kept) /\ Cardinality(kept) \in Nat
        BY <3>2, FewerPreviews
      <4>2. IsFiniteSet(kept \cup {i})
            /\ (Cardinality(kept \cup {i}) = Cardinality(kept)
                \/ Cardinality(kept \cup {i}) = Cardinality(kept) + 1)
        BY <4>1, FS_AddElement
      <4> QED BY <2>1, <3>1, <3>2, <4>1, <4>2
    <3>4. now + SessionTtl \in 0 .. (LastTick + SessionTtl)
      BY <2>1 DEF TransferTyped
    <3>5. /\ shown' = [shown EXCEPT ![i] = [purpose |-> purpose, until |-> now + SessionTtl]]
          /\ UNCHANGED <<now, taken, ended, confirmed, backup>>
      BY <2>3 DEF Insert
    <3>6. shown' \in [SessionId -> {Untold} \cup [purpose : Purpose, until : 0 .. (LastTick + SessionTtl)]]
      BY <3>4, <3>5 DEF TransferTyped
    <3>7. shown \in [SessionId -> {Untold} \cup [purpose : Purpose, until : 0 .. (LastTick + SessionTtl)]]
      BY DEF TransferTyped
    <3>8. shown'[i] = [purpose |-> purpose, until |-> now + SessionTtl]
          /\ \A j \in SessionId : j # i => shown'[j] = shown[j]
      BY <3>5, <3>7
    <3>9. \A j \in sessions' : shown'[j].until <= now + SessionTtl
      <4> SUFFICES ASSUME NEW j \in sessions' PROVE shown'[j].until <= now + SessionTtl
        OBVIOUS
      <4>1. CASE j = i
        BY <2>1, <3>8, <4>1
      <4>2. CASE j # i
        <5>1. j \in sessions /\ j \in SessionId
          BY <3>1, <3>2, <4>2 DEF TransferInv, Shapes
        <5> QED BY <3>8, <4>2, <5>1 DEF TransferTyped
      <4> QED BY <4>1, <4>2
    <3> QED BY <3>3, <3>5, <3>6, <3>9 DEF TransferTyped
  <2>4. ASSUME NEW i \in SessionId, CommitShownImport(i) PROVE TransferTyped'
    <3>1. /\ TakeSession(i) /\ UNCHANGED <<now, shown, ended, confirmed, backup>>
          /\ taken' = taken \/ taken' = [taken EXCEPT ![i] = [purpose |-> "import", at |-> now]]
      BY <2>4 DEF CommitShownImport, Proceed
    <3> QED BY <3>1, TakingStaysTyped, AccountTransferAssumption DEF Purpose, TransferTyped
  <2>5. ASSUME NEW i \in SessionId, NEW purpose \in Purpose, NEW yes \in BOOLEAN,
               CommitShownRestore(i, purpose, yes)
        PROVE  TransferTyped'
    <3>1. /\ TakeSession(i) /\ UNCHANGED <<now, shown, ended, backup>>
          /\ taken' = taken \/ taken' = [taken EXCEPT ![i] = [purpose |-> purpose, at |-> now]]
          /\ confirmed' \subseteq SessionId
      BY <2>5 DEF CommitShownRestore, Proceed, TransferTyped
    <3> QED BY <3>1, TakingStaysTyped, AccountTransferAssumption
  <2>6. ASSUME NEW i \in SessionId, Apply(i) PROVE TransferTyped'
    <3>1. taken' = [taken EXCEPT ![i] = Untaken] /\ UNCHANGED <<now, sessions, shown, confirmed, backup>>
      BY <2>6 DEF Apply
    <3> QED BY <3>1 DEF TransferTyped
  <2>7. ASSUME NEW i \in SessionId, CancelShown(i) PROVE TransferTyped'
    <3>1. TakeSession(i) /\ UNCHANGED <<now, shown, taken, confirmed, backup>>
      BY <2>7 DEF CancelShown
    <3> QED BY <3>1, TakingStaysTyped, AccountTransferAssumption DEF TransferTyped
  <2>8. CASE (\E key \in Passphrase : CreateBackup(key)) \/ FillBackup
    <3>1. /\ backup' = [state |-> backup'.state, key |-> backup'.key]
          /\ backup'.state \in {"none", "torn", "whole"}
          /\ UNCHANGED <<now, sessions, shown, taken, ended, confirmed>>
      <4>1. CASE \E key \in Passphrase : CreateBackup(key)
        BY <4>1 DEF CreateBackup
      <4>2. CASE FillBackup
        BY <4>2, NoBackupTyped DEF FillBackup, TransferTyped
      <4> QED BY <2>8, <4>1, <4>2
    <3> QED BY <3>1 DEF TransferTyped
  <2>9. CASE TransferTick
    <3>1. now' \in 0 .. LastTick /\ now' = now + 1 /\ UNCHANGED <<sessions, shown, taken, ended, confirmed, backup>>
      BY <2>1, <2>9 DEF TransferTick
    <3>2. \A i \in sessions : shown[i].until <= now + 1 + SessionTtl
      <4> SUFFICES ASSUME NEW i \in sessions PROVE shown[i].until <= now + 1 + SessionTtl
        OBVIOUS
      <4>1. shown[i].until \in Nat /\ shown[i].until <= now + SessionTtl
        <5>1. i \in SessionId /\ shown[i] # Untold
          BY DEF TransferInv, Shapes, Unshown
        <5> QED BY <2>1, <5>1 DEF TransferTyped
      <4> QED BY <2>1, <4>1
    <3> QED BY <2>1, <3>1, <3>2 DEF TransferTyped
  <2>10. ASSUME NEW i \in SessionId, ShowImport(i) \/ \E purpose \in Purpose, key \in Passphrase : ShowRestore(i, key, purpose)
         PROVE  TransferTyped'
    BY <2>3, <2>10 DEF ShowImport, ShowRestore, Purpose
  <2> QED BY <2>2, <2>4, <2>5, <2>6, <2>7, <2>8, <2>9, <2>10 DEF TransferNext
<1>3. TransferInv /\ TransferTyped => TransferTypeOK
  BY DEF TransferInv, Shapes, Unshown, TransferTyped, TransferTypeOK
<1> QED BY <1>1, <1>2, <1>3, TransferInvariant, PTL DEF TransferSpec

-----------------------------------------------------------------------------
(***************************************************************************)
(* Quotas. The invariant says of every query under way that it has decided *)
(* what the answers it has call for.                                       *)
(***************************************************************************)

\* An account's answer so far, and what is decided of a tool.
SomeAnswers == {"", "ok", "err"}
Decided == [state : {"none", "available", "error", "unsupported"}, from : 0 .. MaxTried]

\* A decision is the one the answers call for, in the order of the accounts.
IsDecision(d, answers) ==
  /\ d \in Decided
  /\ d.state = "none" => d = Undecided
  /\ d.state = "available" => /\ d.from \in DOMAIN answers /\ answers[d.from] = "ok"
                              /\ \A i \in 1 .. (d.from - 1) : answers[i] = "err"
  /\ d.state = "error" => \A i \in DOMAIN answers : answers[i] = "err"

IsAsking(q) ==
  /\ q.stage = "asking" /\ q.car \in QuotaCar
  /\ DOMAIN q.of = ToolsOf[q.car] /\ DOMAIN q.decided = ToolsOf[q.car]
  /\ \A t \in ToolsOf[q.car] :
        /\ \E n \in 0 .. MaxTried : q.of[t] \in [1 .. n -> SomeAnswers]
        /\ IsDecision(q.decided[t], q.of[t])

QuotasInv ==
  /\ QuotasTypeOK
  /\ DOMAIN asker = Asker
  /\ \A a \in Asker : asker[a] = NoAsker \/ IsAsking(asker[a])

\* What is decided of a set of answers is what they call for.
LEMMA DecisionIsSound ==
  ASSUME NEW n \in 0 .. MaxTried, NEW answers \in [1 .. n -> SomeAnswers]
  PROVE  IsDecision(Decision(answers), answers)
<1> DEFINE Good(i) == answers[i] = "ok" /\ \A j \in 1 .. (i - 1) : answers[j] = "err"
<1>1. MaxTried \in Nat
  BY QuotasAssumption
<1>2. CASE \E i \in DOMAIN answers : Good(i)
  <2>1. PICK k \in DOMAIN answers : Good(k) /\ k = CHOOSE i \in DOMAIN answers : Good(i)
    BY <1>2
  <2>2. Decision(answers) = [state |-> "available", from |-> k]
    BY <1>2, <2>1 DEF Decision
  <2> QED BY <1>1, <2>1, <2>2 DEF IsDecision, Decided
<1>3. CASE ~(\E i \in DOMAIN answers : Good(i)) /\ \A i \in DOMAIN answers : answers[i] = "err"
  <2>1. Decision(answers) = [state |-> "error", from |-> 0]
    BY <1>3 DEF Decision
  <2> QED BY <1>1, <1>3, <2>1 DEF IsDecision, Decided
<1>4. CASE ~(\E i \in DOMAIN answers : Good(i)) /\ ~(\A i \in DOMAIN answers : answers[i] = "err")
  <2>1. Decision(answers) = Undecided
    BY <1>4 DEF Decision
  <2> QED BY <1>1, <2>1 DEF IsDecision, Decided, Undecided
<1> QED BY <1>2, <1>3, <1>4

\* A query reads the car and asks.
LEMMA AskQuotasKeeps ==
  ASSUME QuotasInv, NEW a \in Asker, AskQuotas(a)
  PROVE  QuotasInv'
<1>1. car \in QuotaCar /\ UNCHANGED <<car, starts, quotas>>
  BY DEF AskQuotas, QuotasInv, QuotasTypeOK
<1>2. PICK n \in [ToolsOf[car] -> 0 .. MaxTried], d \in [ToolsOf[car] -> Unasked \cup {Undecided}] :
         /\ \A t \in ToolsOf[car] : (d[t] = Undecided) <=> (n[t] > 0)
         /\ asker' = [asker EXCEPT ![a] =
                [stage |-> "asking", car |-> car, decided |-> d,
                 of |-> [t \in ToolsOf[car] |-> [i \in 1 .. n[t] |-> ""]]]]
  BY DEF AskQuotas
<1> DEFINE new == [stage |-> "asking", car |-> car, decided |-> d,
                   of |-> [t \in ToolsOf[car] |-> [i \in 1 .. n[t] |-> ""]]]
<1>3. ASSUME NEW t \in ToolsOf[car]
      PROVE  /\ \E m \in 0 .. MaxTried : new.of[t] \in [1 .. m -> SomeAnswers]
             /\ IsDecision(new.decided[t], new.of[t])
  <2>1. n[t] \in 0 .. MaxTried /\ new.of[t] = [i \in 1 .. n[t] |-> ""] /\ new.decided[t] = d[t]
    OBVIOUS
  <2>2. new.of[t] \in [1 .. n[t] -> SomeAnswers]
    BY <2>1 DEF SomeAnswers
  <2>3. d[t] \in Unasked \cup {Undecided} /\ MaxTried \in Nat
    BY QuotasAssumption
  <2>4. d[t] \in Decided /\ (d[t].state = "none" => d[t] = Undecided) /\ d[t].state # "available"
    BY <2>3 DEF Unasked, Undecided, Decided
  <2>5. d[t].state = "error" => \A i \in DOMAIN new.of[t] : new.of[t][i] = "err"
    <3>1. SUFFICES ASSUME d[t].state = "error" PROVE DOMAIN new.of[t] = {}
      OBVIOUS
    <3>2. d[t] # Undecided
      BY <3>1 DEF Undecided
    <3>3. ~(n[t] > 0)
      BY <1>2, <3>2, Zenon
    <3>4. n[t] \in Nat
      <4>1. n[t] \in 0 .. MaxTried
        BY <2>1
      <4> QED BY <2>3, <4>1
    <3>5. n[t] = 0
      BY <3>3, <3>4
    <3>6. DOMAIN new.of[t] = 1 .. n[t]
      BY <2>2
    <3>7. 1 .. 0 = {}
      OBVIOUS
    <3> QED BY <3>5, <3>6, <3>7, Zenon
  <2> QED BY <2>1, <2>2, <2>4, <2>5 DEF IsDecision
<1>4. IsAsking(new)
  BY <1>1, <1>3 DEF IsAsking
<1> HIDE DEF new
<1>5. DOMAIN asker' = Asker /\ \A b \in Asker : asker'[b] = IF b = a THEN new ELSE asker[b]
  BY <1>2 DEF new, QuotasInv
<1> QED BY <1>1, <1>4, <1>5 DEF QuotasInv, QuotasTypeOK

\* An account answers, and the answers may now decide.
LEMMA AccountAnswersKeeps ==
  ASSUME QuotasInv, NEW a \in Asker, NEW t, NEW i, NEW answer \in AccountAnswer, AccountAnswers(a, t, i, answer)
  PROVE  QuotasInv'
<1> DEFINE q == asker[a]
           answers == [q.of[t] EXCEPT ![i] = answer]
           new == [q EXCEPT !.of[t] = answers, !.decided[t] = Decision(answers)]
<1>1. /\ q.stage = "asking" /\ t \in DOMAIN q.of /\ i \in DOMAIN q.of[t]
      /\ asker' = [asker EXCEPT ![a].of[t] = answers, ![a].decided[t] = Decision(answers)]
      /\ UNCHANGED <<car, starts, quotas>>
  BY DEF AccountAnswers
<1>2. IsAsking(q) /\ t \in ToolsOf[q.car]
  BY <1>1 DEF QuotasInv, NoAsker, IsAsking
<1>3. PICK n \in 0 .. MaxTried : q.of[t] \in [1 .. n -> SomeAnswers]
  BY <1>2 DEF IsAsking
<1>4. answers \in [1 .. n -> SomeAnswers]
  BY <1>1, <1>3 DEF AccountAnswer, SomeAnswers
<1>5. IsDecision(Decision(answers), answers)
  BY <1>4, DecisionIsSound
<1>6. /\ new.stage = q.stage /\ new.car = q.car
      /\ new.of = [q.of EXCEPT ![t] = answers]
      /\ new.decided = [q.decided EXCEPT ![t] = Decision(answers)]
  OBVIOUS
<1>7. DOMAIN asker' = Asker /\ \A b \in Asker : asker'[b] = IF b = a THEN new ELSE asker[b]
  BY <1>1 DEF QuotasInv
<1> HIDE DEF answers, new
<1>8. IsAsking(new)
  BY <1>2, <1>4, <1>5, <1>6 DEF IsAsking
<1> QED BY <1>1, <1>7, <1>8 DEF QuotasInv, QuotasTypeOK

\* What a query shows once it has decided.
LEMMA MergedIsShown ==
  ASSUME NEW d \in Decided, d # Undecided, d.state = "none" => d = Undecided,
         NEW old \in [state : {"pending", "available", "error", "unsupported"}, from : 0 .. MaxTried]
  PROVE  /\ d \in [state : {"pending", "available", "error", "unsupported"}, from : 0 .. MaxTried]
         /\ Merged1(old, d) \in [state : {"pending", "available", "error", "unsupported"},
                                 from : 0 .. MaxTried]
         /\ old.from # 0 => \/ Merged1(old, d).from # 0
                            \/ Merged1(old, d).state = "unsupported" /\ d.state = "unsupported"
                            \/ Merged1(old, d) = d /\ d.state = "available"
  BY DEF Decided, Merged1, Undecided

\* The outcome of a query is merged into the car, if it is still this car.
LEMMA MergeQuotasKeeps ==
  ASSUME QuotasInv, NEW a \in Asker, MergeQuotas(a)
  PROVE  /\ QuotasInv'
         /\ \A t \in DOMAIN quotas : car' = car /\ quotas[t].from # 0 =>
               quotas'[t].from # 0 \/ quotas'[t].state = "unsupported"
<1> DEFINE q == asker[a]
           Shown == [state : {"pending", "available", "error", "unsupported"}, from : 0 .. MaxTried]
<1>1. /\ q.stage = "asking" /\ \A t \in DOMAIN q.of : q.decided[t] # Undecided
      /\ asker' = [asker EXCEPT ![a] = NoAsker] /\ UNCHANGED <<car, starts>>
      /\ quotas' = IF StillOut(a)
                   THEN [t \in DOMAIN q.of |-> IF t \in DOMAIN quotas THEN Merged1(quotas[t], q.decided[t])
                                               ELSE q.decided[t]]
                   ELSE quotas
  BY DEF MergeQuotas
<1>2. IsAsking(q)
  BY <1>1 DEF QuotasInv, NoAsker
<1>3. DOMAIN asker' = Asker /\ \A b \in Asker : asker'[b] = NoAsker \/ IsAsking(asker'[b])
  BY <1>1 DEF QuotasInv
<1>4. CASE ~StillOut(a)
  <2>1. UNCHANGED quotas
    BY <1>1, <1>4
  <2> QED BY <1>1, <1>3, <2>1 DEF QuotasInv, QuotasTypeOK
<1>5. CASE StillOut(a)
  <2>1. car \in QuotaCar /\ car # NoCar /\ DOMAIN q.of = ToolsOf[car]
    BY <1>2, <1>5, QuotasAssumption DEF StillOut, IsAsking
  <2>2. quotas \in [ToolsOf[car] -> Shown]
    BY <2>1 DEF QuotasInv, QuotasTypeOK
  <2>3. \A t \in ToolsOf[car] : quotas'[t] = Merged1(quotas[t], q.decided[t])
    BY <1>1, <1>5, <2>1, <2>2
  <2>4. ASSUME NEW t \in ToolsOf[car]
        PROVE  /\ quotas'[t] \in Shown
               /\ quotas[t].from # 0 => quotas'[t].from # 0 \/ quotas'[t].state = "unsupported"
    <3>1. IsDecision(q.decided[t], q.of[t]) /\ q.decided[t] # Undecided
      BY <1>1, <1>2, <2>1 DEF IsAsking, StillOut
    <3>2. q.decided[t].state = "available" => q.decided[t].from # 0
      <4>1. PICK n \in 0 .. MaxTried : q.of[t] \in [1 .. n -> SomeAnswers]
        BY <1>2, <1>5, <2>1 DEF IsAsking, StillOut
      <4> QED BY <3>1, <4>1, QuotasAssumption DEF IsDecision
    <3>3. quotas[t] \in Shown
      BY <2>2
    <3>4. /\ Merged1(quotas[t], q.decided[t]) \in Shown
          /\ quotas[t].from # 0 => \/ Merged1(quotas[t], q.decided[t]).from # 0
                                   \/ Merged1(quotas[t], q.decided[t]).state = "unsupported"
      BY <3>1, <3>2, <3>3, MergedIsShown DEF IsDecision
    <3> QED BY <2>3, <3>4
  <2>5. quotas' \in [ToolsOf[car] -> Shown]
    BY <1>1, <1>5, <2>1, <2>4
  <2> QED BY <1>1, <1>3, <2>1, <2>2, <2>4, <2>5 DEF QuotasInv, QuotasTypeOK
<1> QED BY <1>4, <1>5

\* Nothing is asked at first.
LEMMA QuotasBegin ==
  ASSUME QuotasInit
  PROVE  QuotasInv
  BY QuotasAssumption DEF QuotasInit, QuotasInv, QuotasTypeOK

\* Every step keeps the invariant and the last result of each tool.
LEMMA QuotasStep ==
  ASSUME QuotasInv, [QuotasNext]_quotasVars
  PROVE  /\ QuotasInv'
         /\ \A t \in DOMAIN quotas : starts' = starts /\ car' = car /\ quotas[t].from # 0 =>
               quotas'[t].from # 0 \/ quotas'[t].state = "unsupported"
<1>1. CASE UNCHANGED quotasVars
  BY <1>1 DEF quotasVars, QuotasInv, QuotasTypeOK
<1>2. ASSUME NEW c \in QuotaCar, StartQuotas(c)
      PROVE  QuotasInv' /\ starts' # starts
  <2>1. starts \in Nat /\ starts + 1 \in 0 .. MaxStarts
    BY <1>2, QuotasAssumption DEF StartQuotas, QuotasInv, QuotasTypeOK
  <2>2. quotas' \in [ToolsOf[c] -> [state : {"pending", "available", "error", "unsupported"}, from : 0 .. MaxTried]]
    BY <1>2, QuotasAssumption DEF StartQuotas, PendingQuota
  <2>3. c # NoCar
    BY QuotasAssumption
  <2> QED BY <1>2, <2>1, <2>2, <2>3 DEF StartQuotas, QuotasInv, QuotasTypeOK
<1>3. CASE StopQuotas
  BY <1>3 DEF StopQuotas, QuotasInv, QuotasTypeOK
<1>4. ASSUME NEW a \in Asker, AskQuotas(a)
      PROVE  QuotasInv' /\ UNCHANGED quotas
  BY <1>4, AskQuotasKeeps DEF AskQuotas
<1>5. ASSUME NEW a \in Asker, NEW t, NEW i, NEW answer \in AccountAnswer, AccountAnswers(a, t, i, answer)
      PROVE  QuotasInv' /\ UNCHANGED quotas
  BY <1>5, AccountAnswersKeeps DEF AccountAnswers
<1>6. ASSUME NEW a \in Asker, MergeQuotas(a)
      PROVE  /\ QuotasInv'
             /\ \A t \in DOMAIN quotas : car' = car /\ quotas[t].from # 0 =>
                   quotas'[t].from # 0 \/ quotas'[t].state = "unsupported"
  BY <1>6, MergeQuotasKeeps
<1>7. CASE StopQuotas
  BY <1>3, <1>7 DEF StopQuotas
<1> QED BY <1>1, <1>2, <1>3, <1>4, <1>5, <1>6, <1>7 DEF QuotasNext, quotasVars, StopQuotas

\* A quota that is decided is that of the first account, in the car's order, that
\* answered at all; whoever answers sooner does not matter (account_quota.rs).
THEOREM BestAccountDecides == QuotasSpec => []BestAccountSpeaks
<1>1. QuotasInv => BestAccountSpeaks
  BY DEF QuotasInv, BestAccountSpeaks, IsAsking, IsDecision, NoAsker
<1>2. QuotasInit => QuotasInv
  BY QuotasBegin
<1>3. QuotasInv /\ [QuotasNext]_quotasVars => QuotasInv'
  BY QuotasStep
<1> QED BY <1>1, <1>2, <1>3, PTL DEF QuotasSpec

\* LastResultStays: while a car is out, no query that fails or is overtaken blanks the
\* windows that are shown of a tool; they give way to other windows, perhaps those of an
\* older query that ends later, or to the news that there are none (commands.rs, merge
\* of the quotas).
THEOREM QuotaResultsStay == QuotasSpec => LastResultStays
<1>1. QuotasInit => QuotasInv
  BY QuotasBegin
<1>2. QuotasInv /\ [QuotasNext]_quotasVars => QuotasInv'
  BY QuotasStep
<1>3. QuotasInv /\ [QuotasNext]_quotasVars =>
         [\A t \in DOMAIN quotas :
             (/\ starts' = starts /\ car' = car /\ quotas[t].from # 0)
                => \/ quotas'[t].from # 0
                   \/ quotas'[t].state = "unsupported"]_quotasVars
  BY QuotasStep
<1> QED BY <1>1, <1>2, <1>3, PTL DEF QuotasSpec, LastResultStays

\* The quotas' types.
LEMMA QuotasStayTyped == QuotasSpec => []QuotasTypeOK
<1>1. QuotasInv => QuotasTypeOK
  BY DEF QuotasInv
<1> QED BY <1>1, QuotasBegin, QuotasStep, PTL DEF QuotasSpec
=============================================================================
