-------------------------- MODULE AccountTransfer --------------------------
(***************************************************************************)
(* Previews of account imports and restores (account_transfer.rs).  A      *)
(* preview parses its input, shows what would change and leaves the parsed *)
(* accounts in a session of the process; a later command takes the session *)
(* and only then changes the account store.  Commands run in threads of    *)
(* their own: each takes the session table's lock once, so every action    *)
(* below is one holding of that lock, and the write to the store that      *)
(* follows a take is a step of its own (AccountPool says what it does).    *)
(***************************************************************************)
EXTENDS Naturals, Sequences, FiniteSets

CONSTANTS SessionId,    \* the ids previews are given, each once
          Passphrase,   \* passphrases long enough to be accepted
          SessionTtl,   \* SESSION_TTL_MS
          MaxSessions,  \* MAX_SESSIONS
          LastTick      \* bound: the clock

ASSUME AccountTransferAssumption ==
    /\ {SessionTtl, MaxSessions, LastTick} \subseteq Nat \ {0}

Purpose == {"import", "merge", "replace"}
Untold == [purpose |-> "none", until |-> 0]
Untaken == [purpose |-> "none", at |-> 0]

VARIABLES now,
          sessions,   \* the ids in the table
          shown,      \* what each id's preview said, Untold before it
          taken,      \* what a commit took and has yet to apply, and when
          ended,      \* history: what became of each preview
          confirmed,  \* history: the replacements the user confirmed
          backup      \* the backup file: its state and its passphrase

transferVars == <<now, sessions, shown, taken, ended, confirmed, backup>>

NoBackup == [state |-> "none", key |-> ""]

TransferInit ==
    /\ now = 0
    /\ sessions = {}
    /\ shown = [i \in SessionId |-> Untold]
    /\ taken = [i \in SessionId |-> Untaken]
    /\ ended = [i \in SessionId |-> <<>>]
    /\ confirmed = {}
    /\ backup = NoBackup

-----------------------------------------------------------------------------
Unexpired(ids) == {i \in ids : shown[i].until > now}

\* Every command prunes the table before it looks at it.
Live(ids) == Unexpired(ids)

\* Room for one more: as many of the oldest as it takes are dropped.
Evicted(ids) ==
    {kept \in SUBSET ids :
        /\ Cardinality(kept) < MaxSessions
        /\ \A i \in kept, j \in ids \ kept : shown[i].until >= shown[j].until
        /\ kept # ids => Cardinality(kept) = MaxSessions - 1}

\* insert_session
Insert(i, purpose) ==
    /\ shown[i] = Untold
    /\ \E kept \in Evicted(Unexpired(sessions)) : sessions' = kept \cup {i}
    /\ shown' = [shown EXCEPT ![i] = [purpose |-> purpose, until |-> now + SessionTtl]]
    /\ UNCHANGED <<now, taken, ended, confirmed, backup>>

ShowImport(i) == Insert(i, "import")

\* The backup opens when all of it is there and the passphrase is its own.
ShowRestore(i, key, purpose) ==
    /\ purpose # "import"
    /\ backup.state = "whole" /\ backup.key = key
    /\ Insert(i, purpose)

\* Fault: the session is looked up and stays in the table.
TakeSessionKept(i) ==
    /\ i \in Live(sessions)
    /\ sessions' = Live(sessions)

\* take_session: of two commands with one id, the second finds nothing.
TakeSession(i) ==
    /\ i \in Live(sessions)
    /\ sessions' = Live(sessions) \ {i}

\* A session of another kind or mode is consumed and refused.
Proceed(i, purpose, agrees) ==
    taken' = IF agrees THEN [taken EXCEPT ![i] = [purpose |-> purpose, at |-> now]]
             ELSE taken

CommitShownImport(i) ==
    /\ TakeSession(i)
    /\ Proceed(i, "import", shown[i].purpose = "import")
    /\ UNCHANGED <<now, shown, ended, confirmed, backup>>

Agrees(i, purpose) == shown[i].purpose = purpose

\* commit_restore: a replacement needs its confirmation.
CommitShownRestore(i, purpose, yes) ==
    /\ purpose # "import"
    /\ purpose = "replace" => yes
    /\ TakeSession(i)
    /\ Proceed(i, purpose, Agrees(i, purpose))
    /\ confirmed' = IF purpose = "replace" THEN confirmed \cup {i} ELSE confirmed
    /\ UNCHANGED <<now, shown, ended, backup>>

Ends(i, how, at) == ended' = [ended EXCEPT ![i] = Append(@, [how |-> how, at |-> at])]

\* The prepared accounts reach the store, or the store refuses them.
Apply(i) ==
    /\ taken[i] # Untaken
    /\ taken' = [taken EXCEPT ![i] = Untaken]
    /\ \E how \in {taken[i].purpose, "refused"} : Ends(i, how, taken[i].at)
    /\ UNCHANGED <<now, sessions, shown, confirmed, backup>>

\* cancel_session, when it answers true.
CancelShown(i) ==
    /\ TakeSession(i)
    /\ Ends(i, "cancelled", now)
    /\ UNCHANGED <<now, shown, taken, confirmed, backup>>

-----------------------------------------------------------------------------
\* export_backup_bytes and write_backup_file: a new file is created and then
\* filled; a failed write removes it, a process that dies leaves part of it.
CreateBackup(key) ==
    /\ backup.state = "none"
    /\ backup' = [state |-> "torn", key |-> key]
    /\ UNCHANGED <<now, sessions, shown, taken, ended, confirmed>>

FillBackup ==
    /\ backup.state = "torn"
    /\ backup' \in {NoBackup, [backup EXCEPT !.state = "whole"]}
    /\ UNCHANGED <<now, sessions, shown, taken, ended, confirmed>>

TransferTick ==
    /\ now < LastTick
    /\ now' = now + 1
    /\ UNCHANGED <<sessions, shown, taken, ended, confirmed, backup>>

TransferNext ==
    \/ \E i \in SessionId :
          \/ ShowImport(i) \/ CommitShownImport(i) \/ Apply(i) \/ CancelShown(i)
          \/ \E purpose \in Purpose :
                \/ \E key \in Passphrase : ShowRestore(i, key, purpose)
                \/ \E yes \in BOOLEAN : CommitShownRestore(i, purpose, yes)
    \/ \E key \in Passphrase : CreateBackup(key)
    \/ FillBackup
    \/ TransferTick

TransferSpec == TransferInit /\ [][TransferNext]_transferVars

-----------------------------------------------------------------------------
\* The state is typed, the table never outgrows MAX_SESSIONS, and no session
\* in it lives longer than SESSION_TTL_MS from now.
TransferTypeOK ==
    /\ now \in 0..LastTick
    /\ sessions \subseteq SessionId
    /\ Cardinality(sessions) <= MaxSessions
    /\ shown \in [SessionId -> {Untold} \cup
                        [purpose : Purpose, until : 0..(LastTick + SessionTtl)]]
    /\ \A i \in sessions : shown[i] # Untold /\ shown[i].until <= now + SessionTtl
    /\ taken \in [SessionId -> {Untaken} \cup [purpose : Purpose, at : 0..LastTick]]
    /\ backup.state \in {"none", "torn", "whole"}
    /\ confirmed \subseteq SessionId

\* However many commands name one preview (a second click on "confirm", a
\* cancel that crosses it), it ends once: it changes the store once or is
\* refused once, or it is cancelled and changes nothing (take_session and
\* cancel_session remove what they find under one lock).
PreviewEndsOnce ==
    \A i \in SessionId :
        Len(ended[i]) + (IF taken[i] = Untaken THEN 0 ELSE 1) <= 1

\* What changes the store is what its preview showed: the same kind, the same
\* mode, taken before the preview expired, and a replacement of all accounts
\* only after its second confirmation.
AppliedAsShown ==
    \A i \in SessionId : \A n \in DOMAIN ended[i] : LET end == ended[i][n] IN
        end.how \in Purpose =>
            /\ end.how = shown[i].purpose
            /\ end.at < shown[i].until
            /\ end.how = "replace" => i \in confirmed

\* A change of the pool is the one that was shown, and is applied once.
ShownBeforeApplied == PreviewEndsOnce /\ AppliedAsShown
=============================================================================
