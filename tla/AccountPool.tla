----------------------------- MODULE AccountPool -----------------------------
(***************************************************************************)
(* The owner's pool of official accounts (account_pool.rs) and the preview *)
(* sessions in front of it (account_transfer.rs).  Credentials arrive from *)
(* pasted content, files and the official clients' local logins; each is   *)
(* matched with the accounts there are, and refreshes one of them, becomes *)
(* a new one or conflicts.  Every operation holds the store's lock and     *)
(* saves all of its result or nothing (AccountFile).                       *)
(*                                                                         *)
(* One tool's accounts are modelled: matching never crosses tools.         *)
(***************************************************************************)
EXTENDS Naturals, Sequences, FiniteSets

CONSTANTS Official,     \* account ids the official services give
          Token,        \* secrets, or the refresh tokens that stand for them
          Login,        \* the places an official client keeps its login in
          Batch,        \* what an import may bring: sequences of candidates
          MaxAccounts,  \* MAX_ACCOUNTS
          MaxIds,       \* bound: how many accounts are ever made
          Unknown       \* no official id, no login

ASSUME PoolAssumption ==
    /\ Unknown \notin Official \cup Login
    /\ MaxAccounts \in Nat /\ MaxIds \in Nat

Candidate == [official : Official \cup {Unknown}, token : Token,
              login : Login \cup {Unknown}]
ASSUME BatchAssumption == Batch \subseteq Seq(Candidate)

\* "own": the owner changed name, priority or the enabled switch.
Account == [id : 1..MaxIds, official : Official \cup {Unknown}, token : Token,
            login : Login \cup {Unknown}, own : BOOLEAN]

VARIABLES accounts,   \* the accounts of the store
          ids,        \* how many account ids were drawn
          preview,    \* the preview session, or NoSession
          exported    \* the accounts of the last backup taken

poolVars == <<accounts, ids, preview, exported>>

NoSession == [kind |-> "none", batch |-> <<>>, mode |-> "merge",
              items |-> <<>>, fresh |-> FALSE]

\* "fresh" is history: the pool has not changed since the preview.
Aged == preview' = [preview EXCEPT !.fresh = preview.fresh /\ accounts' = accounts]

PoolInit ==
    /\ accounts = {}
    /\ ids = 0
    /\ preview = NoSession
    /\ exported = {}

-----------------------------------------------------------------------------
(***************************************************************************)
(* matching_account_index: by official id, else by login, else by token.   *)
(***************************************************************************)
SameIdentity(a, c) ==
    IF a.official # Unknown /\ c.official # Unknown
    THEN a.official = c.official ELSE a.token = c.token

ByOfficial(as, c) == {a \in as : c.official # Unknown /\ a.official = c.official}
ByLogin(as, c) == {a \in as : c.login # Unknown /\ a.login = c.login}
ByIdentity(as, c) == {a \in as : SameIdentity(a, c)}

\* The login is in use by another official account now.
Switched(a, c) ==
    c.official # Unknown /\ a.official # Unknown /\ a.official # c.official

\* Fault: the login a credential comes from decides before its official id.
FoundByLoginFirst(as, c) ==
    IF ByLogin(as, c) # {} THEN ByLogin(as, c)
    ELSE IF ByOfficial(as, c) # {} THEN ByOfficial(as, c) ELSE ByIdentity(as, c)

\* The first way of matching that finds anything decides.
Found(as, c) ==
    IF ByOfficial(as, c) # {} THEN ByOfficial(as, c)
    ELSE IF ByLogin(as, c) # {} THEN ByLogin(as, c) ELSE ByIdentity(as, c)

\* Fault: nobody asks whether the login belongs to another official account now.
ConflictsCounted(as, c) == Cardinality(Found(as, c)) > 1

Conflicts(as, c) ==
    \/ Cardinality(Found(as, c)) > 1
    \/ \E a \in Found(as, c) : ByOfficial(as, c) = {} /\ a.login = c.login
                                 /\ c.login # Unknown /\ Switched(a, c)

Match(as, c) == CHOOSE a \in Found(as, c) : TRUE

\* Fault: rotation brings back the defaults.
RotatedAnew(a, c) ==
    [id |-> a.id, official |-> c.official, token |-> c.token,
     login |-> IF c.login # Unknown THEN c.login ELSE a.login, own |-> FALSE]

\* The credential is replaced; what the owner chose stays.
Rotated(a, c) ==
    [id |-> a.id, official |-> c.official, token |-> c.token,
     login |-> IF c.login # Unknown THEN c.login ELSE a.login, own |-> a.own]

Refreshed(as, c) == (as \ {Match(as, c)}) \cup {Rotated(Match(as, c), c)}

New(n, c) ==
    [id |-> n, official |-> c.official, token |-> c.token, login |-> c.login,
     own |-> FALSE]

(***************************************************************************)
(* import_parsed: the candidates one after the other; a conflict or a full *)
(* pool fails the whole import.                                            *)
(***************************************************************************)
\* Fault: nobody asks whether the pool is full.
TakeUncapped(w, c) ==
    CASE ~w.ok \/ Conflicts(w.as, c) -> [w EXCEPT !.ok = FALSE]
      [] OTHER ->
         IF Found(w.as, c) # {} THEN [w EXCEPT !.as = Refreshed(w.as, c)]
         ELSE [ok |-> TRUE, n |-> w.n + 1, as |-> w.as \cup {New(w.n + 1, c)}]

Take(w, c) ==
    CASE ~w.ok \/ Conflicts(w.as, c) -> [w EXCEPT !.ok = FALSE]
      [] OTHER ->
         IF Found(w.as, c) # {} THEN [w EXCEPT !.as = Refreshed(w.as, c)]
         ELSE IF Cardinality(w.as) >= MaxAccounts THEN [w EXCEPT !.ok = FALSE]
         ELSE [ok |-> TRUE, n |-> w.n + 1, as |-> w.as \cup {New(w.n + 1, c)}]

Imported(as, n, batch) ==
    LET w[i \in 0..Len(batch)] ==
          IF i = 0 THEN [ok |-> TRUE, as |-> as, n |-> n] ELSE Take(w[i - 1], batch[i])
    IN  w[Len(batch)]

Saves(w) ==
    /\ w.n <= MaxIds
    /\ IF w.ok THEN accounts' = w.as /\ ids' = w.n ELSE UNCHANGED <<accounts, ids>>

(***************************************************************************)
(* preview_import_items works on a copy, and goes on after a conflict.     *)
(***************************************************************************)
\* Fault: every candidate is compared with the store as it was.
LookOver(w, c) ==
    LET verdict == IF Conflicts(w.as, c) THEN "conflict"
                   ELSE IF Found(w.as, c) # {} THEN "update"
                   ELSE IF Cardinality(w.as) < MaxAccounts THEN "new" ELSE "conflict"
    IN  [as |-> w.as, n |-> w.n, items |-> Append(w.items, verdict)]

Look(w, c) ==
    LET verdict == IF Conflicts(w.as, c) THEN "conflict"
                   ELSE IF Found(w.as, c) # {} THEN "update"
                   ELSE IF Cardinality(w.as) < MaxAccounts THEN "new" ELSE "conflict"
    IN  [as    |-> CASE verdict = "update" -> Refreshed(w.as, c)
                     [] verdict = "new"    -> w.as \cup {New(w.n + 1, c)}
                     [] OTHER              -> w.as,
         n     |-> IF verdict = "new" THEN w.n + 1 ELSE w.n,
         items |-> Append(w.items, verdict)]

Previewed(as, batch) ==
    LET w[i \in 0..Len(batch)] ==
          IF i = 0 THEN [as |-> as, n |-> 0, items |-> <<>>]
          ELSE Look(w[i - 1], batch[i])
    IN  w[Len(batch)].items

\* account_transfer.rs, preview_import: the session takes the place of the oldest.
PreviewImport(batch) ==
    /\ preview' = [NoSession EXCEPT !.kind = "import", !.batch = batch,
                                    !.items = Previewed(accounts, batch), !.fresh = TRUE]
    /\ UNCHANGED <<accounts, ids, exported>>

\* commit_import takes the session out before it commits.
CommitImport ==
    /\ preview.kind = "import"
    /\ Saves(Imported(accounts, ids, preview.batch))
    /\ preview' = NoSession
    /\ UNCHANGED exported

\* cancel_session, prune_expired, or a session pushed out by 32 newer ones; a
\* restart forgets every session.
DropSession ==
    /\ preview # NoSession
    /\ preview' = NoSession
    /\ UNCHANGED <<accounts, ids, exported>>

(***************************************************************************)
(* refresh_known_local: the clients' logins refresh the accounts they      *)
(* match; what matches none, or several, is only counted.                  *)
(***************************************************************************)
Freshen(as, c) ==
    IF ~Conflicts(as, c) /\ Found(as, c) # {}
       /\ (Match(as, c).official # c.official \/ Match(as, c).token # c.token)
    THEN Refreshed(as, c) ELSE as

Freshened(as, batch) ==
    LET w[i \in 0..Len(batch)] == IF i = 0 THEN as ELSE Freshen(w[i - 1], batch[i])
    IN  w[Len(batch)]

RefreshLocal(batch) ==
    /\ accounts' = Freshened(accounts, batch)
    /\ Aged
    /\ UNCHANGED <<ids, exported>>

Update(id) ==
    /\ \E a \in accounts : a.id = id
    /\ accounts' = {IF a.id = id THEN [a EXCEPT !.own = TRUE] ELSE a : a \in accounts}
    /\ Aged
    /\ UNCHANGED <<ids, exported>>

Delete(id) ==
    /\ \E a \in accounts : a.id = id
    /\ accounts' = {a \in accounts : a.id # id}
    /\ Aged
    /\ UNCHANGED <<ids, exported>>

(***************************************************************************)
(* Backups.  A restore in merge mode matches every account of the backup   *)
(* with the pool as it grows; in replace mode the pool becomes the backup. *)
(***************************************************************************)
\* The owner keeps one backup file and takes it while no preview is open.
Backup ==
    /\ preview = NoSession
    /\ exported' = accounts
    /\ UNCHANGED <<accounts, ids, preview>>

\* The order in which the backup lists its accounts.
Listed(as) == CHOOSE s \in [1..Cardinality(as) -> as] :
                \A i, j \in DOMAIN s : i < j => s[i].id < s[j].id

\* preview_restore_items compares each account with the pool as it is.
Compared(b) == IF Conflicts(accounts, b) THEN "conflict"
               ELSE IF Found(accounts, b) # {} THEN "update" ELSE "new"

PreviewRestore(mode) ==
    /\ exported # {}
    /\ LET batch == Listed(exported) IN
       preview' = [kind |-> "restore", batch |-> batch, mode |-> mode,
                   items |-> [i \in DOMAIN batch |-> Compared(batch[i])],
                   fresh |-> TRUE]
    /\ UNCHANGED <<accounts, ids, exported>>

AddBack(w, b) ==
    CASE ~w.ok \/ Conflicts(w.as, b) -> [w EXCEPT !.ok = FALSE]
      [] OTHER ->
         IF Found(w.as, b) # {} THEN [w EXCEPT !.as = Refreshed(w.as, b)]
         ELSE IF Cardinality(w.as) >= MaxAccounts THEN [w EXCEPT !.ok = FALSE]
         ELSE [ok |-> TRUE, n |-> w.n + 1, as |-> w.as \cup {[b EXCEPT !.id = w.n + 1]}]

Merged(as, n, batch) ==
    LET w[i \in 0..Len(batch)] ==
          IF i = 0 THEN [ok |-> TRUE, as |-> as, n |-> n] ELSE AddBack(w[i - 1], batch[i])
    IN  w[Len(batch)]

CommitMerge ==
    /\ preview.kind = "restore" /\ preview.mode = "merge"
    /\ Saves(Merged(accounts, ids, preview.batch))
    /\ preview' = NoSession
    /\ UNCHANGED exported

CommitReplace ==
    /\ preview.kind = "restore" /\ preview.mode = "replace"
    /\ accounts' = IF \E i \in DOMAIN preview.batch : Conflicts(accounts, preview.batch[i])
                   THEN accounts
                   ELSE {preview.batch[i] : i \in DOMAIN preview.batch}
    /\ preview' = NoSession
    /\ UNCHANGED <<ids, exported>>

PoolNext ==
    \/ \E b \in Batch : PreviewImport(b) \/ RefreshLocal(b)
    \/ CommitImport \/ DropSession
    \/ \E id \in 1..MaxIds : Update(id) \/ Delete(id)
    \/ Backup
    \/ \E mode \in {"merge", "replace"} : PreviewRestore(mode)
    \/ CommitMerge \/ CommitReplace

PoolSpec == PoolInit /\ [][PoolNext]_poolVars

-----------------------------------------------------------------------------
\* Types; the pool never outgrows MAX_ACCOUNTS.
PoolTypeOK ==
    /\ accounts \subseteq Account /\ exported \subseteq Account
    /\ Cardinality(accounts) <= MaxAccounts
    /\ ids \in 0..MaxIds
    /\ preview.kind \in {"none", "import", "restore"}

\* However credentials come in and whatever is restored, an official account is in
\* the pool once: routing never counts one account as two.
OfficialOnce ==
    \A a, b \in accounts :
        (a.official = b.official /\ a.official # Unknown) => a = b

\* How many accounts of the preview got this verdict.
Shown(verdict) == Cardinality({i \in DOMAIN preview.items : preview.items[i] = verdict})

\* Credentials that do not name their official account come in.
NamelessComes ==
    LET Nameless(batch) == \E i \in DOMAIN batch : batch[i].official = Unknown
    IN  \/ (CommitImport \/ CommitMerge) /\ Nameless(preview.batch)
        \/ \E batch \in Batch : RefreshLocal(batch) /\ Nameless(batch)

\* What comes in does what it was shown to do.  Rotating a credential keeps the
\* account it belongs to: no import, local refresh or merge takes back what the owner
\* chose for an entry, or puts one official account's credential under another's
\* entry, unless a credential that does not name its account took the entry over in
\* between.  And if the pool has not changed since an import was previewed, a conflict
\* anywhere means that nothing is imported, otherwise as many accounts are added as
\* were shown as new.
ImportsAreFaithful ==
    [][/\ ~CommitReplace =>
            \A a \in accounts, b \in accounts' :
                a.id = b.id => /\ a.own => b.own
                               /\ Switched(a, b) => NamelessComes
       /\ CommitImport /\ preview.fresh =>
            IF Shown("conflict") > 0 THEN accounts' = accounts
            ELSE Cardinality(accounts') = Cardinality(accounts) + Shown("new")]_poolVars
=============================================================================
