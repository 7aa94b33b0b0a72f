---------------------------- MODULE Diagnostics ----------------------------
(***************************************************************************)
(* The diagnostic log (diagnostics.rs): the newest entries in memory and,   *)
(* once the application knows its data directory, one file of lines for     *)
(* each day.  Entries recorded before that wait in memory.  What an entry   *)
(* says is left out; it has a day, which the front end may choose, and a    *)
(* number that tells it from every other.  A line that can be read counts   *)
(* as one byte, half a line and what is glued to it as none.  A line whose  *)
(* end is not written counts as half.                                       *)
(***************************************************************************)
EXTENDS Naturals, Sequences, FiniteSets, SequencesExt

CONSTANTS LastDay,      \* the days entries may carry are 1..LastDay
          MaxEntries,   \* MAX_LOG_ENTRIES
          Retention,    \* LOG_RETENTION_DAYS
          MaxBytes,     \* MAX_LOG_BYTES
          MaxLogged,   \* bound: entries ever recorded
          MaxCuts       \* bound: processes that die

ASSUME DiagnosticsAssumption ==
    /\ {LastDay, MaxEntries, Retention, MaxBytes, MaxLogged, MaxCuts} \subseteq Nat

VARIABLES memory,   \* the entries in memory, oldest first
          logDir,   \* whether log_dir is set
          files,    \* day -> the lines of its file
          torn,     \* the days whose file ends in the middle of a line
          broken,   \* the days whose file holds half a character
          ruined,   \* whole lines written behind half a line
          loaded,   \* what configure read before it took the lock
          said,     \* history: what this process recorded since it last cleared
          records, cuts,
          tears     \* history: how often half a line was written

diagVars == <<memory, logDir, files, torn, broken, ruined, loaded, said, records, cuts, tears>>

NotLoaded == [read |-> FALSE, entries |-> <<>>]
LogDay == 1..LastDay
NoFiles == [d \in LogDay |-> <<>>]

DiagInit ==
    /\ memory = <<>> /\ logDir = FALSE
    /\ files = NoFiles /\ torn = {} /\ broken = {} /\ ruined = 0
    /\ loaded = NotLoaded
    /\ said = <<>>
    /\ records = 0 /\ cuts = 0 /\ tears = 0

-----------------------------------------------------------------------------
\* push_memory, for one entry after the other.
Newest(entries) ==
    SubSeq(entries, (IF Len(entries) > MaxEntries THEN Len(entries) - MaxEntries ELSE 0) + 1,
           Len(entries))

\* What the files of this day and of those after it hold.
BytesFrom(f, day) ==
    LET sum[d \in 1..LastDay + 1] == IF d = LastDay + 1 THEN 0 ELSE Len(f[d]) + sum[d + 1]
    IN  sum[day]

\* What is on disk: the lines of each file, and what half lines did to them.
LogDisk == [lines |-> files, torn |-> torn, broken |-> broken, ruined |-> ruined]
DiskBecomes(disk) == /\ files' = disk.lines /\ torn' = disk.torn
                     /\ broken' = disk.broken /\ ruined' = disk.ruined

\* An append ends in the middle of a line, perhaps in the middle of a character.
HalfLine(disk, d) ==
    /\ files' = disk.lines /\ torn' = disk.torn \cup {d} /\ ruined' = disk.ruined
    /\ broken' \in {disk.broken, disk.broken \cup {d}}
    /\ tears' = tears + 1

\* The files cleanup_log_files removes as of a day: the old ones, and then the
\* oldest until the rest fits, today's own file too.  The removals succeed.
YoungFiles(f, day) == [d \in LogDay |-> IF d + Retention <= day THEN <<>> ELSE f[d]]
CleanedDays(f, day) ==
    {d \in LogDay : d + Retention <= day \/ BytesFrom(YoungFiles(f, day), d) > MaxBytes}

CleanedUp(disk, day) ==
    LET gone == CleanedDays(disk.lines, day)
    IN  [lines |-> [d \in LogDay |-> IF d \in gone THEN <<>> ELSE disk.lines[d]],
         torn |-> disk.torn \ gone, broken |-> disk.broken \ gone, ruined |-> disk.ruined]

\* Fault: the line that is written does not end, and each one after it is glued to it.
EndlessLine(disk, e) ==
    [lines |-> IF e.day \in disk.torn THEN disk.lines
               ELSE [disk.lines EXCEPT ![e.day] = Append(@, e)],
     torn |-> disk.torn, broken |-> disk.broken,
     ruined |-> disk.ruined + (IF e.day \in disk.torn THEN 1 ELSE 0)]

\* append_entry.  Behind half a line the new one cannot be read either, but it
\* ends that line.
WithLine(disk, e) ==
    [lines |-> IF e.day \in disk.torn THEN disk.lines
               ELSE [disk.lines EXCEPT ![e.day] = Append(@, e)],
     torn |-> disk.torn \ {e.day}, broken |-> disk.broken,
     ruined |-> disk.ruined + (IF e.day \in disk.torn THEN 1 ELSE 0)]
Appended(disk, e) == CleanedUp(WithLine(disk, e), e.day)

AllAppended(disk, entries) ==
    LET after[i \in 0..Len(entries)] ==
            IF i = 0 THEN disk ELSE Appended(after[i - 1], entries[i])
    IN  after[Len(entries)]

Memory(entries) == /\ memory' = entries
                   /\ UNCHANGED <<logDir, loaded, cuts>>

\* record_at: memory first, then the file if there is one; an append that
\* fails, before the line or in the middle of it, is given up.
RecordEntry(day) ==
    /\ records < MaxLogged
    /\ records' = records + 1
    /\ LET e == [number |-> records + 1, day |-> day] IN
       /\ said' = Append(said, e.number)
       /\ Memory(Newest(Append(memory, e)))
       /\ \/ logDir /\ DiskBecomes(Appended(LogDisk, e)) /\ UNCHANGED tears
          \/ logDir /\ HalfLine(LogDisk, day)
          \/ UNCHANGED <<files, torn, broken, ruined, tears>>

\* clear_debug_logs
ClearLogs ==
    /\ Memory(<<>>)
    /\ files' = IF logDir THEN NoFiles ELSE files
    /\ torn' = IF logDir THEN {} ELSE torn
    /\ broken' = IF logDir THEN {} ELSE broken
    /\ said' = <<>>
    /\ UNCHANGED <<ruined, records, tears>>

-----------------------------------------------------------------------------
\* configure, before its lock: clean up as of today, then load every line
\* that can be read, file after file; a file with half a character in it cannot
\* be read at all.
Lines(f) == FlattenSeq(f)

LoadHistory(today) ==
    /\ ~logDir /\ ~loaded.read
    /\ DiskBecomes(CleanedUp(LogDisk, today)) /\ broken' = {}
    /\ loaded' = [read |-> TRUE, entries |-> Newest(Lines(files'))]
    /\ UNCHANGED <<memory, logDir, said, records, cuts, tears>>

\* Fault: what was recorded before is dropped.
WaitingDropped == <<>>

\* The entries that waited in memory for the data directory.
Waiting == memory

\* configure, under its lock: history first, then each waiting entry goes to
\* memory and to its file.
TakeOver ==
    /\ ~logDir /\ loaded.read
    /\ memory' = Newest(loaded.entries \o Waiting)
    /\ DiskBecomes(AllAppended(LogDisk, Waiting))
    /\ logDir' = TRUE
    /\ loaded' = NotLoaded
    /\ UNCHANGED <<said, records, cuts, tears>>

Gone == /\ cuts < MaxCuts /\ cuts' = cuts + 1
        /\ memory' = <<>> /\ logDir' = FALSE /\ loaded' = NotLoaded /\ said' = <<>>
        /\ UNCHANGED records

\* A file cannot be read: the error ends the application's set-up, and with it
\* the process, at every start until that file is old enough to be removed.
HistoryUnreadable(today) ==
    /\ ~logDir /\ ~loaded.read
    /\ DiskBecomes(CleanedUp(LogDisk, today)) /\ broken' # {}
    /\ Gone
    /\ UNCHANGED tears

\* One of those that waited cannot be written, or half of it: this ends the
\* set-up likewise.
TakeOverFails ==
    /\ ~logDir /\ loaded.read
    /\ \E n \in 0..(Len(Waiting) - 1) :
          LET disk == AllAppended(LogDisk, SubSeq(Waiting, 1, n))
          IN  \/ DiskBecomes(disk) /\ UNCHANGED tears
              \/ HalfLine(disk, Waiting[n + 1].day)
    /\ Gone

\* The process dies, perhaps in the middle of a line.
LogDies ==
    /\ \/ UNCHANGED <<files, torn, broken, ruined, tears>>
       \/ logDir /\ \E d \in LogDay : HalfLine(LogDisk, d)
    /\ Gone

DiagNext ==
    \/ \E d \in LogDay : RecordEntry(d) \/ LoadHistory(d) \/ HistoryUnreadable(d)
    \/ ClearLogs
    \/ TakeOver \/ TakeOverFails
    \/ LogDies

DiagSpec == DiagInit /\ [][DiagNext]_diagVars

-----------------------------------------------------------------------------
OnDisk == UNION {ToSet(files[d]) : d \in LogDay}
Numbers(entries) == {entries[i].number : i \in DOMAIN entries}

\* The state is typed; memory holds MAX_LOG_ENTRIES entries at most, and no
\* entry is there or on disk twice, through any number of restarts.
DiagTypeOK ==
    /\ logDir \in BOOLEAN /\ torn \subseteq LogDay /\ broken \subseteq LogDay
    /\ Len(memory) <= MaxEntries
    /\ Cardinality(Numbers(memory)) = Len(memory)
    /\ Cardinality(OnDisk) = BytesFrom(files, 1)
    /\ \A d \in LogDay : \A i \in DOMAIN files[d] : files[d][i].day = d

\* The files together stay below MAX_LOG_BYTES, and none is older by
\* LOG_RETENTION_DAYS than the entry written last, whatever days the entries
\* carry and however often the process dies (cleanup_log_files runs behind
\* each append and before each load).
LogsBounded ==
    /\ BytesFrom(files, 1) <= MaxBytes
    /\ \A e \in OnDisk : (\A other \in OnDisk : other.number <= e.number) =>
          \A d \in LogDay : d + Retention <= e.day => files[d] = <<>>

\* The panel forgets nothing of this process but what newer entries push
\* out: finding the data directory and loading the history of earlier
\* processes keeps the entries that waited (configure).
NewestAreShown ==
    LET recent == Newest(said) IN
    \A i \in DOMAIN recent : recent[i] \in Numbers(memory)

\* What is thrown away is old, or too much, and never the newest.
LogsKeepTheNewest == LogsBounded /\ NewestAreShown

\* Half a line costs no more than the one line that is written behind it: the
\* lines that cannot be read for it, and those files whose next line will be lost,
\* are never more than the half lines that processes and failed appends left
\* (append_entry ends its line, and load_historical_logs skips one that does not
\* parse).  Half a character is worse: HistoryUnreadable.
DamageIsContained == ruined + Cardinality(torn) <= tears
=============================================================================
