---------------------------- MODULE RideHistory ----------------------------
(***************************************************************************)
(* The ride history (ride_history.rs) and its file.  Every command opens a *)
(* copy of its own, changes it and writes it back; no lock orders them.    *)
(* The file is replaced in one rename on Unix and by a removal and a       *)
(* rename on Windows.  The process may die at any step.                    *)
(*                                                                         *)
(* A list of records is kept with the most recently active record first,   *)
(* which is the order sort_and_limit gives it; its times are left out.     *)
(***************************************************************************)
EXTENDS Naturals, Sequences, FiniteSets, Lists

CONSTANTS HCar,        \* cars this device may start, each started once
          HSeat,       \* seats it may take as a passenger
          Command,     \* commands that use the history at the same time
          HBuild,      \* the builds looked at: "unix", "windows"
          MaxRecords,  \* MAX_RECORDS
          NoFile, Damaged

ASSUME HistoryAssumption ==
    /\ HBuild \subseteq {"unix", "windows"}
    /\ MaxRecords \in Nat \ {0}
    /\ HCar \cap HSeat = {}
    /\ NoFile # Damaged

VARIABLES hbuild,   \* the build
          hfile,    \* ride-history.json
          cmd,      \* each command: where it is and the copy it holds
          written   \* history: the application has written the file

historyVars == <<hbuild, hfile, cmd, written>>

\* A host record names its car, a passenger record its seat.
Record == [of : HCar \cup HSeat, stopped : BOOLEAN]
Lists == UNION {[1..n -> Record] : n \in 0..MaxRecords}
ASSUME FilesAreLists == NoFile \notin Lists /\ Damaged \notin Lists

Rest == [pc |-> "rest", list |-> <<>>, goal |-> "none", arg |-> "none"]

HistoryInit ==
    /\ hbuild \in HBuild
    /\ hfile \in {NoFile, Damaged}
    /\ cmd = [c \in Command |-> Rest]
    /\ written = FALSE

-----------------------------------------------------------------------------
CmdAt(c, pc) == cmd[c].pc = pc
CmdGoes(c, pc) == cmd' = [cmd EXCEPT ![c].pc = pc]
Same == UNCHANGED <<hbuild, hfile, written>>

-----------------------------------------------------------------------------
\* The operations, on the copy the command holds.
IsHost(r) == r.of \in HCar
Resumable(r) == IsHost(r) /\ ~r.stopped
Stopping(r) == [r EXCEPT !.stopped = TRUE]
Position(list, x) == CHOOSE i \in DOMAIN list : list[i].of = x
Has(list, x) == \E i \in DOMAIN list : list[i].of = x
OtherRecords(list, x) == Those(list, {r \in Record : r.of # x})
Shortened(list) == SubSeq(list, 1, IF Len(list) < MaxRecords THEN Len(list) ELSE MaxRecords)
ToFront(list, r) == Shortened(<<r>> \o OtherRecords(list, r.of))

\* record_host_started: what could be resumed is stopped, and as recent as the
\* new record, which is created later.
\* Fault: the car that ran before is left resumable.
HostStartedBeside(list, x) == ToFront(list, [of |-> x, stopped |-> FALSE])

HostStarted(list, x) ==
    LET stopping == Those(list, {r \in Record : Resumable(r)})
        rest     == Those(list, {r \in Record : ~Resumable(r)})
        stopped  == [i \in DOMAIN stopping |-> Stopping(stopping[i])]
    IN  ToFront(stopped \o rest, [of |-> x, stopped |-> FALSE])

\* record_host_resumed returns what it found, or nothing.
MayResume(list, x) == Has(list, x) /\ Resumable(list[Position(list, x)])
HostResumed(list, x) == ToFront(list, list[Position(list, x)])

\* record_host_stopped
HostStopped(list, x) == ToFront(list, Stopping(list[Position(list, x)]))

\* record_passenger_joined renews the record of the seat or adds one.
PassengerJoined(list, x) == ToFront(list, [of |-> x, stopped |-> FALSE])

Edited(list, goal, x) ==
    CASE goal = "start" -> HostStarted(list, x)
      [] goal = "join"  -> PassengerJoined(list, x)
      [] goal \in {"resume", "stop"} /\ MayResume(list, x) ->
             IF goal = "resume" THEN HostResumed(list, x) ELSE HostStopped(list, x)
      [] OTHER -> list

\* Only a change is committed; a listing never is.
Changes(list, goal, x) ==
    goal \in {"start", "join"} \/ (goal \in {"resume", "stop"} /\ MayResume(list, x))

\* What a command does to the copy it read, before it writes: nothing waits
\* in between, and the copy is its own.
Worked(list, goal, x) ==
    IF Changes(list, goal, x)
    THEN [pc |-> "write", list |-> Edited(list, goal, x), goal |-> goal, arg |-> x]
    ELSE Rest

MayAsk(list, goal, x) == goal = "start" => ~Has(list, x)

-----------------------------------------------------------------------------
\* A command opens the store (RideHistoryStore::prepare) and reads it.
ReadFile(c, goal, x) ==
    /\ CmdAt(c, "rest")
    /\ hfile \notin {NoFile, Damaged}
    /\ MayAsk(hfile, goal, x)
    /\ cmd' = [cmd EXCEPT ![c] = Worked(hfile, goal, x)]
    /\ Same

\* Where there is no file an empty one is written at once; a damaged file is
\* renamed away first.
StartAnew(c, goal, x) ==
    /\ CmdAt(c, "rest")
    /\ hfile \in {NoFile, Damaged}
    /\ hfile' = NoFile
    /\ cmd' = [cmd EXCEPT ![c] = [pc |-> "found none", list |-> <<>>, goal |-> goal, arg |-> x]]
    /\ UNCHANGED <<hbuild, written>>

-----------------------------------------------------------------------------
\* atomic_write_private: the new file is complete before it is renamed.
Writing(c) == CmdAt(c, "write") \/ CmdAt(c, "found none")
\* After the empty file the command goes on with its own change.
Then(c) == IF CmdAt(c, "found none") \/ CmdAt(c, "gap, none")
           THEN Worked(<<>>, cmd[c].goal, cmd[c].arg) ELSE Rest

Rename(c) ==
    /\ hfile' = cmd[c].list
    /\ written' = TRUE
    /\ cmd' = [cmd EXCEPT ![c] = Then(c)]
    /\ UNCHANGED hbuild

RenameOver(c) ==
    /\ Writing(c)
    /\ hbuild = "unix" \/ hfile = NoFile
    /\ Rename(c)

RemoveOld(c) ==
    /\ Writing(c)
    /\ hbuild = "windows" /\ hfile # NoFile
    /\ hfile' = NoFile
    /\ CmdGoes(c, IF CmdAt(c, "write") THEN "gap" ELSE "gap, none")
    /\ UNCHANGED <<hbuild, written>>

RenameAfter(c) ==
    /\ CmdAt(c, "gap") \/ CmdAt(c, "gap, none")
    /\ Rename(c)

\* An error of the file system ends the command; its copy is dropped.
GiveUp(c) ==
    /\ ~CmdAt(c, "rest")
    /\ cmd' = [cmd EXCEPT ![c] = Rest]
    /\ Same

\* The process dies with all its commands.
HistoryDies ==
    /\ \E c \in Command : ~CmdAt(c, "rest")
    /\ cmd' = [c \in Command |-> Rest]
    /\ Same

Begins(c, goal, x) == ReadFile(c, goal, x) \/ StartAnew(c, goal, x)

HistoryNext ==
    \/ \E c \in Command :
         \/ \E x \in HCar, goal \in {"start", "resume", "stop"} : Begins(c, goal, x)
         \/ \E x \in HSeat : Begins(c, "join", x)
         \/ Begins(c, "list", "none")
         \/ RenameOver(c) \/ RemoveOld(c) \/ RenameAfter(c) \/ GiveUp(c)
    \/ HistoryDies

HistorySpec == HistoryInit /\ [][HistoryNext]_historyVars

-----------------------------------------------------------------------------
\* Types; no list, on disk or in a command's hands, is longer than MAX_RECORDS.
HistoryTypeOK ==
    /\ hbuild \in HBuild
    /\ hfile \in {NoFile, Damaged} \cup Lists
    /\ written \in BOOLEAN
    /\ \A c \in Command : cmd[c].list \in Lists

\* However commands overlap, fail and die, the file offers one car at most for
\* resumption, and each car and seat once.
OneResumableCar ==
    hfile \notin {NoFile, Damaged} =>
        /\ Cardinality({i \in DOMAIN hfile : Resumable(hfile[i])}) <= 1
        /\ \A i, j \in DOMAIN hfile : hfile[i].of = hfile[j].of => i = j

\* docs/ARCHITECTURE.md, Security: "Ride recovery uses a separate atomically
\* replaced ride-history.json".  Once written, the file never goes missing.
HistoryStays == written => hfile # NoFile

\* Where the file is replaced by one rename it does not.
HistoryStaysOnUnix == hbuild = "unix" => HistoryStays

\* The file offers one car, each ride once, and outlives every crash of that build.
HistoryIsSound == OneResumableCar /\ HistoryStaysOnUnix
=============================================================================
