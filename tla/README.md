# Trusted Carpool in TLA+

Trusted Carpool lets the owner of a Claude Code or Codex account (the *host*) share it for a
while with a few friends (*passengers*). The host's desktop app opens a *car* with four seats and
gives out a twelve-character code per seat; a passenger's app claims a seat with its code, and from
then on the passenger's Claude Code or Codex talks to a local proxy whose requests travel over an
encrypted WebRTC data channel to the host, which sends them upstream with its own credentials.

This directory specifies that program: TLA+ modules translated from the source, TLC configurations
that check them on small instances, and theorems, checked by TLAPS, that hold for every instance.
`PROJECT.json` maps every definition to the lines it stands for, and lists the runs, the faults each
property was seen to catch (*mutants*), the findings, the hazards and the theorems.

    tlc -workers 2 -config CarHost_seats.cfg MCCarHost.tla     # one run
    tlapm CarProofs.tla                                        # one proof module

## 1. The system

Paths below are relative to `src-tauri/src/` unless they start with `src/` (the web interface) or
`deploy/`.

| component | source | state | operations |
|---|---|---|---|
| host car session | `commands.rs`, `runtime.rs`, `models.rs` | `AppRuntime` behind one mutex: active car with its seats, host bindings, pending signals | start, resume, stop, suspend; the claim loop; mark seats |
| seat protocol and ride | `commands.rs`, `coordinator.rs`, `protocol.rs`, `join_link.rs` | passenger contexts; claims, grants and leave notices in flight | `join_car`, `leave_car`, `poll_webrtc_signals` |
| coordinator service | `deploy/coordinator/server.js` | a mailbox per peer, invites with their leases, rate-limit buckets, seen message ids | register and resolve invites, post, poll, clean up |
| account routing | `relay.rs`, `account_router.rs` | cool-downs, last-use sequence, candidate orders | reserve, fail over, mark success or failure, clear |
| relay admission and metering | `relay.rs`, `usage.rs`, `quota.rs`, `usage_history.rs` | request ids seen, per-seat usage windows, history file | admit, record usage |
| ride history | `ride_history.rs` | `ride-history.json`: host and passenger records | record started, resumed, stopped; list; forget |
| WebRTC link | `src/trustedWebRtc.ts`, `src/webrtcWire.ts` | role, connections, reconnect and health timers, pending bridges | dial, accept an offer, reconnect, heartbeat, hang up |
| relay bridge, local proxy | `relay.rs`, `local_proxy.rs` | pending responses, stream channels, the local listener | bridge a request, deliver a chunk, cancel, time out |
| account store | `account_pool.rs`, `account_transfer.rs` | encrypted accounts and a state file, with a backup | add, update, delete, import, refresh, recover |
| account quotas | `account_quota.rs` | none | query the providers |
| client launcher | `client_launcher.rs`, `client_process.rs`, `terminal_launcher.rs` | client configuration files and their backups | prepare, launch, restore |
| tool provisioner | `tool_provisioner.rs`, `tool_installer.rs` | versioned tool directories, `current` pointer | download, verify, switch |
| updater, start-up | `app_updater.rs`, `lib.rs` | update phase, ride-transition counter | check, download, install |
| identity, crypto, pricing | `crypto.rs`, `identity.rs`, `pricing.rs` | device keys | pure computation on data |
| diagnostics, tray | `diagnostics.rs`, `status_tray.rs` | logs | observation only |
| interface | `src/App.tsx`, `src/AccountManager.tsx`, `src/api.ts`, ... | React state | calls the commands above, in any order the user likes |

How they meet: the interface calls Tauri *commands*, which run concurrently on a thread pool and
share `AppRuntime`. `start_car` and `resume_host_car` spawn a *claim loop*, which polls the host's
mailbox at the coordinator once a second, handles one message at a time and ends when its car is no
longer the active one. A passenger's `join_car` polls its own mailbox until the grant arrives. Once
a data channel is open, the passenger's proxy sends requests through it; the host's web interface
hands each to `start_host_request_stream`, which spawns a task that admits it, reserves accounts,
sends it upstream and emits the answer as events.

Nothing in this is transactional. The mutex is released across every `await`; the coordinator keeps
no message it has once handed out; the processes crash and restart with only their files left; what a
request learnt before it was sent upstream may be stale when its answer arrives. That is where the
hazards are (the 40 that matter most, each at its line, in `PROJECT.json`), and what the properties are about.

What makes each component correct:

- *Host session.* One seat, one device: a bound seat is never handed over without having been
  released; nothing of an earlier session authorises, marks or names anything in the next one; after
  a crash the driven car can be resumed; loops end.
- *Seat protocol.* Late, lost, resent and reordered messages neither take a seat from somebody riding
  nor give one to somebody who has left.
- *Routing.* A request that must not be repeated is executed once; whatever fails, the passenger is
  shown one complete story, and charged once; equal accounts share the load; every request ends.
- *Metering.* No request is admitted twice; the seat, its windows and the history agree on what was
  used, which is what the answers reported.
- *Coordinator.* A running car's codes are found; those of a car that is gone fade within one lease.
- *Link.* A link that is down is being repaired, and a healthy one is left alone.
- *Bridge.* A tool that is given a whole answer has the host's; one that is told its request was not
  sent may send it again; every request ends.
- *Accounts.* A store is replaced whole; one official account is in it once; what is committed is what
  was previewed; a failed quota query hides nothing.
- *Clients and tools.* The user's own configuration is never lost, nor touched while a client uses it; the pointer
  names a tool that runs.
- *Updates, logs.* No installation cuts a ride off; a verified update is kept; the newest log
  entries survive.

## 2. The modules

    SeatLease          the promise: each seat is leased to one device at a time
      ^ refines
    CarHost            the host session, its claim loops, requests and commands
      ^ refines            CarProofs          MCCarHost
    CarRide            CarHost + mailboxes + passengers
                           CarProofs          MCCarRide
    Routing            account routing of concurrent requests
                           RoutingProofs      MCRouting

    Bridge             tool -> proxy -> data channel -> host and back
                           WireProofs         MCProgress (with CarHost)

    AtomicFile         the promise: a private file is replaced whole
      ^ refines
    AccountFile        accounts.json on disk                AccountProofs  \
    AccountPool        the accounts in it                   PoolProofs      |
    AccountTransfer    previews of imports and restores     AccountProofs   |
    Quotas             the official quotas a host shows     AccountProofs   |
    RideHistory        ride-history.json                    HostProofs      |
    AppUpdate          the updater against rides            MachineProofs   > MCDesktop
    ClientConfig       client profiles and configurations   MachineProofs   |   DesktopProofs
    ToolProvisioner    managed tools                        MachineProofs   |
    Diagnostics        the log                              MachineProofs   |
    Link               the WebRTC link of a ride            WireProofs      |
    Metering           one seat's usage                     HostProofs      |
    Invites            join codes at the coordinator        HostProofs     /

    Lists              sums and selections along a list, used by AccountPool's proofs,
                       Metering and RideHistory

### CarHost

The `AppRuntime` of a host, with every handler that changes it.

| TLA+ | code |
|---|---|
| `activeCar`, `seats`, `bindings`, `signalling` | `AppRuntime.active_car`, its seats, `host_bindings`, `pending_signals` |
| `history` | the open host records of `ride-history.json`; the only state `Crash` keeps |
| `loop[l]` | a spawned claim loop: its car and the grant it is sending (`HandleClaim`, then `GrantSent` or `SendFailed`, then `MarkSeatJoining`, one action per side of the `await`) |
| `task[s]` | a command between two of its steps (`StartCar`, `RecordStarted`, `Activate`; `ResumeHostCar`, `RecordResumed`, `Activate`; `StopCar`, `RecordStopped`) |
| `relay[r]` | a request between `binding_for_request` and `record_usage`, with the binding it was admitted under |
| `issued`, `sent` | history: which access ids exist, and which anyone may know |

The coordinator is an unconstrained environment: `HandleClaim` and `HandleLeave` accept any message
that could exist, in any order and number. What is proved here therefore needs nothing of the
coordinator. Of the data: a nickname is the device it belongs to; a grant and its session secret are
one access id; the seat state `Blocked` is left out because no code sets it; the schedule is the
three phases of a car's window, which `TimePasses` moves through; the cap of 100 history records is
left to the ride-history module.

### SeatLease

The abstract specification: `Grant` a free seat under an unused access id, `Release` it, end the
session. `CarHost` implements it with `holder` read off the bindings and `spent <- issued`
(`KeepsLeases`, checked by TLC and proved).

### CarRide

`CarRide` EXTENDS `CarHost`, feeds its handlers from the host's mailbox, and adds the passengers.

| TLA+ | code |
|---|---|
| `hostBox`, `box[p]` | the mailboxes of `server.js`: bounded (the oldest goes), read by removal, with expiry |
| `polling`, `batch[l]` | a claim loop that awaits a poll, and the polled messages it has yet to handle |
| `join[p]` | the claim `join_car` resends every four seconds until it has its grant or gives up |
| `rides[p]` | `passenger_contexts`; `leaving` while `leave_car` has sent its notice and not yet forgotten the ride |
| `departed` | history: the claims whose passenger has left |

`PollRideSignals` is the ride page, which reads the same mailbox and discards what is not a signal.
`HostCrash` and `PassengerCrash` lose everything but what is on disk, which for a passenger is
nothing the host recognises. Requests and signals stay in `CarHost`: they change no binding. A device
has one join at a time, as its interface does. Signatures, envelopes and freshness checks are taken
to pass or fail as a whole: a message that fails is one that `Discard` drops.

### Routing

`relay.rs` from `route_candidates` to `record_prepared_response`, with `account_router.rs`.

| TLA+ | code |
|---|---|
| `pool` | the enabled accounts of the store, any set of them at first |
| `cooling`, `lastUsed`, `nextSeq` | `AccountRouterState`: accounts in cool-down, last-use order |
| `req[r]` | a request's task: the snapshot it read, its remaining route, what it has shown and been charged |
| `edited` | an owner's edit between the write of the store and the clearing of the route state |
| `copies`, `passed` | history: sends that may have been executed; decisions made past a waiting account |

`ReadPool`, `Reserve`, each attempt, and the failure of one and the marking of the next account
(`NextAccount`, `TakeNext`) are separate steps because the code drops the lock between
them. The streaming and the buffered loop share actions and differ where the code differs
(`NetworkFailure`). Cool-downs end by `Recover` at any time after they begin: how long they last is
left out, and with it which of two failures sets the longer one. The host's own login is one more
account, of the lowest priority. `execute_host_request`, the buffered path, is a registered command
although the shipped interface calls `start_host_request_stream`. Events are delivered or the emit
fails (`LocalFailure`).

### Bridge

| TLA+ | code |
|---|---|
| `asked[q]`, `got[q]` | a tool's HTTP request at the local proxy: what it was told and the chunks of its body |
| `pending`, `queue[q]` | `RelayBridge.pending` and the bounded channel of each request |
| `waiting` | `pendingBridge` of `trustedWebRtc.ts`: requests that wait for a connection |
| `link`, `up[c]`, `down[c]` | the open data channel and the frames on it, in order |
| `told[q]`, `over[q]` | what the host has emitted for a request, and the connection it came over |

`LinkLost` cuts a connection with a suffix of its frames lost, `StopRide` forgets what waited,
`BridgeTimesOut` and `StartTimesOut` are the timers of a request that waits for a connection and of
a tool that waits for a Start; `Deliver` waits while a
channel is full, as the web view's receive chain does.

### The desktop's stores and services

Twelve modules that share no variable with each other or with the host session:

| module | state and code | steps |
|---|---|---|
| `AccountFile` | `accounts.json` with its backups; one operation under `ACCOUNT_STORE_LOCK` | load, recovery from a missing or damaged file, migration, replacement, snapshot before a restore, each with refusals and `Die`. `SomeCall` is any command that changes the store |
| `AccountPool` | the accounts, matched by official id, token and login | import, local refresh, edit, delete, backup, restore by merge or replacement |
| `AccountTransfer` | the table of preview sessions | show, commit, cancel, expire; a commit takes its session first and applies it later |
| `Quotas` | `account_quotas` of the car, and the queries of the loop and the button | ask up to three accounts of each tool at once, decide by order, merge |
| `RideHistory` | `ride-history.json` and each command's own copy | read, edit, rename (Unix) or remove and rename (Windows), fail, die |
| `AppUpdate` | `AppUpdaterState`, `RideTransitionGuard`, `UpdateInstallGuard` | check, download, install, restart; rides begin and end |
| `ClientConfig` | registry, profiles, a Store client's configuration, its backup and marker | a task is a list of file operations (`FileStep`); launch, remove, list, recover; clients appear, renew themselves, exit |
| `ToolProvisioner` | version directories, `current`, `provenance.json`, the caches | one installation through all its stages; launches without a lock; foreign writes |
| `Link` | `TrustedWebRtcRuntime` of a passenger and the host's side of it | first dial, reconnect loops by the place that started them, heartbeats, hang-ups, leave, crash |
| `Metering` | request ids seen, windows, seat summary, history line | make a request, admit it, end it with what its answer reports, edit limits |
| `Diagnostics` | entries in memory, a file per day, what half lines did to it | record, take over what waited, load, clear, prune; fail or die in the middle of a line, or of a character |
| `Invites` | the coordinator's invites of one owner; starts and renewal loops | register seat by seat, fail half-way, renew, stop, time out, restart of either side |

They are abstract where their data is: an account is its three identifying facts, an archive is its
version, the files of a configuration are one value, tokens and prices are numbers up to four, a line of
the log is one byte. `Invites` lets the clocks agree and a round of registrations take at most `Pass`;
its ASSUME says what the lease must then outlast. That is one `Pass` more than one would think: the
loop of an earlier drive, caught in the middle of a round, may overwrite newer leases with its older
stamp. The real figures (three minutes, one minute) leave fifteen seconds for a round of four.

`MCDesktop` runs all twelve, one per behaviour (`part`). Since they share nothing, a behaviour of the
whole is any interleaving of theirs, and a property over one of them holds of the whole if it holds of
that part alone; the product would say nothing more and could not be checked. `MCProgress` joins
`CarHost` and `Bridge` the same way, to state what has to come to an end.

## 3. What the runs show

Every passing run was checked to completion; every property of it was seen to fail under a
deliberate fault of the code (the operators marked *Fault:* in the modules, never part of `Next`).

| run | instance | shows |
|---|---|---|
| `seats` | 2 devices, 1 car of 2 seats, 2 loops, 1 request, 1 command at a time, 3 access ids | `TypeOK`, `JoinedSeatIsBound`, `NothingOfTheDeparted`, `CrashIsRecoverable`, `SeatIsReleasedFirst`, and the refinement `KeepsLeases` |
| `progress` | host: 2 cars, 2 commands at once, 2 loops, 1 device; bridge: 2 requests, a channel of one event, 2 connections, 1 mishap; fair loops and timers | `BindingsOfActiveCar`, `LoopsWindDown`; `BridgeTypeOK`, `AnswersAreTrue`, `RequestsEnd` |
| `ride` | 2 devices with 2 claims, 1 seat, mailboxes of 2, polls of 1, two drives | `RideTypeOK`, `DepartedStaysOut`, `RiderKeepsSeat` |
| `requests` | a stream and a repeatable buffered request, 3 accounts of 2 priorities, routes of 2, 1 edit of the pool, fair requests | `RoutingTypeOK`, `OneStory`, `ChargedOnce`, `StreamsNotReplayed`, `FairShare`, `Answered` |
| `desktop` | the twelve parts below | `DesktopTypeOK` and 18 properties |
| `overlap`, `freeseat`, `billing`, `return`, `replay`, `updates`, `redial` | small instances | one refuted statement each, below |

The parts of `desktop`:

| part | instance | properties |
|---|---|---|
| file | 1 fact; 2 refusals on Unix, 1 on Windows; any state of the files at first | `StoreIsKept`, and the refinement `AccountsReplacedWhole` of `AtomicFile` |
| pool | 2 accounts at most, 3 ids, 2 official ids, 2 tokens, 1 login, 3 inputs | `OfficialOnce`, `ImportsAreFaithful` |
| transfer | 2 sessions, a table of 1, a lifetime of 1 | `ShownBeforeApplied` |
| quotas | 2 cars, 2 queries at once, 2 accounts asked, 2 starts | `BestAccountSpeaks`, `LastResultStays` |
| history | 2 cars, 1 seat, 2 commands, 2 records, both builds | `HistoryIsSound` |
| update | 2 rides, 5 offers (older, newer, forged, for another platform) | `InstallsAndRidesExclude`, `VerifiedIsKept` |
| client | 1 tool, 2 rides, 1 fault, three installations | `OriginalKept`, `UntouchedWhileInUse` |
| tool | 3 releases, one of them broken, 1 launch, 1 mishap | `PointerIsSound` |
| link | 1 rider with 2 rides, 3 dials, 2 losses | `LinkIsRepaired` |
| metering | 2 requests, 5 kinds of answers, windows of 1 and 2 ticks, 3 ticks | `RequestsAccounted` |
| log | 3 days, 4 entries, 2 in memory, 2 bytes of files, 2 ends of the process, any append half written | `LogsKeepTheNewest`, `DamageIsContained` |
| invites | 2 cars of one code each, a quota of 1, a lease of 7 intervals, 1 failed renewal allowed, 1 loop at a time | `InvitesAreTrue` |

*Why these bounds.* A conflict over a seat takes two parties: the holder and one other, a device or
a loop that acts late. Two devices, two loops and one seat contain every such pair; the second seat of
`seats` shows that they do not confuse seats, and the three access ids allow a grant, a loss and a
second grant while the first is still in a loop's hands. Losing a message to a full mailbox needs a
mailbox of two and three messages, which `ride` has, with the two claims of one device the late
notice of an earlier ride needs. A route that is cut off needs
more accounts than `MaxAttempts` (`requests`). A blocked receive chain needs two requests and a
channel of one event (`progress`). Of the desktop's parts most have one lock or one file, and two
users of it, or one and a crash, make every conflict; a second loss shows that a repaired link is
watched again, a third release that a broken one is skipped, and a quota of one that a
car's code competes with that of the one before. `Invites` was also run with two codes for one of
the cars and a quota of two (240 000 states), and then with two loops at once (1.7 million). Where a bound matters less than the argument, the theorems below remove it.

*Assumptions of the host's part.* A write of the ride history may report an error although its rename has
happened: the permissions or the directory behind it may fail (`ride_history.rs:363`). `LateErrors` says whether
that is among the failures a run allows; it is in all runs of the host but `overlap` and `progress`. With one car
it costs nothing. With two, a start that fails late while the other car is driven has
closed that car's record, and so `~LateErrors` is a hypothesis of `SerialCommandsRecover`.

*Assumptions of the desktop's parts.* A Windows replacement is refused at most once. When the move back
is refused as well, the accounts are in the backup only; the next load finds them there, but the
write-back that follows a failed migration or restore begins by discarding that backup
(`replace_file`, `account_pool.rs:2897`), so that a crash right behind that loses them. `StoreIsKept`
and `AccountsReplacedWhole` are about the first case, and so is the hypothesis `OneRefusal` of their proofs.
`HistoryIsSound` demands that the file never goes missing of the Unix build alone (see below).
`UntouchedWhileInUse` holds where the process list shows a client as soon as it runs: one that is slow
to appear and whose ride is left within the start window loses its profile. `Link` has one rider, so the host
always has room for its connection; with several, a host still holding dead connections of departed
passengers may hang up on a bound rider's redial, which stops that rider for good
(`trustedWebRtc.ts:611`, `:601`). `RequestsAccounted` excepts requests stamped ahead of the host's
clock, whose ids are forgotten while they are fresh (`relay.rs:818`). `RunningCarIsFound`, a part of
`InvitesAreTrue`, is about a car whose coordinator did not just restart and of whose renewals no two in
a row failed. The removals of a clean-up of the log are taken to succeed; where they do not, its files outgrow their
limits until one does.

*Fairness.* `LoopsWindDown` assumes only that a spawned loop is scheduled and that a send ends: the
coordinator client times out after ten seconds, and either outcome will do. It assumes nothing of
messages, users or the clock. `Answered` assumes weak fairness of each request's task: `reqwest` runs
under a budget for starting a route and a timeout between chunks, so that a send ends in an answer or
an error. Requests are answered although accounts cool down, because a request that finds none free
is refused and not queued. `RequestsEnd` assumes that timers fire, frames on a connection are
delivered, the host's execution ends (`Answered`), and a tool that listens reads. It is stated for
behaviours without a mishap: a connection lost in the middle of a stream leaves the tool waiting for
as long as it likes to (`local_proxy.rs:95` has no timer between chunks). A tool that never reads what it
asked for is outside the property too. It fills its channel and stalls the answers of all other requests behind it
(`relay.rs:222`), and no code bounds for how long.

*Deadlock* is checked in `seats`, `ride` and `requests` (`Routing` declares the end of all requests a
stutter). `progress` and `desktop` switch it off: their parts stop where a bound is used up.

### What the code does not keep

Seven runs each check one statement of the repository that TLC refutes.

- `overlap` — "a normal process/OS shutdown leaves it resumable" (`docs/ARCHITECTURE.md:85`).
  `start_car` and `resume_host_car` do their checks, await the registration of four invites, and then
  write the history and the runtime; nothing makes two commands exclusive. Two that overlap leave a
  driven car whose record the other one closed. One at a time they keep it (`seats`, and a theorem).
- `freeseat` — "Host automatically binds the first valid claimant" (`:70`). A request that ends
  after its passenger has left sets the seat it left to `Using` (`usage.rs:172`); a free seat in
  that state refuses every claim until the session ends.
- `billing` — each event stores "the car, passenger, tool" (`:46`). `record_usage` looks the
  passenger up by seat when the answer ends, so that the next device on the seat is charged for it.
- `return` — "crashed passengers can rejoin immediately" (`:75`). A restarted passenger has lost its
  access id and claims with a new claim id, which a bound seat refuses.
- `replay` — `buffered_post_does_not_replay_ambiguous_failures_without_idempotency`, a test of
  `relay.rs:1703`. It tests the predicate; the loop that uses it lacks the `break` of its streaming
  twin (`relay.rs:1459`), and sends the request to the next account.
- `updates` — "The previous managed version stays active when an update fails"
  (`commands.rs:1331`). `finalize_install` moves the pointer and then writes the provenance; when that
  write fails, the update is reported as failed and neither version can be launched.
- `redial` — retries go on "until the user leaves the car" (`trustedWebRtc.ts:329`). A reconnect loop
  that waits out its back-off survives a failed join, because the next ride resets the flag that
  guards it (`:262`); it then dials, and closes the next ride's open connection.

Three smaller disagreements have no run of their own. `docs/ARCHITECTURE.md:49` calls the ride history an
"atomically replaced" file; the Windows build removes it before the rename (`ride_history.rs:361`), and
a crash in between forgets the car that could be resumed. And the restore preview compares each item
with the pool as it is, the commit with the pool as the items before it left it
(`account_pool.rs:1256`, `:1294`), so that a backup that holds one account twice fails only at the
commit. Last, `load_historical_logs` skips a line that does not parse, but reads each file as text
(`diagnostics.rs:412`): half a character in one makes it fail, and with it the set-up of the application
(`lib.rs:142`), at every start until the file is old enough to be removed (`HistoryUnreadable`).

## 4. What is proved

Eight modules prove, for any sets of devices, cars, seats, claims, loops, requests, commands, previews,
codes, tools and releases and any finite set of accounts, and from the named ASSUMEs of the modules alone (which
say that the constants have their types, that `None` is nobody, and, in `Invites`, how long a lease must be),
but for three hypotheses that stand in their theorems, `OneRefusal`, `RoomForAll` and `~LateErrors`:

- `TypeCorrect`, `RideTyped`, `RoutingTyped`, `BridgeTypes`: the type invariants.
- `BindingsConsistent`, `SeatsJustified`: every binding is of the active car, a seat and an access
  id have at most one binding, and what a seat shows or a signal names is bound. The invariant is
  `HostInv`, the three together with *every bound access id was issued*; without uniqueness of
  bindings, the release of one seat could free a device's other claim.
- `ReleasedFirst`, `ImplementsLease`: an action property and the refinement, from
  `HostInv`. Each step of `CarHost` grants one lease, releases one, ends the session or leaves the
  leases alone; four lemmas, one for each.
- `SerialCommandsRecover`: with a single command slot and `~LateErrors`, `CrashIsRecoverable`. `CommandInv` says what
  each stage of the command knows: a resume still reads the history it will write back, because
  nobody else writes it, which is what fails when two overlap.
- `RideKeepsLeases`: the whole protocol leases each seat to one device at a time. Every step of `CarRide` is one of
  `CarHost` or leaves it alone, by the way it is composed (the lemma `RideIsAHost`), so that all that is proved
  of `CarHost` holds behind the mailboxes too.
- `RidersKeepSeats`: a passenger that is riding keeps its seat until it leaves or the session ends,
  whatever was lost, resent or delayed, across restarts of the host too. The invariant `RideInv`
  follows the grants: every copy of one, in a loop's hands, in a mailbox or with a passenger, carries
  the access id of a single binding (`GrantInv`); claim ids are used once (`ClaimInv`); and a leave
  notice in flight names an access id only departed claims ever had (`NoticeInv`).
- `DepartedKeptOut`: while the host has driven once, a claim whose passenger has left binds no seat again. The
  copies of a claim are posted while its passenger joins, its notice when it leaves, and one drive has one
  loop, which handles what it polls in the order of the mailbox. `OrderInv` says so: no copy of a bound claim stands
  behind a notice that releases it, in the mailbox, in the batch or across the two (`CopiesFirst`), so that none
  is left when the binding goes (`NoCopies`); a grant whose claim has not departed is bound
  (`GrantsHold`), so that no claim departs unbound with copies about. It is stated for one drive
  because a host restarted between the last copy and the notice forgets the binding that the copy
  repeats, and grants it anew; nothing promises more.
- `NoStreamReplayed`, `StoriesWhole`, `NoDoubleCharge`: from `RequestsOK`, which ties what a request
  has shown, been charged and sent to its stage.
- `LoadShared`: from `ShareOK`: an account that was passed over once for another was used less
  recently than it, and so comes before it in every order to follow.
- `InvitesHold` (`HostProofs`): a car that is out is found by all its codes, and an abandoned one
  fades. `Need` says how long each loop may still take until it has renewed its car, after so many
  failures in a row; `LoopsInv` says that every invite lasts longer than every loop of the car needs,
  `RoundsInv` what a round of registrations has achieved so far (its invites carry the time the round
  began, so an old round may shorten what a newer one wrote: that is the third `Pass` in
  `InvitesAssumption`), and `FadingInv` that an invite is never younger than the last time anybody
  looked after its car. The interval and the lease of the code (60 s and 180 s) leave room for one
  failed renewal in a row if a round of registrations takes less than 15 s, and for none if it takes up to 40 s.
- `RequestsStayAccounted` (`HostProofs`): a request is served once unless it was admitted ahead of the time on its
  stamp, and the seat's summary, its windows and the history agree. The invariant has two halves. `RequestsInv`
  says why an admitted request is refused the second time: either its stamp is too old by now, or its id is still
  remembered (`OnceOnly`). `BooksInv` says that the summary is the sum of the history per model, and that the sums of
  the windows and of the history agree over every range of time that the longest window can still reach, as
  `record_usage` throws away only events that none can. What an answer is charged is proved to be what its reports
  add up to for a *consistent* answer, of any length (`Consistent`): the cache writes it repeats without their kinds
  are one total and do not precede the kinds, and a Codex answer counts its cached tokens among its input. Of an
  answer whose total grows before its kinds arrive, or of one with both mixed, the code counts less; the
  hypothesis came out of the proof.
- `HistoryStaysSound`: the history names a ride once and offers one car at most, and on Unix it never goes missing.
  `HistoryInv` says so of the file and of the copy in each command's hands, since any of them may become
  the file.
- `AnswersStayTrue` (`WireProofs`): a tool that is given a whole answer has the host's. `BridgeInv` says of every
  request where it is, and that it is in one place only: asked, waiting, on the wire, or told (`OnePlace`); that an
  *unsent* is on its way only to a request that is nowhere, and an *end* only behind the whole story
  (`EventsAreTrue`); and that the body so far and what is on its way to it are the host's, without a
  gap (`BodiesAreWhole`).
- `StoreStays`, `StoreReplacedWhole` (`AccountProofs`): under `OneRefusal` the accounts are in the store or its
  backup wherever an operation stops, and `AccountFile` implements `AtomicFile`. `FileInv` follows one operation through
  its two renames: which file may be missing at which step, that what is stored is what was read or
  what is to be written, and that the latter takes nothing away that somebody was told is there.
- `AppliedOnceAsShown`: from the fact that a preview session is in the store, in one command's hands, or
  ended, and in one of the three only.
- `OfficialStaysOnce` (`PoolProofs`): an official account is in the pool once, however many accounts there are
  and however long the batches. `PoolInv` says so of the pool, of the backup and of what a restore session would
  put in the pool's place, and with it that no id of the store is given twice. A credential that names its
  account is matched with it before its login or its token is looked at, and that is why.
- `ImportsStayFaithful`: rotating a credential keeps the entry, what its owner chose and the official account it
  belongs to (`GoesOn`, through a whole batch `Onward`), and an import does what an up to date preview showed. The
  preview works on a copy of the pool that draws ids of its own, so the proof follows the two side by side: they
  look alike to matching, one account for one (`Mirrored`), and all that matching decides is the same in both.
  The first half needs its exception. A credential without an official id is matched by login or token and
  leaves the entry without one, and the next may put any other there; a batch of three does so in one
  import. The exception, and the batch that calls for it, came out of the proof.
- `BestAccountDecides`, `QuotaResultsStay`: from `QuotasInv`, which says of each query under way that it has
  decided what the answers it has call for. What stays is that windows are shown: a query that fails or is
  overtaken never blanks them, but an older one that ends later may still replace what a newer one brought,
  since nothing in the code orders them (`commands.rs:1813`).
- `RidesAreSafe`, `UpdateStays` (`MachineProofs`): rides and installations exclude each other, and a
  verified update stays. The invariant says which holder the operation lock has at each stage
  (`RidesAreWarned`, `NothingToLose`), and that a requested restart leaves nothing to begin (`RestartIsLast`).
- `PointerStaysSound`: an installation only ever replaces an older version than its own (`OnlyNewer`), so that the
  directory it clears is not the one the pointer names, and it points at what it has tried (`PlanIsSound`).
- `OriginalStaysKept`: a task is a list of file operations and may die between any two. `Orderly` says
  which lists put nothing at risk: a backup is taken apart only while the user's configuration is back, it is
  taken only of that configuration, and a route is written only right behind the manifest that
  completes the backup. Every list the code makes is such a list, and what is left of one after a step is one again.
- `ClientsStayUntouched`: nothing of a client in use is removed, rewritten or moved, where a process is shown as
  soon as it runs. `Sheltered` says what protects it at each stage of a task: each client of ours has its record in
  the registry (`RegistryGuards`); a launch has saved its own record before it starts a client (`LaunchKnows`); a
  recovery keeps the records of the clients it has listed, or has yet to look at them (`RecoveryKnows`); and no operation
  still on a task's list puts back, routes, removes or forgets anything a client uses (`Sparing`).
- `LogsStayKept`: the log files keep their limits, nothing out of date is in them, and no recent entry of this process is lost
  once the data directory is found. `DiagInv` says of the files that each line is in the file of its day and there
  once, and that a line that is out of date as of another's day was written after it, which is why a line that
  a later one makes too old goes with it; and of the entries that wait in memory that they are
  newer than all lines and rise.
- `DamageStaysContained`: each half line costs one later line at most. `Damage` adds up the lines that were glued to
  half a line and those that will be; an append never adds to it, because it ends the line it is glued to, and
  half a line adds one.
- `RidesAreRepaired`, `RidersGoOn` (`WireProofs`): a ride without a connection always has a dial, a loop or a
  timer that is to repair it (`Tended`), and, under `RoomForAll`, no passenger is made to give up before the car
  ends. The hypothesis says that the host has room for the connections of all passengers there may be, those
  who have left included; without it the statement is false (above: `trustedWebRtc.ts:611`).
- `DesktopStaysTyped` (`DesktopProofs`): the types of all twelve parts of the desktop, and with them the limits: the pool
  has at most `MAX_ACCOUNTS`, the preview table `MAX_SESSIONS`, the history `MAX_RECORDS` entries and an owner
  `MAX_INVITES_PER_OWNER` invites; a ride has one record of a tool in the registry; every connection's dial is one that was
  made. By the way `MCDesktop` is composed, a behaviour of it is one of each of its parts (the lemma `PartsRun`);
  `DesktopStaysSound` puts together all that is proved of them without a hypothesis.

*Induction.* Lists, batches and histories are of any length in the proofs. The induction theorems of the library take
an operator as a parameter and cannot be cited; `PoolProofs` derives induction over the numbers from the
well-foundedness of `<` instead (`LeastOf`, `AllNumbers`), for sets of numbers. From it follows what `FlattenSeq` and
`SetToSeq` return, that a recursion along a list has a value (`StepsExist`), and what holds along it (`AllUpTo`);
and with these, what a sum or a selection along a list is and how it changes when the list does (`Lists`, the sums of
`Metering`), or what a batch leaves of the pool. The models write such iterations as recursive functions for that reason.

*Only model-checked* are the liveness properties `LoopsWindDown`, `Answered` and `RequestsEnd`, which are
out of the prover's reach. Every invariant and every action property of a passing run is a theorem, `StoreIsKept`,
`AccountsReplacedWhole`, `LinkIsRepaired` and `CrashIsRecoverable` under the hypotheses named above.

## 5. Not modelled, and what comes next

`PROJECT.json` lists each component with what is left out. Not modelled are `crypto.rs` and
`identity.rs` (pure computation on data), the start-up wiring of `lib.rs` and the tray, the interface
(`src/App.tsx` and its panels: they call the commands in any order, which is how the commands appear
here; the two flows that drive the link are in `Link`), and build and test tooling. Left out of modelled
components: rate limits and the window of repeated messages at the coordinator (refusals that may come
at any time), the framing of frames (`webrtcWire.ts`), ICE candidates, import formats and the
encryption of the store, archives and manifests, how long cool-downs last, and the flush of the route
state to disk.

What is left to prove is narrower than what is proved: `OneRefusal`, `RoomForAll` and `~LateErrors` bound the failures
beyond which the statements are false in the code as it stands, `DepartedKeptOut` is about one drive, and how soon
things happen is stated only where the code promises a time (`InvitesAreTrue`, `ShownBeforeApplied`).
