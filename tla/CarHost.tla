------------------------------ MODULE CarHost ------------------------------
(***************************************************************************)
(* The host side of a shared car (src-tauri/src/commands.rs, with the seat *)
(* effects of relay.rs and usage.rs): the four-seat session that lives     *)
(* behind the AppRuntime mutex, the claim loops that grant and release its *)
(* seats, the relay requests that run across those changes, and the        *)
(* start / resume / stop / suspend commands with their await points.       *)
(*                                                                         *)
(* The coordinator is the environment here: a claim loop may be handed any *)
(* message, in any order, any number of times, except that only an access  *)
(* id whose grant was sent can come back in a notice or a request.         *)
(* CarRide composes the same handlers with mailboxes and passengers.       *)
(***************************************************************************)
EXTENDS Naturals, FiniteSets

CONSTANTS
  Peer,      \* passenger devices
  CarId,     \* cars this host may ever create (a fresh uuid per start)
  Code,      \* seat codes
  CarOf,     \* the car each seat code was generated for
  ClaimId,   \* claim ids passengers put in their claims
  Access,    \* access ids (each stands for its session secret too)
  Loop,      \* claim loops that may exist at once (a bound)
  Request,   \* relay requests that may be in flight at once (a bound)
  Slot,      \* host commands that may be in progress at once (a bound)
  LateErrors,\* whether a write of the history may fail once it is in place
  None       \* "no car", "no passenger", "nothing in this slot"

ASSUME CarOfAssumption == CarOf \in [Code -> CarId]
ASSUME NoneAssumption  == None \notin Peer \cup CarId
ASSUME LateErrorsAssumption == LateErrors \in BOOLEAN

Window    == {"scheduled", "open", "over"}
SeatState == {"waiting", "joining", "connected", "using"}
Seat      == [state : SeatState, nickname : Peer \cup {None}]

\* A HostSeatBinding; the grant sent to the passenger carries the same fields.
Binding == [code : Code, claim : ClaimId, peer : Peer, access : Access]
ASSUME NoBindingAssumption == None \notin Binding

\* The two messages of the seat protocol, after signature and envelope checks.
Claim  == [code : Code, claim : ClaimId, peer : Peer]
Notice == [code : Code, peer : Peer, access : Access]

VARIABLES
  activeCar,   \* AppRuntime.active_car: the car's id, or None
  window,      \* where each car stands in its starts_at .. expires_at window
  seats,       \* the seats of the active car (a fresh seat for other codes)
  bindings,    \* AppRuntime.host_bindings, at most one per code
  signalling,  \* devices with a signal queued in AppRuntime.pending_signals
  relay,       \* relay[r]: the binding request r was admitted under
  loop,        \* the claim loops: where each is and the grant in its hands
  task,        \* start, resume and stop commands between two of their steps
  history,     \* cars whose ride-history record is not closed (on disk)
  created,     \* cars ever created (car ids are never reused)
  issued,      \* access ids ever generated (never reused)
  sent         \* ... and those whose grant reached the coordinator

session == <<seats, bindings, signalling>>
vars == <<activeCar, window, session, relay, loop, task, history, created,
          issued, sent>>

-----------------------------------------------------------------------------
FreshSeat  == [state |-> "waiting", nickname |-> None]
FreshSeats == [c \in Code |-> FreshSeat]

Idle == [pc |-> "off", car |-> None, grant |-> None]
NoTask == [pc |-> "none", car |-> None, seen |-> {}]

\* BindingOn(c): the entry of host_bindings for code c, as a set.
BindingOn(c) == {b \in bindings : b.code = c}
Bound(p)     == \E b \in bindings : b.peer = p
Authorised(a) == \E b \in bindings : b.access = a

\* Fault: the loop's test forgets which car is active.
ActiveUntilExpiry(car) == car \in CarId /\ window[car] # "over"

\* active_host_car: the test that keeps a car's loops alive.
Active(car) == car \in CarId /\ activeCar = car /\ window[car] # "over"

\* The window test of a claim or of a relay request.
Open(car) == car \in CarId /\ activeCar = car /\ window[car] = "open"

\* Fault: the bindings outlive the session.
ClearSeatsOnly ==
  /\ seats' = FreshSeats
  /\ signalling' = {}
  /\ UNCHANGED bindings

\* ClearSession: what stop, suspend, start and resume all do to the runtime.
ClearSession ==
  /\ seats' = FreshSeats
  /\ bindings' = {}
  /\ signalling' = {}

Init ==
  /\ activeCar = None
  /\ window = [c \in CarId |-> "scheduled"]
  /\ seats = FreshSeats
  /\ bindings = {}
  /\ signalling = {}
  /\ relay = [r \in Request |-> None]
  /\ loop = [l \in Loop |-> Idle]
  /\ task = [s \in Slot |-> NoTask]
  /\ history = {}
  /\ created = {}
  /\ issued = {}
  /\ sent = {}

-----------------------------------------------------------------------------
(***************************************************************************)
(* The claim loop.  One message is handled at a time; the only await       *)
(* inside a handler is the send of the encrypted grant.                    *)
(***************************************************************************)

\* The binding a claim already holds: same code, claim id and device.
HeldBy(m) == {b \in BindingOn(m.code) : b.claim = m.claim /\ b.peer = m.peer}

\* Fault: only the seat's state protects it, and it changes after the await.
GrantableWhileWaiting(m) ==
  /\ Open(CarOf[m.code])
  /\ HeldBy(m) # {} \/ seats[m.code].state = "waiting"

\* access_grant_for_claim returns a grant for m.
Grantable(m) ==
  /\ Open(CarOf[m.code])
  /\ \/ HeldBy(m) # {}
     \/ BindingOn(m.code) = {} /\ seats[m.code].state = "waiting"

BindSeat(m, a) ==
  [code |-> m.code, claim |-> m.claim, peer |-> m.peer, access |-> a]

\* A new grant gets a fresh uuid and a fresh secret.
FreshAccess == Access \ issued

\* The loop goes on to pc, with the grant g in its hands.
At(l, pc, g) == [loop EXCEPT ![l] = [pc |-> pc, car |-> loop[l].car, grant |-> g]]

\* The new binding is stored, under its code, before the grant is sent.
HandleClaim(l, m) ==
  /\ loop[l].pc = "ready"
  /\ Grantable(m)
  /\ \/ \E b \in HeldBy(m) :
          /\ loop' = At(l, "sending", b)
          /\ UNCHANGED <<bindings, issued>>
     \/ /\ HeldBy(m) = {}
        /\ \E a \in FreshAccess :
             /\ bindings' = (bindings \ BindingOn(m.code)) \cup {BindSeat(m, a)}
             /\ issued' = issued \cup {a}
             /\ loop' = At(l, "sending", BindSeat(m, a))
  /\ UNCHANGED <<activeCar, window, seats, signalling, relay, task, history,
                 created, sent>>

\* send_message(...).await returns Ok: the grant is in the mailbox.
GrantSent(l) ==
  /\ loop[l].pc = "sending"
  /\ loop' = At(l, "sent", loop[l].grant)
  /\ sent' = sent \cup {loop[l].grant.access}
  /\ UNCHANGED <<activeCar, window, session, relay, task, history, created,
                 issued>>

\* ... or an error (the coordinator may have taken the message even so): the
\* handler gives up, the binding stays.
SendFailed(l) ==
  /\ loop[l].pc = "sending"
  /\ sent' \in {sent, sent \cup {loop[l].grant.access}}
  /\ loop' = At(l, "ready", None)
  /\ UNCHANGED <<activeCar, window, session, relay, task, history, created,
                 issued>>

\* Faults: the re-read forgets the binding; or asks only for some binding.
StillDriving(g) == activeCar = CarOf[g.code]
StillBound(g)   == BindingOn(g.code) # {} /\ activeCar = CarOf[g.code]

\* mark_seat_joining re-reads the runtime: the await may have lost the seat.
StillGranted(g) ==
  /\ \E b \in BindingOn(g.code) : b.claim = g.claim /\ b.peer = g.peer
  /\ activeCar = CarOf[g.code]

\* Fault: the seat shows the claim instead of the device.
JoiningByClaim(g) == [state |-> "joining", nickname |-> g.claim]

JoiningSeat(g) == [state |-> "joining", nickname |-> g.peer]

MarkSeatJoining(l) ==
  LET g == loop[l].grant IN
  /\ loop[l].pc = "sent"
  /\ seats' = IF StillGranted(g)
                THEN [seats EXCEPT ![g.code] = JoiningSeat(g)]
                ELSE seats
  /\ loop' = At(l, "ready", None)
  /\ UNCHANGED <<activeCar, window, bindings, signalling, relay, task, history,
                 created, issued, sent>>

\* A signal of a bound device is queued; when the queue is full its oldest
\* entry goes, which may be the last one of some device.
HandleSignal(l, p) ==
  /\ loop[l].pc = "ready"
  /\ Bound(p)
  /\ \E evicted \in {{}} \cup {{q} : q \in signalling} :
       signalling' = (signalling \ evicted) \cup {p}
  /\ UNCHANGED <<activeCar, window, seats, bindings, relay, loop, task, history,
                 created, issued, sent>>

\* Fault: a notice of an earlier ride of the same device will do.
ReleasesAnyRide(n, b) == b.code = n.code /\ b.peer = n.peer

\* The notice names the seat, device and access id it wants released.
Releases(n, b) == b.code = n.code /\ b.peer = n.peer /\ b.access = n.access

\* Fault: signals that are queued survive their sender's seat.
KeepSignals(p) == UNCHANGED signalling

DropSignals(p) == signalling' = signalling \ {p}

HandleLeave(l, n) ==
  /\ loop[l].pc = "ready"
  /\ n.access \in sent
  /\ activeCar = CarOf[n.code]
  /\ \E b \in bindings :
       /\ Releases(n, b)
       /\ bindings' = bindings \ {b}
  /\ seats' = [seats EXCEPT ![n.code] = FreshSeat]
  /\ DropSignals(n.peer)
  /\ UNCHANGED <<activeCar, window, relay, loop, task, history, created,
                 issued, sent>>

\* The while condition of spawn_host_claim_loop, tested between two batches.
LoopExit(l) ==
  /\ loop[l].pc = "ready"
  /\ ~Active(loop[l].car)
  /\ loop' = [loop EXCEPT ![l] = Idle]
  /\ UNCHANGED <<activeCar, window, session, relay, task, history, created,
                 issued, sent>>

-----------------------------------------------------------------------------
(***************************************************************************)
(* The host's webview: confirm_passenger_link when a data channel opens,   *)
(* poll_webrtc_signals without an access id.                               *)
(***************************************************************************)
ConfirmLink(p) ==
  /\ \E b \in bindings :
       /\ b.peer = p
       /\ activeCar = CarOf[b.code]
       /\ seats[b.code].state \in {"joining", "connected"}
       /\ seats' = [seats EXCEPT ![b.code].state = "connected"]
  /\ UNCHANGED <<activeCar, window, bindings, signalling, relay, loop, task,
                 history, created, issued, sent>>

PollSignals ==
  /\ signalling' = {}
  /\ UNCHANGED <<activeCar, window, seats, bindings, relay, loop, task, history,
                 created, issued, sent>>

-----------------------------------------------------------------------------
(***************************************************************************)
(* The relay.  A request is admitted under the binding of its access id    *)
(* (binding_for_request), runs upstream without the lock, and its usage is *)
(* applied to whatever car is active when the response ends.               *)
(***************************************************************************)
Admit(r, b) ==
  /\ relay[r] = None
  /\ b \in bindings /\ b.access \in sent
  /\ activeCar # None /\ Open(activeCar)
  /\ relay' = [relay EXCEPT ![r] = b]
  /\ UNCHANGED <<activeCar, window, session, loop, task, history, created,
                 issued, sent>>

\* The seat apply_usage writes to: found by code in the active car.
MeteredSeat(r) == activeCar = CarOf[relay[r].code]

FinishMetered(r) ==
  /\ relay[r] # None
  /\ MeteredSeat(r)
  /\ seats' = [seats EXCEPT ![relay[r].code].state = "using"]
  /\ relay' = [relay EXCEPT ![r] = None]
  /\ UNCHANGED <<activeCar, window, bindings, signalling, loop, task, history,
                 created, issued, sent>>

\* An error status, an unmetered path, a broken stream, or no seat to charge.
FinishUnmetered(r) ==
  /\ relay[r] # None
  /\ relay' = [relay EXCEPT ![r] = None]
  /\ UNCHANGED <<activeCar, window, session, loop, task, history, created,
                 issued, sent>>

-----------------------------------------------------------------------------
(***************************************************************************)
(* The commands.  start_car and resume_host_car await the registration of  *)
(* the four invites, then write the ride history, then take the runtime    *)
(* lock; stop_car clears the runtime, then writes the history.             *)
(***************************************************************************)
StartCar(s, car) ==
  /\ task[s] = NoTask
  /\ car \in CarId \ created
  /\ window[car] # "over"
  /\ created' = created \cup {car}
  /\ task' = [task EXCEPT ![s] = [pc |-> "starting", car |-> car, seen |-> {}]]
  /\ UNCHANGED <<activeCar, window, session, relay, loop, history, issued,
                 sent>>

\* can_resume_at
Resumable(car) == car \in history /\ window[car] # "over"

\* The history is read, and the active car tested, before the await.
ResumeHostCar(s, car) ==
  /\ task[s] = NoTask
  /\ Resumable(car)
  /\ activeCar = None
  /\ task' = [task EXCEPT ![s] =
                [pc |-> "resuming", car |-> car, seen |-> history]]
  /\ UNCHANGED <<activeCar, window, session, relay, loop, history, created,
                 issued, sent>>

\* Fault: the new record is closed along with the others.
AllRecordsClosed(car) == {c \in history : window[c] = "over"}

\* record_host_started closes every other resumable host record.
OneRecordOpen(car) == {c \in history : window[c] = "over"} \cup {car}

\* An invite could not be registered, or the history not written (a stop then
\* only logs it).  The write may report an error after its rename: the file is
\* in place, but not its permissions, or its directory not synchronised.
CommandFailed(s) ==
  /\ task[s].pc \in {"starting", "resuming", "stopping"}
  /\ \/ UNCHANGED history
     \/ LateErrors /\ task[s].pc = "starting" /\ history' = OneRecordOpen(task[s].car)
     \/ LateErrors /\ task[s].pc = "resuming" /\ history' = task[s].seen
  /\ task' = [task EXCEPT ![s] = NoTask]
  /\ UNCHANGED <<activeCar, window, session, relay, loop, created, issued,
                 sent>>

RecordStarted(s) ==
  /\ task[s].pc = "starting"
  /\ history' = OneRecordOpen(task[s].car)
  /\ task' = [task EXCEPT ![s].pc = "recorded"]
  /\ UNCHANGED <<activeCar, window, session, relay, loop, created, issued,
                 sent>>

\* record_host_resumed writes back the records read before the await.
RecordResumed(s) ==
  /\ task[s].pc = "resuming"
  /\ history' = task[s].seen
  /\ task' = [task EXCEPT ![s] =
                [pc |-> "recorded", car |-> task[s].car, seen |-> {}]]
  /\ UNCHANGED <<activeCar, window, session, relay, loop, created, issued,
                 sent>>

Activate(s, l) ==
  /\ task[s].pc = "recorded"
  /\ loop[l] = Idle
  /\ activeCar' = task[s].car
  /\ ClearSession
  /\ loop' = [loop EXCEPT ![l] =
                [pc |-> "ready", car |-> task[s].car, grant |-> None]]
  /\ task' = [task EXCEPT ![s] = NoTask]
  /\ UNCHANGED <<window, relay, history, created, issued, sent>>

StopCar(s) ==
  /\ task[s] = NoTask
  /\ activeCar # None
  /\ task' = [task EXCEPT ![s] =
                [pc |-> "stopping", car |-> activeCar, seen |-> {}]]
  /\ activeCar' = None
  /\ ClearSession
  /\ UNCHANGED <<window, relay, loop, history, created, issued, sent>>

RecordStopped(s) ==
  /\ task[s].pc = "stopping"
  /\ history' = history \ {task[s].car}
  /\ task' = [task EXCEPT ![s] = NoTask]
  /\ UNCHANGED <<activeCar, window, session, relay, loop, created, issued,
                 sent>>

SuspendCar ==
  /\ activeCar' = None
  /\ ClearSession
  /\ UNCHANGED <<window, relay, loop, task, history, created, issued, sent>>

\* The process dies: only the ride history survives.
Crash ==
  /\ activeCar' = None
  /\ ClearSession
  /\ relay' = [r \in Request |-> None]
  /\ loop' = [l \in Loop |-> Idle]
  /\ task' = [s \in Slot |-> NoTask]
  /\ UNCHANGED <<window, history, created, issued, sent>>

\* The clock crosses starts_at or expires_at (never, for an all-day car).
TimePasses(car) ==
  /\ window[car] # "over"
  /\ window' = [window EXCEPT ![car] = IF @ = "scheduled" THEN "open"
                                                          ELSE "over"]
  /\ UNCHANGED <<activeCar, session, relay, loop, task, history, created,
                 issued, sent>>

-----------------------------------------------------------------------------
LoopStep(l) ==
  \/ \E m \in Claim : HandleClaim(l, m)
  \/ \E p \in Peer : HandleSignal(l, p)
  \/ \E n \in Notice : HandleLeave(l, n)
  \/ GrantSent(l) \/ SendFailed(l) \/ MarkSeatJoining(l) \/ LoopExit(l)

RelayStep(r) ==
  \/ \E b \in bindings : Admit(r, b)
  \/ FinishMetered(r) \/ FinishUnmetered(r)

PrepareStep(s) ==
  \/ \E car \in CarId : StartCar(s, car) \/ ResumeHostCar(s, car)
  \/ CommandFailed(s) \/ RecordStarted(s) \/ RecordResumed(s)
  \/ StopCar(s) \/ RecordStopped(s)

CommandStep(s) == PrepareStep(s) \/ \E l \in Loop : Activate(s, l)

Next ==
  \/ \E l \in Loop : LoopStep(l)
  \/ \E r \in Request : RelayStep(r)
  \/ \E s \in Slot : CommandStep(s)
  \/ \E p \in Peer : ConfirmLink(p)
  \/ PollSignals
  \/ SuspendCar
  \/ Crash
  \/ \E car \in CarId : TimePasses(car)

Spec == Init /\ [][Next]_vars

-----------------------------------------------------------------------------
(***************************************************************************)
(* Invariants                                                              *)
(***************************************************************************)

\* Every variable of the host session has its type.
TypeOK ==
  /\ activeCar \in CarId \cup {None}
  /\ window \in [CarId -> Window]
  /\ seats \in [Code -> Seat]
  /\ bindings \subseteq Binding
  /\ signalling \subseteq Peer
  /\ relay \in [Request -> Binding \cup {None}]
  /\ loop \in [Loop -> [pc : {"off", "ready", "sending", "sent"},
                        car : CarId \cup {None},
                        grant : Binding \cup {None}]]
  /\ \A l \in Loop : loop[l].pc \in {"sending", "sent"} => loop[l].grant # None
  /\ task \in [Slot -> [pc : {"none", "starting", "resuming", "recorded",
                             "stopping"},
                        car : CarId \cup {None},
                        seen : SUBSET CarId]]
  /\ \A s \in Slot : task[s].pc # "none" => task[s].car # None
  /\ history \subseteq CarId
  /\ created \subseteq CarId
  /\ issued \subseteq Access
  /\ sent \subseteq Access

\* Whatever is granted, released, stopped, overwritten by another start or
\* lost in a crash, a binding is always one of the car being driven now: no
\* secret of an earlier ride authorises a request (binding_for_request looks
\* bindings up by access id alone, without asking for their car).
BindingsOfActiveCar == \A b \in bindings : CarOf[b.code] = activeCar

\* A seat shown as joining or connected is bound.  mark_seat_joining runs after
\* the await of the grant's send, when the passenger may have left, another
\* claim may hold the seat, or the car may have been stopped and resumed.
JoinedSeatIsBound ==
  \A c \in Code : seats[c].state \in {"joining", "connected"} => BindingOn(c) # {}

\* The nickname on a seat is that of the device it is bound to, so a usage
\* history line (which takes the nickname from the seat and the device from
\* the binding) never mixes two passengers.
NicknameOfHolder ==
  \A c \in Code : seats[c].nickname # None =>
    \E b \in BindingOn(c) : b.peer = seats[c].nickname

\* The webview is only ever handed signals of devices that hold a seat at the
\* time it polls, although they were queued earlier.
SignalsOfHolders == \A p \in signalling : Bound(p)

\* A released seat keeps no name and no signal of the device that held it, whatever
\* of its messages was still being handled.
NothingOfTheDeparted == NicknameOfHolder /\ SignalsOfHolders

(***************************************************************************)
(* Action properties                                                       *)
(***************************************************************************)

\* A bound seat never passes to another claim, device or access id in one
\* step: it is released first (first_device_binding_prevents_a_second_device
\* _from_reusing_the_code, for every interleaving).
SeatIsReleasedFirst ==
  [][\A c \in Code : BindingOn(c) # {} /\ BindingOn(c)' # {} =>
       BindingOn(c)' = BindingOn(c)]_vars

\* docs/ARCHITECTURE.md, Restart Recovery: "a normal process/OS shutdown leaves
\* it resumable".  While a car is driven, its record or that of the car about to
\* replace it is open in the history, although the record is written before the
\* runtime is switched, and after it on a stop.  Kept by one command at a time,
\* not by two that overlap, nor by a start that fails late while another car is
\* driven.
CrashIsRecoverable ==
  activeCar # None =>
    \E c \in history : c = activeCar \/ \E s \in Slot : task[s].car = c

\* The host implements the lease of each seat (SeatLease).
Lease == INSTANCE SeatLease WITH
  holder <- [c \in Code |->
               {[peer |-> b.peer, access |-> b.access] : b \in BindingOn(c)}],
  spent  <- issued
KeepsLeases == Lease!Spec

(***************************************************************************)
(* Statements of the documentation that the code does not keep             *)
(***************************************************************************)

\* docs/ARCHITECTURE.md, One-click Flow: "Host automatically binds the first
\* valid claimant to that seat."  A seat of an open car that nobody holds takes
\* the next claim, whoever sends it.
FreeSeatTakesAClaim ==
  \A m \in Claim :
    Open(CarOf[m.code]) /\ BindingOn(m.code) = {} => Grantable(m)

\* docs/ARCHITECTURE.md, Trust Boundary: each completed request appends an
\* event that stores "the car, passenger, tool": the device a request would be
\* charged to, if it ended now, is the device that sent it.
UsageNamesTheSender ==
  \A r \in Request : relay[r] # None /\ MeteredSeat(r) =>
    \A b \in BindingOn(relay[r].code) : b.peer = relay[r].peer

(***************************************************************************)
(* Liveness                                                                *)
(***************************************************************************)

\* The runtime schedules every spawned loop; a send ends or times out.
LoopFairness ==
  \A l \in Loop : WF_vars(GrantSent(l) \/ SendFailed(l))
              /\ WF_vars(MarkSeatJoining(l))
              /\ WF_vars(LoopExit(l))
FairSpec == Spec /\ LoopFairness

\* Once sharing has stopped for good, every claim loop ends, also the ones that
\* outlived a suspend and a resume of their car.
LoopsWindDown ==
  (<>[](activeCar = None)) => <>[](\A l \in Loop : loop[l] = Idle)
=============================================================================
