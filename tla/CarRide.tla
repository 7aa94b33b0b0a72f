------------------------------ MODULE CarRide ------------------------------
(***************************************************************************)
(* The seat protocol end to end: the host of CarHost, the mailboxes of the *)
(* coordinator (deploy/coordinator/server.js) and the passengers' join_car *)
(* and leave_car.  The host's handlers are those of CarHost; here they get *)
(* the messages a mailbox hands them, in the order it hands them, and what *)
(* they send reaches a passenger only through its own mailbox.             *)
(*                                                                         *)
(* Relay requests and WebRTC signals are left to CarHost.                  *)
(***************************************************************************)
EXTENDS CarHost, Sequences

CONSTANTS
  BoxLimit,    \* MAX_MESSAGES_PER_PEER
  PollLimit,   \* how many messages one poll asks for
  Drives       \* how many times a car may be activated (a bound)

ASSUME BoundAssumption ==
  BoxLimit \in Nat \ {0} /\ PollLimit \in Nat \ {0} /\ Drives \in Nat
ASSUME NoClaimAssumption == None \notin Claim

\* What a passenger keeps of a seat it was granted (PassengerAccessContext).
Ride == [code : Code, claim : ClaimId, access : Access, leaving : BOOLEAN]

VARIABLES
  hostBox,     \* the host's mailbox: claims and leave notices
  box,         \* box[p]: the mailbox of passenger p, grants only
  polling,     \* claim loops waiting for the answer to a poll of hostBox
  batch,       \* batch[l]: the polled messages loop l has yet to handle
  join,        \* join[p]: the claim join_car is resending, or None
  rides,       \* rides[p]: AppRuntime.passenger_contexts of p
  claimed,     \* claim ids ever generated (never reused)
  departed,    \* claims whose passenger has left its ride
  drives       \* how often a car has been activated

mail == <<hostBox, box>>
hostLoop == <<polling, batch>>
passengers == <<join, rides, claimed, departed>>
rideVars == <<vars, mail, hostLoop, passengers, drives>>

RideInit ==
  /\ Init
  /\ hostBox = <<>>
  /\ box = [p \in Peer |-> <<>>]
  /\ polling = {}
  /\ batch = [l \in Loop |-> <<>>]
  /\ join = [p \in Peer |-> None]
  /\ rides = [p \in Peer |-> {}]
  /\ claimed = {}
  /\ departed = {}
  /\ drives = 0

-----------------------------------------------------------------------------
(***************************************************************************)
(* The coordinator: a mailbox per device.  A poll takes its oldest         *)
(* messages away; the oldest goes, too, when it is full or too old.        *)
(***************************************************************************)

\* Faults: the newest message comes first; or the cap is forgotten.
PostInFront(q, m) == IF Len(q) = BoxLimit THEN q ELSE <<m>> \o q
PostUncapped(q, m) == Append(q, m)

Post(q, m) == IF Len(q) = BoxLimit THEN Append(Tail(q), m) ELSE Append(q, m)

\* What a poll takes from a mailbox, and what it leaves in it.
Polled(q) == IF Len(q) <= PollLimit THEN q ELSE SubSeq(q, 1, PollLimit)
Rest(q)   == IF Len(q) <= PollLimit THEN <<>>
                                    ELSE SubSeq(q, PollLimit + 1, Len(q))

\* cleanup() drops what outlived its ttl_ms, from the front.
Expire ==
  /\ \/ hostBox # <<>> /\ hostBox' = Tail(hostBox) /\ UNCHANGED box
     \/ \E p \in Peer :
          /\ box[p] # <<>>
          /\ box' = [box EXCEPT ![p] = Tail(@)]
          /\ UNCHANGED hostBox
  /\ UNCHANGED <<vars, hostLoop, passengers, drives>>

-----------------------------------------------------------------------------
(***************************************************************************)
(* A passenger: join_car and leave_car.                                    *)
(***************************************************************************)

\* The invite resolves and its window is open: a claim with a fresh id.
Join(p, c) ==
  /\ join[p] = None
  /\ CarOf[c] \in created /\ window[CarOf[c]] = "open"
  /\ \E k \in ClaimId \ claimed :
       /\ join' = [join EXCEPT ![p] = [code |-> c, claim |-> k, peer |-> p]]
       /\ claimed' = claimed \cup {k}
  /\ UNCHANGED <<vars, mail, hostLoop, rides, departed, drives>>

\* Sent at once and again every four seconds until a grant arrives.
SendClaim(p) ==
  /\ join[p] # None
  /\ hostBox' = Post(hostBox, join[p])
  /\ UNCHANGED <<vars, box, hostLoop, passengers, drives>>

\* The polled grants that answer p's claim, by their place.
Answers(p) ==
  {i \in 1..Len(Polled(box[p])) :
     /\ Polled(box[p])[i].claim = join[p].claim
     /\ Polled(box[p])[i].code = join[p].code
     /\ Polled(box[p])[i].peer = p}

RideOn(g, leaving) ==
  [code |-> g.code, claim |-> g.claim, access |-> g.access, leaving |-> leaving]

\* The first answer ends the join; what was polled with it is dropped.
Receive(p) ==
  /\ join[p] # None
  /\ box[p] # <<>>
  /\ box' = [box EXCEPT ![p] = Rest(@)]
  /\ \/ Answers(p) = {} /\ UNCHANGED <<join, rides>>
     \/ \E first \in Answers(p) :
          /\ \A i \in Answers(p) : first <= i
          /\ rides' = [rides EXCEPT ![p] =
                         @ \cup {RideOn(Polled(box[p])[first], FALSE)}]
          /\ join' = [join EXCEPT ![p] = None]
  /\ UNCHANGED <<vars, hostBox, hostLoop, claimed, departed, drives>>

\* JOIN_TIMEOUT_SECONDS have passed, or a send or a poll returned an error
\* although the coordinator may have served it.
JoinFails(p) ==
  /\ join[p] # None
  /\ join' = [join EXCEPT ![p] = None]
  /\ \/ UNCHANGED mail
     \/ hostBox' = Post(hostBox, join[p]) /\ UNCHANGED box
     \/ box' = [box EXCEPT ![p] = Rest(@)] /\ UNCHANGED hostBox
  /\ UNCHANGED <<vars, hostLoop, rides, claimed, departed, drives>>

\* The ride page polls for WebRTC signals and drops everything else.
PollRideSignals(p) ==
  /\ rides[p] # {}
  /\ box[p] # <<>>
  /\ box' = [box EXCEPT ![p] = Rest(@)]
  /\ UNCHANGED <<vars, hostBox, hostLoop, passengers, drives>>

\* leave_car sends the notice (an error is logged and ignored) ...
SendLeave(p, r) ==
  /\ r \in rides[p]
  /\ hostBox' \in {hostBox, Post(hostBox, [code |-> r.code, peer |-> p,
                                          access |-> r.access])}
  /\ rides' = [rides EXCEPT ![p] = (@ \ {r}) \cup {RideOn(r, TRUE)}]
  /\ departed' = departed \cup {r.claim}
  /\ UNCHANGED <<vars, box, hostLoop, join, claimed, drives>>

\* ... and then forgets the ride.
ForgetRide(p, r) ==
  /\ r \in rides[p] /\ r.leaving
  /\ rides' = [rides EXCEPT ![p] = @ \ {r}]
  /\ UNCHANGED <<vars, mail, hostLoop, join, claimed, departed, drives>>

\* The passenger's process dies: nothing of its rides was on disk.
PassengerCrash(p) ==
  /\ join[p] # None \/ rides[p] # {}
  /\ join' = [join EXCEPT ![p] = None]
  /\ rides' = [rides EXCEPT ![p] = {}]
  /\ UNCHANGED <<vars, mail, hostLoop, claimed, departed, drives>>

-----------------------------------------------------------------------------
(***************************************************************************)
(* The host's claim loop, fed by its mailbox.                              *)
(***************************************************************************)

\* The while condition holds and poll_messages is awaited.
BeginPoll(l) ==
  /\ loop[l].pc = "ready"
  /\ l \notin polling /\ batch[l] = <<>>
  /\ Active(loop[l].car)
  /\ polling' = polling \cup {l}
  /\ UNCHANGED <<vars, mail, batch, passengers, drives>>

\* It answers with the oldest messages, or with an error.
EndPoll(l) ==
  /\ l \in polling
  /\ polling' = polling \ {l}
  /\ \/ batch' = [batch EXCEPT ![l] = Polled(hostBox)] /\ hostBox' = Rest(hostBox)
     \/ hostBox' \in {hostBox, Rest(hostBox)} /\ UNCHANGED batch
  /\ UNCHANGED <<vars, box, passengers, drives>>

\* The loop has the message m in its hands.
InHand(l, m) == batch[l] # <<>> /\ Head(batch[l]) = m

Drop(l) == batch' = [batch EXCEPT ![l] = Tail(@)]

TakeClaim(l) ==
  /\ \E m \in Claim : InHand(l, m) /\ HandleClaim(l, m)
  /\ Drop(l)
  /\ UNCHANGED <<mail, polling, passengers, drives>>

TakeNotice(l) ==
  /\ \E n \in Notice : InHand(l, n) /\ HandleLeave(l, n)
  /\ Drop(l)
  /\ UNCHANGED <<mail, polling, passengers, drives>>

\* A claim that gets no grant, a notice that matches no binding, or a message
\* that has expired by the time it is handled.
Discard(l) ==
  /\ loop[l].pc = "ready"
  /\ batch[l] # <<>>
  /\ Drop(l)
  /\ UNCHANGED <<vars, mail, polling, passengers, drives>>

\* The grant in the hands of loop l reaches its passenger's mailbox.
Posted(l) == [box EXCEPT ![loop[l].grant.peer] = Post(@, loop[l].grant)]

DeliverGrant(l) ==
  /\ GrantSent(l)
  /\ box' = Posted(l)
  /\ UNCHANGED <<hostBox, hostLoop, passengers, drives>>

LoseGrant(l) ==
  /\ SendFailed(l)
  /\ box' = box \/ (loop[l].grant.access \in sent' /\ box' = Posted(l))
  /\ UNCHANGED <<hostBox, hostLoop, passengers, drives>>

ShowGrantee(l) ==
  /\ MarkSeatJoining(l)
  /\ UNCHANGED <<mail, hostLoop, passengers, drives>>

EndLoop(l) ==
  /\ LoopExit(l)
  /\ l \notin polling /\ batch[l] = <<>>
  /\ UNCHANGED <<mail, hostLoop, passengers, drives>>

\* A data channel opens between two live applications.
OpenLink(p) ==
  /\ ConfirmLink(p)
  /\ rides[p] # {}
  /\ UNCHANGED <<mail, hostLoop, passengers, drives>>

Command(s) ==
  /\ PrepareStep(s)
  /\ UNCHANGED <<mail, hostLoop, passengers, drives>>

DriveOff(s, l) ==
  /\ drives < Drives
  /\ Activate(s, l)
  /\ drives' = drives + 1
  /\ UNCHANGED <<mail, hostLoop, passengers>>

Suspend ==
  /\ SuspendCar
  /\ UNCHANGED <<mail, hostLoop, passengers, drives>>

HostCrash ==
  /\ Crash
  /\ polling' = {}
  /\ batch' = [l \in Loop |-> <<>>]
  /\ UNCHANGED <<mail, passengers, drives>>

Clock(car) ==
  /\ TimePasses(car)
  /\ UNCHANGED <<mail, hostLoop, passengers, drives>>

-----------------------------------------------------------------------------
PassengerStep(p) ==
  \/ \E c \in Code : Join(p, c)
  \/ SendClaim(p) \/ Receive(p) \/ JoinFails(p) \/ PollRideSignals(p)
  \/ \E r \in rides[p] : SendLeave(p, r) \/ ForgetRide(p, r)
  \/ PassengerCrash(p)

HostLoopStep(l) ==
  \/ BeginPoll(l) \/ EndPoll(l)
  \/ TakeClaim(l) \/ TakeNotice(l) \/ Discard(l)
  \/ DeliverGrant(l) \/ LoseGrant(l) \/ ShowGrantee(l) \/ EndLoop(l)

HostStep ==
  \/ \E l \in Loop : HostLoopStep(l)
  \/ \E p \in Peer : OpenLink(p)
  \/ \E s \in Slot : Command(s) \/ \E l \in Loop : DriveOff(s, l)
  \/ Suspend
  \/ HostCrash

RideNext ==
  \/ \E p \in Peer : PassengerStep(p)
  \/ HostStep
  \/ Expire
  \/ \E car \in CarId : Clock(car)

RideSpec == RideInit /\ [][RideNext]_rideVars

-----------------------------------------------------------------------------
(***************************************************************************)
(* Properties                                                              *)
(***************************************************************************)

Boxed(q) == Len(q) <= BoxLimit

\* Every variable of the protocol has its type, and no mailbox outgrows its cap.
RideTypeOK ==
  /\ hostBox \in Seq(Claim \cup Notice) /\ Boxed(hostBox)
  /\ box \in [Peer -> Seq(Binding)] /\ \A p \in Peer : Boxed(box[p])
  /\ polling \subseteq Loop
  /\ batch \in [Loop -> Seq(Claim \cup Notice)]
  /\ join \in [Peer -> Claim \cup {None}]
  /\ rides \in [Peer -> SUBSET Ride]
  /\ claimed \subseteq ClaimId
  /\ departed \subseteq claimed
  /\ drives \in 0..Drives

\* A passenger that is riding keeps its seat until it leaves or the host ends
\* the session: no late notice of an earlier ride, of another claim or from
\* before a restart of the host takes it away.
Rides(b) == \E r \in rides[b.peer] : r.access = b.access /\ ~r.leaving
SessionEnds == activeCar' = None \/ drives' # drives

RiderKeepsSeat ==
  [][\A b \in bindings : Rides(b) /\ b \notin bindings' => SessionEnds]_rideVars

\* In one session of the host, a claim whose passenger has left never binds a
\* seat again, although copies of it may be queued behind the first.
BoundBy(k) == \E b \in bindings : b.claim = k

DepartedStaysOut ==
  [][\A k \in departed : drives' <= 1 /\ ~BoundBy(k) => ~BoundBy(k)']_rideVars

\* docs/ARCHITECTURE.md, One-click Flow: "crashed passengers can rejoin
\* immediately".  A device that was connected on a seat, never left it and has
\* lost its ride gets a grant when it claims that seat again.
CrashedPassengerRejoins ==
  \A l \in Loop, m \in Claim :
    /\ loop[l].pc = "ready" /\ InHand(l, m)
    /\ Open(CarOf[m.code]) /\ join[m.peer] = m
    /\ seats[m.code].state = "connected" /\ rides[m.peer] = {}
    /\ \E b \in BindingOn(m.code) : b.peer = m.peer /\ b.claim \notin departed
    => Grantable(m)
=============================================================================
