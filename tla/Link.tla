-------------------------------- MODULE Link --------------------------------
(***************************************************************************)
(* The peer connection of a ride, src/src/trustedWebRtc.ts: the passenger's *)
(* runtime dials the host, watches the host's heartbeats and dials again     *)
(* after a drop; the host's runtime answers the offers of bound passengers   *)
(* and keeps at most four connections.                                       *)
(*                                                                         *)
(* A connection is named by the number of its dial.  Descriptions, network   *)
(* candidates and frames are not modelled: a dial opens once the host has    *)
(* answered it and the passenger has applied that very answer.  Time is not  *)
(* modelled either: a timer is an action that may happen while it runs.      *)
(***************************************************************************)
EXTENDS Naturals, Sequences, FiniteSets

CONSTANTS
  Rider,      \* passengers
  HostLimit,  \* seats of the car, and connections the host accepts
  MaxRides,   \* bound: rides one passenger starts
  MaxDials,   \* bound: dials of one passenger
  MaxLosses   \* bound: times the network drops a link

ASSUME LinkAssumption == {HostLimit, MaxRides, MaxDials, MaxLosses} \subseteq Nat

VARIABLES
  app,      \* each passenger's runtime, with the ride its commands know of
  first,    \* the dial startPassenger waits for, 0 when it is not running
  loops,    \* each passenger's reconnect loops, by the place they were started
  bound,    \* the ride of each passenger the host has a seat binding for, or 0
  session,  \* the dial of the host's connection to each passenger, 0 without
  inbox,    \* signals on their way to the host
  mail,     \* signals on their way to each passenger
  lost,     \* passengers whose open link no longer carries anything
  losses, hostUp

linkVars == <<app, first, loops, bound, session, inbox, mail, lost, losses, hostUp>>

Dials == 0 .. MaxDials

\* A reconnect loop has a place of its own; in it is the dial it waits for, or
\* one of the two values that no dial has.
Places == 1 .. MaxRides + 1
Off == 0
BackingOff == MaxDials + 1

App == [role : {"none", "passenger"}, riding : BOOLEAN, stopping : BOOLEAN,
        reconnecting : BOOLEAN, watch : BOOLEAN, conn : Dials, answer : Dials,
        state : {"connected", "connecting", "reconnecting", "down"},
        dials : Dials, rides : 0 .. MaxRides]

\* A freshly started app.
Fresh(dials, rides) ==
  [role |-> "none", riding |-> FALSE, stopping |-> FALSE, reconnecting |-> FALSE,
   watch |-> FALSE, conn |-> 0, answer |-> 0, state |-> "connected",
   dials |-> dials, rides |-> rides]

LinkInit ==
  /\ app = [r \in Rider |-> Fresh(0, 0)]
  /\ first = [r \in Rider |-> 0]
  /\ loops = [r \in Rider |-> [p \in Places |-> Off]]
  /\ bound = [r \in Rider |-> 0]
  /\ session = [r \in Rider |-> 0]
  /\ inbox = <<>>
  /\ mail = [r \in Rider |-> <<>>]
  /\ lost = {}
  /\ losses = 0
  /\ hostUp = TRUE

\* Both ends hold the same dial and the passenger applied its answer.
Open(r) == /\ app[r].conn # 0
           /\ app[r].answer = app[r].conn
           /\ session[r] = app[r].conn

Bound == {r \in Rider : bound[r] # 0}
Healthy(r) == Open(r) /\ r \notin lost

\* removeConnection
Removed(a) == [a EXCEPT !.conn = 0, !.answer = 0]

\* closeConnections: the timers stop and the reconnecting flag is reset, but
\* a loop that is waiting out its back-off goes on waiting.
Closed(a) == [Removed(a) EXCEPT !.watch = FALSE, !.reconnecting = FALSE]

LoopRuns(r, p) == loops[r][p] # Off
Waits(r, p) == loops[r][p] \in 1 .. MaxDials

\* scheduleReconnect on runtime a of r: unless one is already running (by the
\* flag), a loop is started.
MaySchedule(a) == a.role = "passenger" /\ ~a.stopping /\ ~a.reconnecting

Schedule(r, a) ==
  IF MaySchedule(a)
  THEN \E p \in Places :
         /\ ~LoopRuns(r, p)
         /\ loops' = [loops EXCEPT ![r][p] = BackingOff]
         /\ app' = [app EXCEPT ![r] = [a EXCEPT !.reconnecting = TRUE,
                                                !.state = "reconnecting"]]
  ELSE loops' = loops /\ app' = [app EXCEPT ![r] = a]

\* dialOwner up to the offer: the old connection goes, a new one is created.
Dialled(a) == [a EXCEPT !.conn = a.dials + 1, !.answer = 0, !.dials = @ + 1]

OfferOf(r, dial) == [kind |-> "offer", from |-> r, of |-> dial]
LeaveOf(r) == [kind |-> "leave", from |-> r, of |-> app[r].rides]

-----------------------------------------------------------------------------
(***************************************************************************)
(* The passenger                                                            *)
(***************************************************************************)

\* joinCar or resumePassengerRide followed by startPassenger, up to its first
\* wait: the host has bound a seat, whatever ran before is closed.
StartPassenger(r) ==
  LET a == app[r] IN
  /\ ~a.riding /\ first[r] = 0 /\ hostUp
  /\ a.rides < MaxRides /\ a.dials < MaxDials
  /\ r \in Bound \/ Cardinality(Bound) < HostLimit
  /\ bound' = [bound EXCEPT ![r] = a.rides + 1]
  /\ app' = [app EXCEPT ![r] =
       Dialled([Closed(a) EXCEPT !.role = "passenger", !.riding = TRUE,
                !.stopping = FALSE, !.state = "connecting", !.rides = @ + 1])]
  /\ first' = [first EXCEPT ![r] = a.dials + 1]
  /\ inbox' = Append(inbox, OfferOf(r, a.dials + 1))
  /\ lost' = lost \ {r}
  /\ UNCHANGED <<loops, session, mail, losses, hostUp>>

\* The first dial opens: the ride is connected and the heartbeats are watched.
FirstDialOpens(r) ==
  /\ first[r] # 0 /\ app[r].conn = first[r] /\ Open(r)
  /\ first' = [first EXCEPT ![r] = 0]
  /\ app' = [app EXCEPT ![r].state = "connected", ![r].watch = TRUE]
  /\ UNCHANGED <<loops, bound, session, inbox, mail, lost, losses, hostUp>>

\* The first dial fails or times out: startPassenger throws and its caller
\* leaves the car (App.tsx), but nothing stops the runtime.
FirstDialFails(r) ==
  /\ first[r] # 0
  /\ first' = [first EXCEPT ![r] = 0]
  /\ app' = [app EXCEPT ![r].state = "down", ![r].riding = FALSE]
  /\ inbox' = Append(inbox, LeaveOf(r))
  /\ UNCHANGED <<loops, bound, session, mail, lost, losses, hostUp>>

\* The passenger's peer connection reports that it failed, or stays
\* disconnected for three seconds.
PcFails(r) ==
  /\ app[r].conn # 0 /\ ~Healthy(r)
  /\ Schedule(r, Removed(app[r]))
  /\ lost' = lost \ {r}
  /\ UNCHANGED <<first, bound, session, inbox, mail, losses, hostUp>>

\* startHealthWatch: no snapshot came for twelve seconds.
HeartbeatsMissed(r) ==
  LET a == app[r] IN
  /\ a.watch /\ a.role = "passenger" /\ ~a.stopping /\ ~a.reconnecting
  /\ a.state = "connected" /\ ~Healthy(r)
  /\ Schedule(r, Removed(a))
  /\ lost' = lost \ {r}
  /\ UNCHANGED <<first, bound, session, inbox, mail, losses, hostUp>>

\* Fault: a loop that reconnected leaves the flag set.
LoopEndsFlagged(r, p, a) ==
  /\ loops' = [loops EXCEPT ![r][p] = Off]
  /\ app' = [app EXCEPT ![r] = a]

\* A loop ends: the flag is reset, whichever loop had set it.
LoopEnds(r, p, a) ==
  /\ loops' = [loops EXCEPT ![r][p] = Off]
  /\ app' = [app EXCEPT ![r] = [a EXCEPT !.reconnecting = FALSE]]

\* A loop's back-off is over and its passenger still rides: it dials.  Without
\* a ride the offer is refused by send_webrtc_signal and the loop waits again.
LoopDials(r, p) ==
  LET a == app[r] IN
  /\ loops[r][p] = BackingOff /\ ~a.stopping /\ a.role = "passenger"
  /\ a.dials < MaxDials
  /\ app' = [app EXCEPT ![r] = Dialled(a)]
  /\ lost' = lost \ {r}
  /\ \/ /\ a.riding
        /\ loops' = [loops EXCEPT ![r][p] = a.dials + 1]
        /\ inbox' = Append(inbox, OfferOf(r, a.dials + 1))
     \/ ~a.riding /\ UNCHANGED <<loops, inbox>>
  /\ UNCHANGED <<first, bound, session, mail, losses, hostUp>>

\* A loop's back-off is over and the runtime was stopped meanwhile.
LoopStops(r, p) ==
  /\ loops[r][p] = BackingOff
  /\ app[r].stopping \/ app[r].role # "passenger"
  /\ LoopEnds(r, p, app[r])
  /\ UNCHANGED <<first, bound, session, inbox, mail, lost, losses, hostUp>>

\* The loop's dial opens: connected again.
LoopOpens(r, p) ==
  /\ Waits(r, p) /\ loops[r][p] = app[r].conn /\ Open(r)
  /\ LoopEnds(r, p, [app[r] EXCEPT !.state = "connected"])
  /\ UNCHANGED <<first, bound, session, inbox, mail, lost, losses, hostUp>>

\* The loop's dial fails or times out: it backs off again, after six attempts
\* as "down", unless the runtime was stopped.
LoopFails(r, p) ==
  LET a == app[r] IN
  /\ Waits(r, p) /\ ~(loops[r][p] = a.conn /\ Healthy(r))
  /\ \/ /\ ~a.stopping /\ a.role = "passenger"
        /\ loops' = [loops EXCEPT ![r][p] = BackingOff]
        /\ \E state \in {a.state, "down"} : app' = [app EXCEPT ![r].state = state]
     \/ (a.stopping \/ a.role # "passenger") /\ LoopEnds(r, p, a)
  /\ UNCHANGED <<first, bound, session, inbox, mail, lost, losses, hostUp>>

\* handleSignal of the passenger.  A hang-up of the owner ends the redialling.
\* An answer is applied to whatever connection is there, and only once.
PassengerSignal(r) ==
  LET a == app[r]
      message == Head(mail[r]) IN
  /\ a.role = "passenger" /\ a.riding /\ mail[r] # <<>>
  /\ mail' = [mail EXCEPT ![r] = Tail(@)]
  /\ app' = [app EXCEPT ![r] =
       IF message.kind = "hangup"
       THEN [Removed(a) EXCEPT !.stopping = TRUE, !.state = "down"]
       ELSE IF a.conn # 0 /\ a.answer = 0
            THEN [a EXCEPT !.answer = message.dial] ELSE a]
  /\ UNCHANGED <<first, loops, bound, session, inbox, lost, losses, hostUp>>

\* The user leaves: stop, then leave_car, whose notice goes to the host.  The
\* plain hang-up of stop is dropped by the host's signal handler, which takes
\* every hang-up for a leave notice (commands.rs, handle_leave_message).
Leave(r) ==
  LET a == app[r] IN
  /\ a.riding /\ first[r] = 0
  /\ app' = [app EXCEPT ![r] = [Closed(a) EXCEPT !.role = "none", !.stopping = TRUE,
                                !.riding = FALSE, !.state = "connected"]]
  /\ inbox' = Append(inbox, LeaveOf(r))
  /\ mail' = [mail EXCEPT ![r] = <<>>]
  /\ lost' = lost \ {r}
  /\ UNCHANGED <<first, loops, bound, session, losses, hostUp>>

\* The passenger's app crashes and is started again; the host knows nothing.
Crash(r) ==
  /\ app[r].riding
  /\ app' = [app EXCEPT ![r] = Fresh(app[r].dials, app[r].rides)]
  /\ first' = [first EXCEPT ![r] = 0]
  /\ loops' = [loops EXCEPT ![r] = [p \in Places |-> Off]]
  /\ lost' = lost \ {r}
  /\ UNCHANGED <<bound, session, inbox, mail, losses, hostUp>>

-----------------------------------------------------------------------------
(***************************************************************************)
(* The host and the network                                                 *)
(***************************************************************************)

Sessions == {r \in Rider : session[r] # 0}

\* The host's offer handler: the offer supersedes the passenger's own session;
\* with the limit reached by others it is answered by a hang-up.
TakeOffer(r, dial) ==
  IF Cardinality(Sessions \ {r}) >= HostLimit
  THEN /\ session' = [session EXCEPT ![r] = 0]
       /\ mail' = [mail EXCEPT ![r] = Append(@, [kind |-> "hangup", dial |-> 0])]
  ELSE /\ session' = [session EXCEPT ![r] = dial]
       /\ mail' = [mail EXCEPT ![r] = Append(@, [kind |-> "answer", dial |-> dial])]

\* The host polls a signal: an offer counts only while its sender is bound, a
\* leave notice frees the seat and leaves the connection alone.
HostSignal ==
  LET message == Head(inbox) IN
  /\ hostUp /\ inbox # <<>>
  /\ inbox' = Tail(inbox)
  /\ \/ /\ message.kind = "offer" /\ message.from \in Bound
        /\ TakeOffer(message.from, message.of)
        /\ UNCHANGED bound
     \/ /\ message.kind = "offer" /\ message.from \notin Bound
        /\ UNCHANGED <<bound, session, mail>>
     \/ /\ message.kind = "leave"
        /\ bound' = [bound EXCEPT ![message.from] = IF @ = message.of THEN 0 ELSE @]
        /\ UNCHANGED <<session, mail>>
  /\ UNCHANGED <<app, first, loops, lost, losses, hostUp>>

\* The host's peer connection fails: the other end is gone or unreachable.
HostNotices(r) ==
  /\ session[r] # 0
  /\ app[r].conn # session[r] \/ r \in lost
  /\ session' = [session EXCEPT ![r] = 0]
  /\ UNCHANGED <<app, first, loops, bound, inbox, mail, lost, losses, hostUp>>

\* The host ends the car: everybody connected is hung up on.
HostStops ==
  /\ hostUp
  /\ hostUp' = FALSE
  /\ mail' = [r \in Rider |-> IF r \in Sessions \cap Bound
                THEN Append(mail[r], [kind |-> "hangup", dial |-> 0]) ELSE mail[r]]
  /\ session' = [r \in Rider |-> 0]
  /\ bound' = [r \in Rider |-> 0]
  /\ UNCHANGED <<app, first, loops, inbox, lost, losses>>

\* The network drops an open link.
LoseLink(r) ==
  /\ Healthy(r) /\ losses < MaxLosses
  /\ lost' = lost \cup {r}
  /\ losses' = losses + 1
  /\ UNCHANGED <<app, first, loops, bound, session, inbox, mail, hostUp>>

LinkNext ==
  \/ HostSignal \/ HostStops
  \/ \E r \in Rider :
       \/ StartPassenger(r) \/ FirstDialOpens(r) \/ FirstDialFails(r)
       \/ PcFails(r) \/ HeartbeatsMissed(r) \/ PassengerSignal(r)
       \/ Leave(r) \/ Crash(r) \/ HostNotices(r) \/ LoseLink(r)
       \/ \E p \in Places : LoopDials(r, p) \/ LoopStops(r, p)
                            \/ LoopOpens(r, p) \/ LoopFails(r, p)

LinkSpec == LinkInit /\ [][LinkNext]_linkVars

-----------------------------------------------------------------------------
(***************************************************************************)
(* Properties                                                               *)
(***************************************************************************)

\* Types; a dial the host or an answer names is one the passenger has made,
\* and an answer goes away with the connection it was applied to.
LinkTypeOK ==
  /\ app \in [Rider -> App]
  /\ \A r \in Rider : {first[r], session[r], app[r].answer} \subseteq 0 .. app[r].dials
  /\ \A r \in Rider : app[r].conn = 0 => app[r].answer = 0
  /\ loops \in [Rider -> [Places -> Dials \cup {BackingOff}]]
  /\ bound \in [Rider -> 0 .. MaxRides] /\ lost \subseteq Rider
  /\ losses \in 0 .. MaxLosses

\* A ride whose link is down is always about to be repaired: its first dial is
\* running, a loop is waiting or dialling, its peer connection has yet to
\* report the failure, or the heartbeats are watched (scheduleReconnect,
\* startHealthWatch and the connection's state handler leave no gap).
SomebodyRepairs ==
  \A r \in Rider :
    LET a == app[r] IN
    a.riding /\ a.role = "passenger" /\ ~a.stopping /\ ~Healthy(r) =>
      \/ first[r] # 0
      \/ \E p \in Places : LoopRuns(r, p)
      \/ a.conn # 0 /\ ~a.reconnecting
      \/ a.watch /\ ~a.reconnecting /\ a.state = "connected"

\* A bound passenger whose ride was up does not give up on it while the car
\* goes on: drops are recovered until the user leaves (docs/ARCHITECTURE.md,
\* data flow step 6).
RidersKeepTrying ==
  \A r \in Rider :
    app[r].riding /\ app[r].watch /\ r \in Bound /\ hostUp => ~app[r].stopping

\* The passenger's runtime closes a healthy link it shows as connected only
\* when the user leaves, a new ride starts, the app dies or the owner hangs up:
\* retries go on "until the user leaves the car" (trustedWebRtc.ts, before
\* scheduleReconnect) and those of an earlier ride do not touch the next one.
HealthyLinkIsKept ==
  [][\A r \in Rider :
       Healthy(r) /\ app[r].state = "connected" /\ app'[r].conn # app[r].conn =>
         \/ ~app'[r].riding
         \/ app'[r].rides # app[r].rides
         \/ app'[r].stopping]_linkVars

\* A rider without a connection has somebody who works on a new one.
LinkIsRepaired == SomebodyRepairs /\ RidersKeepTrying
=============================================================================
