------------------------------- MODULE Invites -------------------------------
(***************************************************************************)
(* The join codes of a host's cars at the coordinator (server.js), and the *)
(* host's side of them (commands.rs, coordinator.rs): start_car and        *)
(* resume_host_car register every seat's invite, a loop of the car renews  *)
(* them while the car is out, and nothing withdraws them: a car that is no *)
(* longer out is forgotten when its leases run out.                        *)
(*                                                                         *)
(* Time is relative: an invite has so many units left, a loop sleeps for   *)
(* so many more.  Clocks agree.  One host is modelled: another one's codes *)
(* differ, and its invites count for itself.                               *)
(***************************************************************************)
EXTENDS Naturals, FiniteSets, Sequences

CONSTANTS InviteCar,   \* the host's cars
          CodesOf,     \* the codes of each car, in the order of its seats
          Lease,       \* INVITE_LEASE_MS
          Interval,    \* INVITE_RENEW_INTERVAL_SECONDS
          Pass,        \* bound: how long registering a car's invites may take
          Misses,      \* how many renewals in a row may fail
          OwnerQuota,  \* MAX_INVITES_PER_OWNER
          Renewal,     \* bound: renewal loops at a time
          NoInvites    \* no car

SeatCodes(c) == {CodesOf[c][i] : i \in DOMAIN CodesOf[c]}
AllCodes == UNION {SeatCodes(c) : c \in InviteCar}

ASSUME InvitesAssumption ==
    /\ {Lease, Interval, Pass, Misses, OwnerQuota} \subseteq Nat
    /\ Interval > 0
    /\ (Misses + 1) * Interval + (Misses + 3) * Pass < Lease
    /\ NoInvites \notin InviteCar
    /\ \A c \in InviteCar : CodesOf[c] \in Seq(AllCodes)
    /\ \A c, d \in InviteCar : c # d => SeatCodes(c) \cap SeatCodes(d) = {}

VARIABLES lease,      \* time left of each code's invite, 0 if there is none
          outCar,     \* the car that is out
          begun,      \* cars that were started before
          timeUp,     \* cars whose own time is over
          starting,   \* the start or resumption under way
          renewal,    \* the renewal loops
          strain,     \* renewals of the car that is out that failed in a row
          shaken,     \* whether what follows is beyond what renewals make up for
          off         \* time since each car was out or being started

invitesVars == <<lease, outCar, begun, timeUp, starting, renewal, strain, shaken, off>>

\* A round of registrations: the seats left, and the time since its timestamp.
Round(pc, car) ==
    [pc |-> pc, car |-> car, left |-> IF pc = "registering" THEN CodesOf[car] ELSE <<>>,
     age |-> 0, wait |-> IF pc = "sleeping" THEN Interval ELSE 0, clean |-> TRUE]
NoRound == Round("none", NoInvites)
Sleeping(car) == Round("sleeping", car)

InvitesInit ==
    /\ lease = [code \in AllCodes |-> 0]
    /\ outCar = NoInvites /\ begun = {} /\ timeUp = {}
    /\ starting = NoRound
    /\ renewal = [l \in Renewal |-> NoRound]
    /\ strain = 0 /\ shaken = FALSE
    /\ off = [c \in InviteCar |-> Lease]

Sharing(c) == outCar = c /\ c \notin timeUp
Registers(r) == r.pc = "registering" /\ r.left # <<>>
SeatDone(r) == [r EXCEPT !.left = Tail(r.left)]

-----------------------------------------------------------------------------
\* What the coordinator holds, and whether it takes one more of this owner.
Registered == {code \in AllCodes : lease[code] > 0}
Takes(code) == code \in Registered \/ Cardinality(Registered) < OwnerQuota

\* Fault: every invite is stamped when its turn comes.
GrantedLate(r) == Lease

\* All the invites of a round are stamped when it begins.
Granted(r) == Lease - r.age

\* The next invite of round r is registered at the coordinator.
Accepted(r) ==
    /\ Takes(Head(r.left))
    /\ lease' = [lease EXCEPT ![Head(r.left)] = Granted(r)]

\* It fails: the owner has too many, or the network, a rate limit or a timeout
\* is in the way; when only the answer was lost it is there all the same.
Refused(r) == ~Takes(Head(r.left)) /\ UNCHANGED lease
Unreached(r) == Accepted(r) \/ UNCHANGED lease

-----------------------------------------------------------------------------
\* start_car, and resume_host_car when nothing is out.
BeginStart(c) ==
    /\ starting = NoRound
    /\ c \in begun => outCar = NoInvites
    /\ c \notin timeUp
    /\ starting' = Round("registering", c)
    /\ begun' = begun \cup {c}
    /\ off' = [off EXCEPT ![c] = 0]
    /\ UNCHANGED <<lease, outCar, timeUp, renewal, strain, shaken>>

StartRegisters ==
    /\ Registers(starting)
    /\ Accepted(starting)
    /\ starting' = SeatDone(starting)
    /\ UNCHANGED <<outCar, begun, timeUp, renewal, strain, shaken, off>>

\* It gives up at the first error, or when the history cannot be written; what
\* was registered stays.
StartFails ==
    /\ starting.pc = "registering"
    /\ IF starting.left = <<>> THEN UNCHANGED lease
       ELSE Refused(starting) \/ Unreached(starting)
    /\ starting' = NoRound
    /\ UNCHANGED <<outCar, begun, timeUp, renewal, strain, shaken, off>>

\* All seats are registered: the car is out and gets a loop of its own.
CarIsOut ==
    /\ starting.pc = "registering" /\ starting.left = <<>>
    /\ \E l \in Renewal :
         /\ renewal[l].pc = "none"
         /\ renewal' = [renewal EXCEPT ![l] = Sleeping(starting.car)]
    /\ outCar' = starting.car
    /\ strain' = 0
    /\ shaken' = ~starting.clean
    /\ starting' = NoRound
    /\ UNCHANGED <<lease, begun, timeUp, off>>

StopCar ==
    /\ outCar # NoInvites
    /\ outCar' = NoInvites
    /\ UNCHANGED <<lease, begun, timeUp, starting, renewal, strain, shaken, off>>

\* The end of the ride's own hours.
TimeIsUp ==
    /\ outCar \in InviteCar \ timeUp
    /\ timeUp' = timeUp \cup {outCar}
    /\ UNCHANGED <<lease, outCar, begun, starting, renewal, strain, shaken, off>>

-----------------------------------------------------------------------------
\* The loop wakes up and looks whether its car is still out.
LoopWakes(l) ==
    LET c == renewal[l].car IN
    /\ renewal[l].pc = "sleeping" /\ renewal[l].wait = 0
    /\ renewal' = [renewal EXCEPT ![l] =
                     IF Sharing(c) THEN Round("registering", c) ELSE NoRound]
    /\ UNCHANGED <<lease, outCar, begun, timeUp, starting, strain, shaken, off>>

LoopRegisters(l) ==
    /\ Registers(renewal[l])
    /\ Accepted(renewal[l])
    /\ renewal' = [renewal EXCEPT ![l] = SeatDone(renewal[l])]
    /\ UNCHANGED <<outCar, begun, timeUp, starting, strain, shaken, off>>

LoopDone(l) ==
    LET c == renewal[l].car IN
    /\ renewal[l].pc = "registering" /\ renewal[l].left = <<>>
    /\ renewal' = [renewal EXCEPT ![l] = Sleeping(c)]
    /\ IF outCar = c /\ renewal[l].clean
       THEN strain' = 0 /\ shaken' = FALSE ELSE UNCHANGED <<strain, shaken>>
    /\ UNCHANGED <<lease, outCar, begun, timeUp, starting, off>>

\* Fault: a renewal that fails is the last one.
AfterFailureNothing(c) == NoRound

\* A renewal that failed is tried again after the interval.
AfterFailure(c) == Sleeping(c)

\* At the first seat that fails the rest of the round is left out.
RenewalFails(l) ==
    LET c == renewal[l].car IN
    /\ Registers(renewal[l])
    /\ \/ /\ Refused(renewal[l])
          /\ UNCHANGED <<strain, shaken>>
       \/ /\ Unreached(renewal[l])
          /\ IF outCar # c THEN UNCHANGED <<strain, shaken>>
             ELSE /\ strain' = IF strain < Misses THEN strain + 1 ELSE strain
                  /\ shaken' = (shaken \/ strain = Misses)
    /\ renewal' = [renewal EXCEPT ![l] = AfterFailure(c)]
    /\ UNCHANGED <<outCar, begun, timeUp, starting, off>>

-----------------------------------------------------------------------------
\* Time passes.  No sleep takes longer than asked for, and no round of
\* registrations longer than Pass.
AgedRound(r) ==
    [r EXCEPT !.age = IF r.pc = "registering" THEN r.age + 1 ELSE r.age,
              !.wait = IF r.pc = "sleeping" THEN r.wait - 1 ELSE r.wait]
InTime(r) == (r.pc = "sleeping" => r.wait > 0) /\ (r.pc = "registering" => r.age < Pass)
Attended(c) == Sharing(c) \/ starting.car = c

InviteTick ==
    /\ InTime(starting) /\ \A l \in Renewal : InTime(renewal[l])
    /\ lease' = [code \in AllCodes |-> IF lease[code] > 0 THEN lease[code] - 1 ELSE 0]
    /\ starting' = AgedRound(starting)
    /\ renewal' = [l \in Renewal |-> AgedRound(renewal[l])]
    /\ off' = [c \in InviteCar |-> IF Attended(c) \/ off[c] = Lease
                                   THEN off[c] ELSE off[c] + 1]
    /\ UNCHANGED <<outCar, begun, timeUp, strain, shaken>>

\* The coordinator starts anew and knows nothing; what a round had registered is gone.
Shaken(r) == [r EXCEPT !.clean = r.pc # "registering"]

CoordinatorRestarts ==
    /\ lease' = [code \in AllCodes |-> 0]
    /\ shaken' = TRUE
    /\ starting' = Shaken(starting)
    /\ renewal' = [l \in Renewal |-> Shaken(renewal[l])]
    /\ UNCHANGED <<outCar, begun, timeUp, strain, off>>

\* The host's application ends.
HostDies ==
    /\ outCar' = NoInvites /\ starting' = NoRound
    /\ renewal' = [l \in Renewal |-> NoRound]
    /\ UNCHANGED <<lease, begun, timeUp, strain, shaken, off>>

InvitesNext ==
    \/ \E c \in InviteCar : BeginStart(c)
    \/ StartRegisters \/ StartFails \/ CarIsOut \/ StopCar \/ TimeIsUp
    \/ \E l \in Renewal : \/ LoopWakes(l) \/ LoopRegisters(l)
                          \/ LoopDone(l) \/ RenewalFails(l)
    \/ InviteTick \/ CoordinatorRestarts \/ HostDies

InvitesSpec == InvitesInit /\ [][InvitesNext]_invitesVars

-----------------------------------------------------------------------------
\* Types; no owner has more invites than the coordinator allows.
InvitesTypeOK ==
    /\ lease \in [AllCodes -> 0..Lease]
    /\ Cardinality(Registered) <= OwnerQuota
    /\ outCar \in begun \cup {NoInvites}
    /\ begun \subseteq InviteCar /\ timeUp \subseteq begun
    /\ strain \in 0..Misses /\ shaken \in BOOLEAN
    /\ off \in [InviteCar -> 0..Lease]

\* "A car remains available while the host computer and app stay online"
\* (docs/releases/v0.0.6-test.1.md): all its codes can be looked up, although
\* every now and then a renewal fails half-way, several loops renew, and other
\* cars of the host have left invites behind.
RunningCarIsFound ==
    \A c \in InviteCar : Sharing(c) /\ ~shaken =>
        \A code \in SeatCodes(c) : lease[code] > 0

\* "Shutdowns, exits, and network loss naturally take it offline" (the same
\* notes): the invites of a car that is stopped, died, or failed to start are
\* gone within one lease, also those a loop or a start was just registering.
AbandonedCarFades ==
    \A c \in InviteCar : ~Attended(c) =>
        \A code \in SeatCodes(c) : lease[code] + off[c] <= Lease

InvitesAreTrue == RunningCarIsFound /\ AbandonedCarFades
=============================================================================
