----------------------------- MODULE CarProofs -----------------------------
(***************************************************************************)
(* Proofs about CarHost for any devices, cars, seats, loops, requests and  *)
(* commands, then about CarRide: it is a host, so that what is shown of    *)
(* every host holds behind the mailboxes too.                              *)
(***************************************************************************)
EXTENDS CarRide, TLAPS

\* Clearing the session leaves typed, empty state.
LEMMA FreshSession ==
  ASSUME ClearSession
  PROVE  seats' \in [Code -> Seat] /\ bindings' = {} /\ signalling' = {}
BY DEF ClearSession, FreshSeats, FreshSeat, Seat, SeatState

\* The state machine is typed.
THEOREM TypeCorrect == Spec => []TypeOK
<1>1. Init => TypeOK
  BY DEF Init, TypeOK, FreshSeats, FreshSeat, Seat, SeatState, Window, Idle,
         NoTask
<1>2. TypeOK /\ [Next]_vars => TypeOK'
  <2> SUFFICES ASSUME TypeOK, [Next]_vars PROVE TypeOK'
    OBVIOUS
  <2> USE CarOfAssumption, NoneAssumption, NoBindingAssumption DEF TypeOK, session
  <2>1. ASSUME NEW l \in Loop, NEW m \in Claim, HandleClaim(l, m)
        PROVE  TypeOK'
    <3>1. ASSUME NEW b \in HeldBy(m), loop' = At(l, "sending", b),
                 UNCHANGED <<bindings, issued>>
          PROVE  TypeOK'
      <4>1. b \in Binding
        BY DEF HeldBy, BindingOn
      <4> QED
        BY <2>1, <3>1, <4>1 DEF HandleClaim, At
    <3>2. ASSUME NEW a \in FreshAccess,
                 bindings' = (bindings \ BindingOn(m.code)) \cup {BindSeat(m, a)},
                 issued' = issued \cup {a},
                 loop' = At(l, "sending", BindSeat(m, a))
          PROVE  TypeOK'
      <4>1. BindSeat(m, a) \in Binding
        BY DEF BindSeat, Binding, Claim, FreshAccess
      <4> QED
        BY <2>1, <3>2, <4>1 DEF HandleClaim, At, FreshAccess
    <3> QED
      BY <2>1, <3>1, <3>2 DEF HandleClaim
  <2>2. ASSUME NEW l \in Loop, GrantSent(l)
        PROVE  TypeOK'
    <3>1. loop[l].grant \in Binding /\ loop[l].grant.access \in Access
      BY <2>2 DEF GrantSent, Binding
    <3> QED
      BY <2>2, <3>1 DEF GrantSent, At
  <2>3. ASSUME NEW l \in Loop, SendFailed(l)
        PROVE  TypeOK'
    <3>1. loop[l].grant \in Binding /\ loop[l].grant.access \in Access
      BY <2>3 DEF SendFailed, Binding
    <3> QED
      BY <2>3, <3>1 DEF SendFailed, At
  <2>4. ASSUME NEW l \in Loop, MarkSeatJoining(l)
        PROVE  TypeOK'
    <3>1. /\ loop[l].grant \in Binding
          /\ loop[l].grant.code \in Code /\ loop[l].grant.peer \in Peer
      BY <2>4 DEF MarkSeatJoining, Binding
    <3>2. seats' \in [Code -> Seat]
      BY <2>4, <3>1 DEF MarkSeatJoining, JoiningSeat, Seat, SeatState
    <3> QED
      BY <2>4, <3>2 DEF MarkSeatJoining, At
  <2>5. ASSUME NEW l \in Loop, NEW p \in Peer, HandleSignal(l, p)
        PROVE  TypeOK'
    BY <2>5 DEF HandleSignal
  <2>6. ASSUME NEW l \in Loop, NEW n \in Notice, HandleLeave(l, n)
        PROVE  TypeOK'
    <3>1. FreshSeat \in Seat
      BY DEF FreshSeat, Seat, SeatState
    <3> QED
      BY <2>6, <3>1 DEF HandleLeave, DropSignals
  <2>7. ASSUME NEW l \in Loop, LoopExit(l)
        PROVE  TypeOK'
    BY <2>7 DEF LoopExit, Idle
  <2>8. ASSUME NEW p \in Peer, ConfirmLink(p)
        PROVE  TypeOK'
    <3>1. PICK b \in bindings :
            seats' = [seats EXCEPT ![b.code].state = "connected"]
      BY <2>8 DEF ConfirmLink
    <3>2. b.code \in Code
      BY DEF Binding
    <3>3. seats' \in [Code -> Seat]
      BY <3>1, <3>2 DEF Seat, SeatState
    <3> QED
      BY <2>8, <3>3 DEF ConfirmLink
  <2>9. ASSUME PollSignals
        PROVE  TypeOK'
    BY <2>9 DEF PollSignals
  <2>10. ASSUME NEW r \in Request, NEW b \in bindings, Admit(r, b)
         PROVE  TypeOK'
    BY <2>10 DEF Admit
  <2>11. ASSUME NEW r \in Request, FinishMetered(r)
         PROVE  TypeOK'
    <3>1. relay[r] \in Binding /\ relay[r].code \in Code
      BY <2>11 DEF FinishMetered, Binding
    <3>2. seats' \in [Code -> Seat]
      BY <2>11, <3>1 DEF FinishMetered, Seat, SeatState
    <3> QED
      BY <2>11, <3>2 DEF FinishMetered
  <2>12. ASSUME NEW r \in Request, FinishUnmetered(r)
         PROVE  TypeOK'
    BY <2>12 DEF FinishUnmetered
  <2>13. ASSUME NEW s \in Slot, NEW car \in CarId, StartCar(s, car)
         PROVE  TypeOK'
    BY <2>13 DEF StartCar
  <2>14. ASSUME NEW s \in Slot, NEW car \in CarId, ResumeHostCar(s, car)
         PROVE  TypeOK'
    BY <2>14 DEF ResumeHostCar
  <2>15. ASSUME NEW s \in Slot, CommandFailed(s)
         PROVE  TypeOK'
    <3>1. history' \subseteq CarId
      BY <2>15 DEF CommandFailed, OneRecordOpen
    <3> QED
      BY <2>15, <3>1 DEF CommandFailed, NoTask
  <2>16. ASSUME NEW s \in Slot, RecordStarted(s)
         PROVE  TypeOK'
    <3>1. task[s].car \in CarId
      BY <2>16 DEF RecordStarted
    <3>2. history' \subseteq CarId
      BY <2>16, <3>1 DEF RecordStarted, OneRecordOpen
    <3>3. task' \in [Slot -> [pc : {"none", "starting", "resuming", "recorded",
                                 "stopping"},
                            car : CarId \cup {None},
                            seen : SUBSET CarId]]
      BY <2>16 DEF RecordStarted
    <3>4. \A t \in Slot : task'[t].pc # "none" => task'[t].car # None
      BY <2>16 DEF RecordStarted
    <3>5. UNCHANGED <<activeCar, window, seats, bindings, signalling, relay,
                      loop, created, issued, sent>>
      BY <2>16 DEF RecordStarted
    <3> QED
      BY <3>2, <3>3, <3>4, <3>5
  <2>17. ASSUME NEW s \in Slot, RecordResumed(s)
         PROVE  TypeOK'
    <3>1. task[s].seen \subseteq CarId
      OBVIOUS
    <3>2. history' \subseteq CarId
      BY <2>17, <3>1 DEF RecordResumed
    <3>3. task' \in [Slot -> [pc : {"none", "starting", "resuming", "recorded",
                                 "stopping"},
                            car : CarId \cup {None},
                            seen : SUBSET CarId]]
      BY <2>17 DEF RecordResumed
    <3>4. \A t \in Slot : task'[t].pc # "none" => task'[t].car # None
      BY <2>17 DEF RecordResumed
    <3>5. UNCHANGED <<activeCar, window, seats, bindings, signalling, relay,
                      loop, created, issued, sent>>
      BY <2>17 DEF RecordResumed
    <3> QED
      BY <3>2, <3>3, <3>4, <3>5
  <2>18. ASSUME NEW s \in Slot, NEW l \in Loop, Activate(s, l)
         PROVE  TypeOK'
    BY <2>18, FreshSession DEF Activate, NoTask
  <2>19. ASSUME NEW s \in Slot, StopCar(s)
         PROVE  TypeOK'
    BY <2>19, FreshSession DEF StopCar
  <2>20. ASSUME NEW s \in Slot, RecordStopped(s)
         PROVE  TypeOK'
    BY <2>20 DEF RecordStopped, NoTask
  <2>21. ASSUME SuspendCar
         PROVE  TypeOK'
    BY <2>21, FreshSession DEF SuspendCar
  <2>22. ASSUME Crash
         PROVE  TypeOK'
    BY <2>22, FreshSession DEF Crash, Idle, NoTask
  <2>23. ASSUME NEW car \in CarId, TimePasses(car)
         PROVE  TypeOK'
    BY <2>23 DEF TimePasses, Window
  <2>24. CASE UNCHANGED vars
    BY <2>24 DEF vars
  <2> QED
    BY <2>1, <2>2, <2>3, <2>4, <2>5, <2>6, <2>7, <2>8, <2>9, <2>10, <2>11,
       <2>12, <2>13, <2>14, <2>15, <2>16, <2>17, <2>18, <2>19, <2>20, <2>21,
       <2>22, <2>23, <2>24 DEF Next, LoopStep, RelayStep, CommandStep,
       PrepareStep
<1> QED
  BY <1>1, <1>2, PTL DEF Spec
-----------------------------------------------------------------------------
(***************************************************************************)
(* What a step does to the bindings: nothing, one grant, one release, or   *)
(* the end of the session.                                                 *)
(***************************************************************************)
Keeps == UNCHANGED <<bindings, issued, activeCar>>

Grants ==
  \E m \in Claim, a \in Access \ issued :
    /\ BindingOn(m.code) = {}
    /\ activeCar = CarOf[m.code]
    /\ bindings' = bindings \cup {BindSeat(m, a)}
    /\ issued' = issued \cup {a}
    /\ UNCHANGED activeCar

ReleasesOne ==
  \E b \in bindings :
    /\ bindings' = bindings \ {b}
    /\ UNCHANGED <<issued, activeCar>>

Ends == bindings' = {} /\ UNCHANGED issued

\* Every step of the host is one of the four.
LEMMA LeaseStep ==
  ASSUME [Next]_vars
  PROVE  Keeps \/ Grants \/ ReleasesOne \/ Ends
<1> USE DEF session
<1>1. ASSUME NEW l \in Loop, LoopStep(l)
      PROVE  Keeps \/ Grants \/ ReleasesOne
  <2>1. ASSUME NEW m \in Claim, HandleClaim(l, m)
        PROVE  Keeps \/ Grants
    <3>1. CASE HeldBy(m) # {}
      BY <2>1, <3>1 DEF HandleClaim, Keeps
    <3>2. CASE HeldBy(m) = {}
      <4>1. BindingOn(m.code) = {} /\ activeCar = CarOf[m.code]
        BY <2>1, <3>2 DEF HandleClaim, Grantable, Open
      <4> QED
        BY <2>1, <3>2, <4>1 DEF HandleClaim, Grants, FreshAccess
    <3> QED
      BY <3>1, <3>2
  <2>2. ASSUME NEW n \in Notice, HandleLeave(l, n)
        PROVE  ReleasesOne
    BY <2>2 DEF HandleLeave, ReleasesOne
  <2>3. ASSUME \/ \E p \in Peer : HandleSignal(l, p)
               \/ GrantSent(l)
               \/ SendFailed(l)
               \/ MarkSeatJoining(l)
               \/ LoopExit(l)
        PROVE  Keeps
    BY <2>3 DEF HandleSignal, GrantSent, SendFailed, MarkSeatJoining, LoopExit,
                Keeps
  <2> QED
    BY <1>1, <2>1, <2>2, <2>3 DEF LoopStep
<1>2. ASSUME NEW r \in Request, RelayStep(r)
      PROVE  Keeps
  BY <1>2 DEF RelayStep, Admit, FinishMetered, FinishUnmetered, Keeps
<1>3. ASSUME NEW s \in Slot, CommandStep(s)
      PROVE  Keeps \/ Ends
  BY <1>3 DEF CommandStep, PrepareStep, StartCar, ResumeHostCar, CommandFailed,
              RecordStarted, RecordResumed, Activate, StopCar, RecordStopped,
              ClearSession, Keeps, Ends
<1>4. ASSUME \/ \E p \in Peer : ConfirmLink(p)
             \/ PollSignals
             \/ \E car \in CarId : TimePasses(car)
             \/ UNCHANGED vars
      PROVE  Keeps
  BY <1>4 DEF ConfirmLink, PollSignals, TimePasses, vars, Keeps
<1>5. ASSUME SuspendCar \/ Crash
      PROVE  Ends
  BY <1>5 DEF SuspendCar, Crash, ClearSession, Ends
<1> QED
  BY <1>1, <1>2, <1>3, <1>4, <1>5 DEF Next
-----------------------------------------------------------------------------
(***************************************************************************)
(* The inductive invariant: the bindings among themselves, and the seats   *)
(* and signals they justify.                                               *)
(***************************************************************************)
BindingsAreAMap ==
  \A b1, b2 \in bindings :
    b1.code = b2.code \/ b1.access = b2.access => b1 = b2

AccessIsIssued == \A b \in bindings : b.access \in issued

BindingInv == BindingsOfActiveCar /\ BindingsAreAMap /\ AccessIsIssued
SeatInv    == JoinedSeatIsBound /\ NicknameOfHolder /\ SignalsOfHolders
HostInv    == TypeOK /\ BindingInv /\ SeatInv

\* The bindings stay consistent through a grant, a release or an end.
LEMMA BindingInvStep ==
  ASSUME TypeOK, BindingInv, [Next]_vars
  PROVE  BindingInv'
<1> USE DEF BindingInv, BindingsOfActiveCar, BindingsAreAMap, AccessIsIssued
<1>1. CASE Keeps
  BY <1>1 DEF Keeps
<1>2. CASE Grants
  <2>1. PICK m \in Claim, a \in Access \ issued :
          /\ BindingOn(m.code) = {}
          /\ activeCar = CarOf[m.code]
          /\ bindings' = bindings \cup {BindSeat(m, a)}
          /\ issued' = issued \cup {a}
          /\ UNCHANGED activeCar
    BY <1>2 DEF Grants
  <2> DEFINE new == BindSeat(m, a)
  <2>2. new.code = m.code /\ new.access = a
    BY DEF BindSeat
  <2>3. \A b \in bindings : b.code # new.code /\ b.access # new.access
    BY <2>1, <2>2 DEF BindingOn
  <2>4. BindingsOfActiveCar'
    BY <2>1, <2>2
  <2>5. BindingsAreAMap'
    BY <2>1, <2>3
  <2>6. AccessIsIssued'
    BY <2>1, <2>2
  <2> QED
    BY <2>4, <2>5, <2>6
<1>3. CASE ReleasesOne
  BY <1>3 DEF ReleasesOne
<1>4. CASE Ends
  BY <1>4 DEF Ends
<1> QED
  BY <1>1, <1>2, <1>3, <1>4, LeaseStep

\* A step that leaves the seats alone and takes no binding away.
LEMMA SeatsKept ==
  ASSUME SeatInv, seats' = seats, signalling' \subseteq signalling,
         bindings \subseteq bindings'
  PROVE  SeatInv'
BY DEF SeatInv, JoinedSeatIsBound, NicknameOfHolder, SignalsOfHolders, Bound,
       BindingOn

\* A step that clears the session.
LEMMA SeatsCleared ==
  ASSUME ClearSession
  PROVE  SeatInv'
BY DEF ClearSession, SeatInv, JoinedSeatIsBound, NicknameOfHolder,
       SignalsOfHolders, FreshSeats, FreshSeat

\* Seats and signals stay justified by bindings.
LEMMA SeatInvStep ==
  ASSUME TypeOK, SeatInv, [Next]_vars
  PROVE  SeatInv'
<1> USE DEF session
<1> SUFFICES ASSUME Next PROVE SeatInv'
  BY SeatsKept DEF vars
<1>1. ASSUME NEW l \in Loop, NEW m \in Claim, HandleClaim(l, m)
      PROVE  SeatInv'
  <2>1. bindings \subseteq bindings'
    BY <1>1 DEF HandleClaim, Grantable
  <2> QED
    BY <1>1, <2>1, SeatsKept DEF HandleClaim
<1>2. ASSUME NEW l \in Loop, NEW n \in Notice, HandleLeave(l, n)
      PROVE  SeatInv'
  <2>1. PICK b \in bindings : Releases(n, b) /\ bindings' = bindings \ {b}
    BY <1>2 DEF HandleLeave
  <2>2. b.code = n.code /\ b.peer = n.peer
    BY <2>1 DEF Releases
  <2>3. seats' = [seats EXCEPT ![n.code] = FreshSeat] /\ n.code \in Code
    BY <1>2 DEF HandleLeave, Notice
  <2>4. \A c \in Code \ {n.code} :
          seats'[c] = seats[c] /\ BindingOn(c)' = BindingOn(c)
    BY <2>1, <2>2, <2>3 DEF TypeOK, BindingOn
  <2>5. seats'[n.code] = FreshSeat
    BY <2>3 DEF TypeOK
  <2>6. JoinedSeatIsBound'
    BY <2>4, <2>5 DEF SeatInv, JoinedSeatIsBound, FreshSeat
  <2>7. NicknameOfHolder'
    BY <2>4, <2>5 DEF SeatInv, NicknameOfHolder, FreshSeat
  <2>8. SignalsOfHolders'
    BY <1>2, <2>1, <2>2 DEF HandleLeave, DropSignals, SeatInv, SignalsOfHolders,
                              Bound
  <2> QED
    BY <2>6, <2>7, <2>8 DEF SeatInv
<1>3. ASSUME NEW l \in Loop, MarkSeatJoining(l)
      PROVE  SeatInv'
  <2> DEFINE g == loop[l].grant
  <2>1. g \in Binding /\ g.code \in Code /\ g.peer \in Peer
    BY <1>3 DEF MarkSeatJoining, TypeOK, Binding
  <2>2. UNCHANGED <<bindings, signalling>>
    BY <1>3 DEF MarkSeatJoining
  <2>3. CASE ~StillGranted(g)
    <3>1. seats' = seats
      BY <1>3, <2>3 DEF MarkSeatJoining
    <3> QED
      BY <2>2, <3>1, SeatsKept
  <2>4. CASE StillGranted(g)
    <3>1. \E b \in BindingOn(g.code) : b.peer = g.peer
      BY <2>4 DEF StillGranted
    <3>2. seats'[g.code] = [state |-> "joining", nickname |-> g.peer]
      BY <1>3, <2>1, <2>4 DEF MarkSeatJoining, JoiningSeat, TypeOK
    <3>3. \A c \in Code \ {g.code} : seats'[c] = seats[c]
      BY <1>3, <2>1, <2>4 DEF MarkSeatJoining, JoiningSeat, TypeOK
    <3> QED
      BY <2>2, <3>1, <3>2, <3>3
         DEF SeatInv, JoinedSeatIsBound, NicknameOfHolder, SignalsOfHolders,
             Bound, BindingOn
  <2> QED
    BY <2>3, <2>4
<1>4. ASSUME NEW l \in Loop, NEW p \in Peer, HandleSignal(l, p)
      PROVE  SeatInv'
  BY <1>4 DEF HandleSignal, SeatInv, JoinedSeatIsBound, NicknameOfHolder,
              SignalsOfHolders, Bound, BindingOn
<1>5. ASSUME NEW p \in Peer, ConfirmLink(p)
      PROVE  SeatInv'
  <2>1. PICK b \in bindings :
          seats' = [seats EXCEPT ![b.code].state = "connected"]
    BY <1>5 DEF ConfirmLink
  <2>2. UNCHANGED <<bindings, signalling>>
    BY <1>5 DEF ConfirmLink
  <2>3. \A c \in Code : /\ seats'[c].nickname = seats[c].nickname
                        /\ c # b.code => seats'[c].state = seats[c].state
    BY <2>1 DEF TypeOK, Seat
  <2>4. BindingOn(b.code) # {}
    BY DEF BindingOn
  <2> QED
    BY <2>2, <2>3, <2>4
       DEF SeatInv, JoinedSeatIsBound, NicknameOfHolder, SignalsOfHolders,
           Bound, BindingOn
<1>6. ASSUME NEW r \in Request, FinishMetered(r)
      PROVE  SeatInv'
  <2>1. UNCHANGED <<bindings, signalling>>
    BY <1>6 DEF FinishMetered
  <2>2. relay[r].code \in Code
    BY <1>6 DEF FinishMetered, TypeOK, Binding
  <2>3. \A c \in Code : /\ seats'[c].nickname = seats[c].nickname
                        /\ \/ seats'[c].state = "using"
                           \/ seats'[c].state = seats[c].state
    BY <1>6, <2>2 DEF FinishMetered, TypeOK, Seat
  <2> QED
    BY <2>1, <2>3
       DEF SeatInv, JoinedSeatIsBound, NicknameOfHolder, SignalsOfHolders,
           Bound, BindingOn
<1>7. ASSUME NEW s \in Slot, CommandStep(s)
      PROVE  SeatInv'
  BY <1>7, SeatsKept, SeatsCleared
     DEF CommandStep, PrepareStep, StartCar, ResumeHostCar, CommandFailed, RecordStarted,
         RecordResumed, Activate, StopCar, RecordStopped
<1>8. ASSUME SuspendCar \/ Crash
      PROVE  SeatInv'
  BY <1>8, SeatsCleared DEF SuspendCar, Crash
<1>9. ASSUME \/ \E l \in Loop : GrantSent(l) \/ SendFailed(l) \/ LoopExit(l)
             \/ \E r \in Request, b \in bindings : Admit(r, b)
             \/ \E r \in Request : FinishUnmetered(r)
             \/ PollSignals
             \/ \E car \in CarId : TimePasses(car)
      PROVE  SeatInv'
  BY <1>9, SeatsKept
     DEF GrantSent, SendFailed, LoopExit, Admit, FinishUnmetered, PollSignals,
         TimePasses
<1> QED
  BY <1>1, <1>2, <1>3, <1>4, <1>5, <1>6, <1>7, <1>8, <1>9
     DEF Next, LoopStep, RelayStep

\* HostInv is inductive.
LEMMA HostInvAlways == Spec => []HostInv
<1>1. Init => BindingInv /\ SeatInv
  BY DEF Init, BindingInv, BindingsOfActiveCar, BindingsAreAMap, AccessIsIssued,
         SeatInv, JoinedSeatIsBound, NicknameOfHolder, SignalsOfHolders,
         FreshSeats, FreshSeat
<1>2. TypeOK /\ BindingInv /\ SeatInv /\ [Next]_vars => BindingInv' /\ SeatInv'
  BY BindingInvStep, SeatInvStep
<1> QED
  BY <1>1, <1>2, TypeCorrect, PTL DEF Spec, HostInv

\* For any number of devices, cars, loops, requests and commands, every binding
\* is of the running car, and a seat and an access id each have one binding.
THEOREM BindingsConsistent ==
  Spec => [](BindingsOfActiveCar /\ BindingsAreAMap)
<1>1. HostInv => BindingsOfActiveCar /\ BindingsAreAMap
  BY DEF HostInv, BindingInv
<1> QED
  BY <1>1, HostInvAlways, PTL

\* ... and joined seats, nicknames and queued signals are those of devices that
\* hold a binding at this moment, whatever handler was cut by whatever command.
THEOREM SeatsJustified ==
  Spec => [](JoinedSeatIsBound /\ NicknameOfHolder /\ SignalsOfHolders)
<1>1. HostInv => JoinedSeatIsBound /\ NicknameOfHolder /\ SignalsOfHolders
  BY DEF HostInv, SeatInv
<1> QED
  BY <1>1, HostInvAlways, PTL

\* In particular a released seat keeps nothing of the device that held it.
THEOREM NothingLeftBehind == Spec => []NothingOfTheDeparted
<1>1. HostInv => NothingOfTheDeparted
  BY DEF HostInv, SeatInv, NothingOfTheDeparted
<1> QED
  BY <1>1, HostInvAlways, PTL

-----------------------------------------------------------------------------
(***************************************************************************)
(* Steps: leases change hands only through a release, access ids die once. *)
(***************************************************************************)

\* A bound seat is released before it is bound to anyone else.
THEOREM ReleasedFirst == Spec => SeatIsReleasedFirst
<1> DEFINE NoHandOver ==
             \A c \in Code : BindingOn(c) # {} /\ BindingOn(c)' # {} =>
                    BindingOn(c)' = BindingOn(c)
<1>1. HostInv /\ [Next]_vars => NoHandOver
  <2> SUFFICES ASSUME HostInv, [Next]_vars, NEW c \in Code,
                      BindingOn(c) # {}, BindingOn(c)' # {}
               PROVE  BindingOn(c)' = BindingOn(c)
    OBVIOUS
  <2>1. CASE Keeps
    BY <2>1 DEF Keeps, BindingOn
  <2>2. CASE Grants
    BY <2>2 DEF Grants, BindingOn, BindSeat
  <2>3. CASE ReleasesOne
    BY <2>3 DEF ReleasesOne, HostInv, BindingInv, BindingsAreAMap, BindingOn
  <2>4. CASE Ends
    BY <2>4 DEF Ends, BindingOn
  <2> QED
    BY <2>1, <2>2, <2>3, <2>4, LeaseStep
<1>2. HostInv /\ [Next]_vars => [NoHandOver]_vars
  BY <1>1
<1> QED
  BY <1>2, HostInvAlways, PTL DEF Spec, SeatIsReleasedFirst

-----------------------------------------------------------------------------
(***************************************************************************)
(* The host implements the lease of each seat.                             *)
(***************************************************************************)

\* The lease on each seat, as SeatLease sees it.
Holder == [c \in Code |->
             {[peer |-> b.peer, access |-> b.access] : b \in BindingOn(c)}]

\* Each step of the host is a grant, a release, an end of the session, or no
\* step at all of SeatLease.
THEOREM ImplementsLease == Spec => KeepsLeases
<1>1. Init => Lease!Init
  BY DEF Init, Lease!Init, BindingOn
<1>2. HostInv /\ [Next]_vars => [Lease!Next]_<<Holder, issued>>
  <2> SUFFICES ASSUME HostInv, [Next]_vars
               PROVE  Lease!Next \/ UNCHANGED <<Holder, issued>>
    BY DEF Holder
  <2>1. CASE Keeps
    <3>1. UNCHANGED <<Holder, issued>>
      BY <2>1 DEF Keeps, Holder, BindingOn
    <3> QED
      BY <3>1
  <2>2. CASE Grants
    <3>1. PICK m \in Claim, a \in Access \ issued :
            /\ BindingOn(m.code) = {}
            /\ bindings' = bindings \cup {BindSeat(m, a)}
            /\ issued' = issued \cup {a}
      BY <2>2 DEF Grants
    <3>2. m.code \in Code /\ m.peer \in Peer
      BY DEF Claim
    <3>3. \A c \in Code : BindingOn(c)' = IF c = m.code THEN {BindSeat(m, a)}
                                                        ELSE BindingOn(c)
      BY <3>1 DEF BindingOn, BindSeat
    <3>4. BindSeat(m, a).peer = m.peer /\ BindSeat(m, a).access = a
      BY DEF BindSeat
    <3>5. Holder' = [Holder EXCEPT ![m.code] = {[peer |-> m.peer, access |-> a]}]
      BY <3>2, <3>3, <3>4 DEF Holder
    <3>6. Holder[m.code] = {}
      BY <3>1, <3>2 DEF Holder
    <3>7. Lease!Grant(m.code, m.peer, a)
      BY <3>1, <3>2, <3>5, <3>6 DEF Lease!Grant, Holder
    <3> QED
      BY <3>2, <3>7 DEF Lease!Next
  <2>3. CASE ReleasesOne
    <3>1. PICK b \in bindings : /\ bindings' = bindings \ {b}
                                /\ UNCHANGED issued
      BY <2>3 DEF ReleasesOne
    <3>2. b.code \in Code
      BY DEF HostInv, TypeOK, Binding
    <3>3. \A c \in Code : BindingOn(c)' = IF c = b.code THEN {}
                                                        ELSE BindingOn(c)
      BY <3>1 DEF BindingOn, HostInv, BindingInv, BindingsAreAMap
    <3>4. Holder' = [Holder EXCEPT ![b.code] = {}]
      BY <3>2, <3>3 DEF Holder
    <3>5. Lease!Release(b.code)
      BY <3>1, <3>4 DEF Lease!Release, Holder
    <3> QED
      BY <3>2, <3>5 DEF Lease!Next
  <2>4. CASE Ends
    <3>1. Holder' = [c \in Code |-> {}]
      BY <2>4 DEF Ends, Holder, BindingOn
    <3>2. Lease!EndSession
      BY <2>4, <3>1 DEF Ends, Lease!EndSession, Holder
    <3> QED
      BY <3>2 DEF Lease!Next
  <2> QED
    BY <2>1, <2>2, <2>3, <2>4, LeaseStep
<1> QED
  BY <1>1, <1>2, HostInvAlways, PTL DEF Spec, KeepsLeases, Lease!Spec, Holder
-----------------------------------------------------------------------------
(***************************************************************************)
(* Recovery: one command at a time never leaves a driven car without a     *)
(* resumable record.                                                       *)
(***************************************************************************)

\* What each stage of the only command knows about the history.
CommandInv(s) ==
  /\ task[s].pc \in {"none", "starting", "resuming"} /\ activeCar # None =>
       activeCar \in history
  /\ task[s].pc = "resuming" =>
       task[s].car \in history /\ task[s].seen = history
  /\ task[s].pc = "recorded" => task[s].car \in history
  /\ task[s].pc = "stopping" => activeCar = None

\* Every step of a host with one command slot keeps CommandInv.
LEMMA CommandInvStep ==
  ASSUME NEW s, Slot = {s}, ~LateErrors, TypeOK, CommandInv(s), [Next]_vars
  PROVE  CommandInv(s)'
<1> USE DEF CommandInv
<1>1. ASSUME NEW car \in CarId, StartCar(s, car)
      PROVE  CommandInv(s)'
  BY <1>1 DEF StartCar, NoTask, TypeOK
<1>2. ASSUME NEW car \in CarId, ResumeHostCar(s, car)
      PROVE  CommandInv(s)'
  BY <1>2 DEF ResumeHostCar, Resumable, NoTask, TypeOK
<1>3. ASSUME CommandFailed(s)
      PROVE  CommandInv(s)'
  BY <1>3, ~LateErrors DEF CommandFailed, NoTask, TypeOK
<1>4. ASSUME RecordStarted(s)
      PROVE  CommandInv(s)'
  <2>1. task'[s].pc = "recorded" /\ task'[s].car = task[s].car
    BY <1>4 DEF RecordStarted, TypeOK
  <2>2. task[s].car \in history'
    BY <1>4 DEF RecordStarted, OneRecordOpen
  <2> QED
    BY <2>1, <2>2
<1>5. ASSUME RecordResumed(s)
      PROVE  CommandInv(s)'
  <2>1. task'[s].pc = "recorded" /\ task'[s].car = task[s].car
    BY <1>5 DEF RecordResumed, TypeOK
  <2>2. task[s].car \in history'
    BY <1>5 DEF RecordResumed
  <2> QED
    BY <2>1, <2>2
<1>6. ASSUME NEW l \in Loop, Activate(s, l)
      PROVE  CommandInv(s)'
  BY <1>6 DEF Activate, NoTask, TypeOK
<1>7. ASSUME StopCar(s)
      PROVE  CommandInv(s)'
  BY <1>7 DEF StopCar, TypeOK
<1>8. ASSUME RecordStopped(s)
      PROVE  CommandInv(s)'
  <2>1. activeCar' = None /\ task'[s].pc = "none"
    BY <1>8 DEF RecordStopped, NoTask, TypeOK
  <2> QED
    BY <2>1
<1>9. ASSUME SuspendCar \/ Crash
      PROVE  CommandInv(s)'
  BY <1>9 DEF SuspendCar, Crash, NoTask, TypeOK
<1>10. ASSUME \/ \E l \in Loop : LoopStep(l)
              \/ \E r \in Request : RelayStep(r)
              \/ \E p \in Peer : ConfirmLink(p)
              \/ PollSignals
              \/ \E car \in CarId : TimePasses(car)
              \/ UNCHANGED vars
       PROVE  CommandInv(s)'
  <2>1. UNCHANGED <<activeCar, task, history>>
    BY <1>10 DEF LoopStep, HandleClaim, HandleSignal, HandleLeave, GrantSent,
       SendFailed, MarkSeatJoining, LoopExit, RelayStep, Admit, FinishMetered,
       FinishUnmetered, ConfirmLink, PollSignals, TimePasses, vars
  <2> QED
    BY <2>1
<1> QED
  BY <1>1, <1>2, <1>3, <1>4, <1>5, <1>6, <1>7, <1>8, <1>9, <1>10
     DEF Next, CommandStep, PrepareStep

\* When host commands do not overlap, and no write of the history fails once it is
\* in place, a driven car, or the car about to replace it, has an open record at
\* every step: a crash anywhere leaves it resumable.
THEOREM SerialCommandsRecover ==
  ASSUME NEW s, Slot = {s}, ~LateErrors
  PROVE  Spec => []CrashIsRecoverable
<1>1. Init => CommandInv(s)
  BY DEF Init, CommandInv, NoTask
<1>2. TypeOK /\ CommandInv(s) /\ [Next]_vars => CommandInv(s)'
  BY CommandInvStep
<1>3. TypeOK /\ CommandInv(s) => CrashIsRecoverable
  BY DEF TypeOK, CommandInv, CrashIsRecoverable
<1> QED
  BY <1>1, <1>2, <1>3, TypeCorrect, PTL DEF Spec


-----------------------------------------------------------------------------
(***************************************************************************)
(* CarRide: the mailboxes and the passengers around the host.              *)
(***************************************************************************)

\* A step of the protocol is a step of the host or leaves it alone.
LEMMA HostStepOrNone ==
  ASSUME [RideNext]_rideVars
  PROVE  [Next]_vars
<1>1. ASSUME NEW p \in Peer, PassengerStep(p)
      PROVE  UNCHANGED vars
  BY <1>1 DEF PassengerStep, Join, SendClaim, Receive, JoinFails,
              PollRideSignals, SendLeave, ForgetRide, PassengerCrash
<1>2. ASSUME NEW l \in Loop, HostLoopStep(l)
      PROVE  [Next]_vars
  <2>1. ASSUME BeginPoll(l) \/ EndPoll(l) \/ Discard(l)
        PROVE  UNCHANGED vars
    BY <2>1 DEF BeginPoll, EndPoll, Discard
  <2>2. ASSUME TakeClaim(l) \/ TakeNotice(l) \/ DeliverGrant(l) \/ LoseGrant(l)
                 \/ ShowGrantee(l) \/ EndLoop(l)
        PROVE  LoopStep(l)
    BY <2>2 DEF TakeClaim, TakeNotice, DeliverGrant, LoseGrant, ShowGrantee,
                EndLoop, LoopStep
  <2> QED
    BY <1>2, <2>1, <2>2 DEF HostLoopStep, Next
<1>3. ASSUME NEW s \in Slot, Command(s) \/ \E l \in Loop : DriveOff(s, l)
      PROVE  CommandStep(s)
  BY <1>3 DEF Command, DriveOff, CommandStep
<1>4. ASSUME \/ \E p \in Peer : OpenLink(p)
             \/ Suspend
             \/ HostCrash
             \/ \E car \in CarId : Clock(car)
      PROVE  Next
  BY <1>4 DEF OpenLink, Suspend, HostCrash, Clock, Next
<1>5. ASSUME Expire \/ UNCHANGED rideVars
      PROVE  UNCHANGED vars
  BY <1>5 DEF Expire, rideVars
<1> QED
  BY <1>1, <1>2, <1>3, <1>4, <1>5 DEF RideNext, HostStep, Next

\* Whatever mailboxes and passengers do, the host behaves as CarHost.
LEMMA RideIsAHost == RideSpec => Spec
<1>1. RideInit => Init
  BY DEF RideInit
<1> QED
  BY <1>1, HostStepOrNone, PTL DEF RideSpec, Spec

\* Behind the mailboxes, too, a seat is leased to one device at a time.
THEOREM RideKeepsLeases == RideSpec => KeepsLeases
BY RideIsAHost, ImplementsLease
-----------------------------------------------------------------------------
(***************************************************************************)
(* Mailboxes as sequences.                                                 *)
(***************************************************************************)
Elems(q) == {q[i] : i \in 1..Len(q)}

\* Posting adds the message at most, and respects the cap.
LEMMA PostFacts ==
  ASSUME NEW S, NEW q \in Seq(S), NEW m \in S, Boxed(q)
  PROVE  /\ Post(q, m) \in Seq(S) /\ Boxed(Post(q, m))
         /\ Elems(Post(q, m)) \subseteq Elems(q) \cup {m}
BY BoundAssumption DEF Post, Boxed, Elems

\* Taking the first message off adds none.
LEMMA TailFacts ==
  ASSUME NEW S, NEW q \in Seq(S), q # <<>>
  PROVE  /\ Tail(q) \in Seq(S) /\ Head(q) \in Elems(q)
         /\ Boxed(q) => Boxed(Tail(q))
         /\ Elems(Tail(q)) \subseteq Elems(q)
<1>1. Len(q) \in Nat /\ Len(q) > 0
  OBVIOUS
<1>2. Head(q) \in Elems(q) /\ Elems(Tail(q)) \subseteq Elems(q)
  BY <1>1 DEF Elems
<1> QED
  BY <1>1, <1>2, BoundAssumption DEF Boxed

\* The empty mailbox.
LEMMA EmptyFacts ==
  ASSUME NEW S
  PROVE  <<>> \in Seq(S) /\ Boxed(<<>>) /\ Elems(<<>>) = {}
BY BoundAssumption DEF Boxed, Elems

\* A poll splits a mailbox in two.
LEMMA PollFacts ==
  ASSUME NEW S, NEW q \in Seq(S)
  PROVE  /\ Polled(q) \in Seq(S) /\ Elems(Polled(q)) \subseteq Elems(q)
         /\ Rest(q) \in Seq(S) /\ Elems(Rest(q)) \subseteq Elems(q)
         /\ Boxed(q) => Boxed(Rest(q))
<1>1. Len(q) \in Nat /\ PollLimit \in Nat \ {0} /\ BoxLimit \in Nat \ {0}
  BY BoundAssumption
<1>2. CASE Len(q) <= PollLimit
  <2>1. Polled(q) = q /\ Rest(q) = <<>>
    BY <1>2 DEF Polled, Rest
  <2> QED
    BY <1>1, <2>1, EmptyFacts
<1>3. CASE ~(Len(q) <= PollLimit)
  <2> DEFINE f == SubSeq(q, 1, PollLimit)
             b == SubSeq(q, PollLimit + 1, Len(q))
  <2>1. Polled(q) = f /\ Rest(q) = b
    BY <1>3 DEF Polled, Rest
  <2>2. /\ f \in Seq(S) /\ Len(f) = PollLimit
        /\ \A i \in 1..Len(f) : f[i] = q[i]
    BY <1>1, <1>3
  <2>3. /\ b \in Seq(S) /\ Len(b) = Len(q) - PollLimit
        /\ \A i \in 1..Len(b) : b[i] = q[PollLimit + i]
    BY <1>1, <1>3
  <2> HIDE DEF f, b
  <2>4. Elems(f) \subseteq Elems(q) /\ Elems(b) \subseteq Elems(q)
    <3>1. \A i \in 1..Len(f) : i \in 1..Len(q) /\ f[i] = q[i]
      BY <1>1, <1>3, <2>2
    <3>2. \A i \in 1..Len(b) : PollLimit + i \in 1..Len(q) /\ b[i] = q[PollLimit + i]
      BY <1>1, <1>3, <2>3
    <3> QED
      BY <3>1, <3>2 DEF Elems
  <2>5. Boxed(q) => Boxed(b)
    BY <1>1, <1>3, <2>3 DEF Boxed
  <2> QED
    BY <2>1, <2>2, <2>3, <2>4, <2>5
<1> QED
  BY <1>2, <1>3

\* A claim and a leave notice are different messages.
LEMMA ClaimIsNoNotice ==
  ASSUME NEW m \in Claim
  PROVE  m \notin Notice
<1>1. DOMAIN m = {"code", "claim", "peer"}
  BY DEF Claim
<1>2. ASSUME m \in Notice PROVE DOMAIN m = {"code", "peer", "access"}
  BY <1>2 DEF Notice
<1> QED
  BY <1>1, <1>2
-----------------------------------------------------------------------------
(***************************************************************************)
(* The protocol is typed.                                                  *)
(***************************************************************************)
MailOK ==
  /\ hostBox \in Seq(Claim \cup Notice) /\ Boxed(hostBox)
  /\ box \in [Peer -> Seq(Binding)] /\ \A p \in Peer : Boxed(box[p])
  /\ batch \in [Loop -> Seq(Claim \cup Notice)]

RestOK ==
  /\ polling \subseteq Loop
  /\ join \in [Peer -> Claim \cup {None}]
  /\ rides \in [Peer -> SUBSET Ride]
  /\ claimed \subseteq ClaimId
  /\ departed \subseteq ClaimId
  /\ drives \in 0..Drives

\* Every mailbox keeps its type and its cap, whatever the passengers post and
\* the host's loops take.
LEMMA MailTyped ==
  ASSUME TypeOK, MailOK, RestOK, [RideNext]_rideVars
  PROVE  MailOK'
<1> USE NoClaimAssumption DEF MailOK, RestOK, mail, hostLoop, passengers
<1>1. ASSUME NEW p \in Peer, PassengerStep(p)
      PROVE  MailOK'
  <2>1. ASSUME SendClaim(p) \/ JoinFails(p)
        PROVE  MailOK'
    <3>1. join[p] \in Claim
      BY <2>1 DEF SendClaim, JoinFails
    <3>2. Post(hostBox, join[p]) \in Seq(Claim \cup Notice)
          /\ Boxed(Post(hostBox, join[p]))
      BY <3>1, PostFacts
    <3>3. Rest(box[p]) \in Seq(Binding) /\ Boxed(Rest(box[p]))
      BY PollFacts
    <3> QED
      BY <2>1, <3>2, <3>3 DEF SendClaim, JoinFails
  <2>2. ASSUME Receive(p) \/ PollRideSignals(p)
        PROVE  MailOK'
    <3>1. Rest(box[p]) \in Seq(Binding) /\ Boxed(Rest(box[p]))
      BY PollFacts
    <3> QED
      BY <2>2, <3>1 DEF Receive, PollRideSignals
  <2>3. ASSUME NEW r \in rides[p], SendLeave(p, r)
        PROVE  MailOK'
    <3> DEFINE n == [code |-> r.code, peer |-> p, access |-> r.access]
    <3>1. r \in Ride /\ n \in Notice
      BY DEF Ride, Notice
    <3>2. Post(hostBox, n) \in Seq(Claim \cup Notice) /\ Boxed(Post(hostBox, n))
      BY <3>1, PostFacts
    <3>3. hostBox' \in {hostBox, Post(hostBox, n)} /\ UNCHANGED <<box, batch>>
      BY <2>3 DEF SendLeave
    <3> QED
      BY <3>2, <3>3
  <2>4. ASSUME \/ \E c \in Code : Join(p, c)
               \/ \E r \in rides[p] : ForgetRide(p, r)
               \/ PassengerCrash(p)
        PROVE  MailOK'
    BY <2>4 DEF Join, ForgetRide, PassengerCrash
  <2> QED
    BY <1>1, <2>1, <2>2, <2>3, <2>4 DEF PassengerStep
<1>2. ASSUME NEW l \in Loop, HostLoopStep(l)
      PROVE  MailOK'
  <2>1. ASSUME TakeClaim(l) \/ TakeNotice(l) \/ Discard(l)
        PROVE  MailOK'
    <3>1. batch[l] # <<>> /\ Drop(l) /\ UNCHANGED mail
      BY <2>1 DEF TakeClaim, TakeNotice, Discard, InHand
    <3>2. Tail(batch[l]) \in Seq(Claim \cup Notice)
      BY <3>1, TailFacts
    <3> QED
      BY <3>1, <3>2 DEF Drop
  <2>2. ASSUME EndPoll(l)
        PROVE  MailOK'
    <3>1. /\ Rest(hostBox) \in Seq(Claim \cup Notice) /\ Boxed(Rest(hostBox))
          /\ Polled(hostBox) \in Seq(Claim \cup Notice)
      BY PollFacts
    <3> QED
      BY <2>2, <3>1 DEF EndPoll
  <2>3. ASSUME DeliverGrant(l) \/ LoseGrant(l)
        PROVE  MailOK'
    <3>1. loop[l].grant \in Binding /\ loop[l].grant.peer \in Peer
      BY <2>3 DEF DeliverGrant, LoseGrant, GrantSent, SendFailed, TypeOK, Binding
    <3>2. /\ Post(box[loop[l].grant.peer], loop[l].grant) \in Seq(Binding)
          /\ Boxed(Post(box[loop[l].grant.peer], loop[l].grant))
      BY <3>1, PostFacts
    <3>3. box' = box \/ box' = Posted(l)
      BY <2>3 DEF DeliverGrant, LoseGrant
    <3>4. UNCHANGED <<hostBox, batch>>
      BY <2>3 DEF DeliverGrant, LoseGrant
    <3> QED
      BY <3>1, <3>2, <3>3, <3>4 DEF Posted
  <2>4. ASSUME BeginPoll(l) \/ ShowGrantee(l) \/ EndLoop(l)
        PROVE  MailOK'
    BY <2>4 DEF BeginPoll, ShowGrantee, EndLoop
  <2> QED
    BY <1>2, <2>1, <2>2, <2>3, <2>4 DEF HostLoopStep
<1>3. ASSUME Expire
      PROVE  MailOK'
  <2>1. CASE hostBox # <<>> /\ hostBox' = Tail(hostBox) /\ UNCHANGED box
    BY <1>3, <2>1, TailFacts DEF Expire
  <2>2. ASSUME NEW p \in Peer, box[p] # <<>>,
               box' = [box EXCEPT ![p] = Tail(@)], UNCHANGED hostBox
        PROVE  MailOK'
    <3>1. Tail(box[p]) \in Seq(Binding) /\ Boxed(Tail(box[p]))
      BY <2>2, TailFacts
    <3> QED
      BY <1>3, <2>2, <3>1 DEF Expire
  <2> QED
    BY <1>3, <2>1, <2>2 DEF Expire
<1>4. ASSUME HostCrash
      PROVE  MailOK'
  BY <1>4, EmptyFacts DEF HostCrash
<1>5. ASSUME \/ \E p \in Peer : OpenLink(p)
             \/ \E s \in Slot : Command(s) \/ \E l \in Loop : DriveOff(s, l)
             \/ Suspend
             \/ \E car \in CarId : Clock(car)
             \/ UNCHANGED rideVars
      PROVE  MailOK'
  BY <1>5 DEF OpenLink, Command, DriveOff, Suspend, Clock, rideVars
<1> QED
  BY <1>1, <1>2, <1>3, <1>4, <1>5 DEF RideNext, HostStep

\* A grant that answers p's claim is a binding made for p and for that claim.
LEMMA AnswerFacts ==
  ASSUME MailOK, NEW p \in Peer, NEW i \in Answers(p)
  PROVE  LET g == Polled(box[p])[i] IN
         /\ g \in Binding /\ g \in Elems(box[p])
         /\ g.peer = p /\ g.claim = join[p].claim
<1>1. Polled(box[p]) \in Seq(Binding) /\ Elems(Polled(box[p])) \subseteq Elems(box[p])
  BY PollFacts DEF MailOK
<1>2. i \in 1..Len(Polled(box[p]))
  BY DEF Answers
<1>3. Polled(box[p])[i] \in Elems(Polled(box[p]))
  BY <1>2 DEF Elems
<1> QED
  BY <1>1, <1>2, <1>3 DEF Answers

\* The ride a grant begins is a ride.
LEMMA RideOnTyped ==
  ASSUME NEW g, NEW leaving \in BOOLEAN,
         g.code \in Code, g.claim \in ClaimId, g.access \in Access
  PROVE  RideOn(g, leaving) \in Ride
BY DEF RideOn, Ride

\* A ride names a seat, a claim and an access id.
LEMMA RideFields ==
  ASSUME RestOK, NEW p \in Peer, NEW r \in rides[p]
  PROVE  r.code \in Code /\ r.claim \in ClaimId /\ r.access \in Access
<1>1. r \in Ride
  BY DEF RestOK
<1> QED
  BY <1>1 DEF Ride

\* So do the polls, the joins, the rides and the claims of the passengers.
LEMMA RestTyped ==
  ASSUME TypeOK, MailOK, RestOK, [RideNext]_rideVars
  PROVE  RestOK'
<1> USE NoClaimAssumption DEF RestOK, mail, hostLoop, passengers
<1>1. ASSUME NEW p \in Peer, PassengerStep(p)
      PROVE  RestOK'
  <2>1. ASSUME NEW c \in Code, Join(p, c)
        PROVE  RestOK'
    BY <2>1 DEF Join, Claim
  <2>2. ASSUME Receive(p)
        PROVE  RestOK'
    <3>2. join' \in [Peer -> Claim \cup {None}]
      BY <2>2 DEF Receive
    <3>3. rides' \in [Peer -> SUBSET Ride]
      <4>1. CASE Answers(p) = {} /\ UNCHANGED <<join, rides>>
        BY <4>1
      <4>2. ASSUME NEW i \in Answers(p),
                   rides' = [rides EXCEPT ![p] = @ \cup
                                {RideOn(Polled(box[p])[i], FALSE)}]
            PROVE  rides' \in [Peer -> SUBSET Ride]
        <5>1. RideOn(Polled(box[p])[i], FALSE) \in Ride
          BY AnswerFacts, RideOnTyped DEF Binding
        <5> QED
          BY <4>2, <5>1
      <4> QED
        BY <2>2, <4>1, <4>2 DEF Receive
    <3>4. UNCHANGED <<polling, claimed, departed, drives>>
      BY <2>2 DEF Receive
    <3> QED
      BY <3>2, <3>3, <3>4
  <2>3. ASSUME NEW r \in rides[p], SendLeave(p, r)
        PROVE  RestOK'
    <3>1. r.code \in Code /\ r.claim \in ClaimId /\ r.access \in Access
      BY RideFields
    <3>2. RideOn(r, TRUE) \in Ride
      BY <3>1, RideOnTyped
    <3> QED
      BY <2>3, <3>1, <3>2 DEF SendLeave
  <2>4. ASSUME \/ SendClaim(p)
               \/ JoinFails(p)
               \/ PollRideSignals(p)
               \/ \E r \in rides[p] : ForgetRide(p, r)
               \/ PassengerCrash(p)
        PROVE  RestOK'
    BY <2>4 DEF SendClaim, JoinFails, PollRideSignals, ForgetRide, PassengerCrash
  <2> QED
    BY <1>1, <2>1, <2>2, <2>3, <2>4 DEF PassengerStep
<1>2. ASSUME NEW l \in Loop, HostLoopStep(l)
      PROVE  RestOK'
  BY <1>2 DEF HostLoopStep, BeginPoll, EndPoll, TakeClaim, TakeNotice, Discard,
              DeliverGrant, LoseGrant, ShowGrantee, EndLoop
<1>3. ASSUME NEW s \in Slot, NEW l \in Loop, DriveOff(s, l)
      PROVE  RestOK'
  BY <1>3, BoundAssumption DEF DriveOff
<1>4. ASSUME \/ Expire
             \/ \E p \in Peer : OpenLink(p)
             \/ \E s \in Slot : Command(s)
             \/ Suspend
             \/ HostCrash
             \/ \E car \in CarId : Clock(car)
             \/ UNCHANGED rideVars
      PROVE  RestOK'
  BY <1>4 DEF Expire, OpenLink, Command, Suspend, HostCrash, Clock, rideVars
<1> QED
  BY <1>1, <1>2, <1>3, <1>4 DEF RideNext, HostStep
-----------------------------------------------------------------------------
(***************************************************************************)
(* Why a rider keeps its seat.  Every copy of a grant, wherever it is,     *)
(* carries the access id of one binding only; a notice in flight names an  *)
(* access id whose claim has departed; and the claim of a passenger that   *)
(* is joining or riding has not.                                           *)
(***************************************************************************)
InFlight ==
  (Elems(hostBox) \cup UNION {Elems(batch[l]) : l \in Loop}) \cap Notice

GrantOf(p, r) ==
  [code |-> r.code, claim |-> r.claim, peer |-> p, access |-> r.access]

\* The grants on the host, on their way, and with the passengers.
HeldByLoops   == {loop[l].grant : l \in {k \in Loop : loop[k].pc \in {"sending", "sent"}}}
InBoxes       == UNION {Elems(box[p]) : p \in Peer}
WithPassenger == UNION {{GrantOf(p, r) : r \in rides[p]} : p \in Peer}
Known == bindings \cup HeldByLoops \cup InBoxes \cup WithPassenger

GrantInv ==
  /\ \A g \in Known : g.access \in issued
  /\ \A g, h \in Known : g.access = h.access => g = h

ClaimInv ==
  /\ departed \subseteq claimed
  /\ \A p \in Peer : join[p] # None => join[p].claim \in claimed \ departed
  /\ \A p, q \in Peer : join[p] # None /\ join[q] # None
                          /\ join[p].claim = join[q].claim => p = q
  /\ \A p, q \in Peer : \A r \in rides[q] :
       join[p] # None => r.claim # join[p].claim
  /\ \A p \in Peer : \A r \in rides[p] :
       r.claim \in claimed /\ (r.leaving \/ r.claim \notin departed)
  /\ \A p, q \in Peer : \A r \in rides[p], s \in rides[q] :
       r.claim = s.claim => p = q /\ r = s

NoticeInv ==
  \A n \in InFlight :
    /\ n.access \in issued
    /\ \A g \in Known : g.access = n.access => g.claim \in departed

\* A step adds no grant to those known before, or one with a fresh access id.
KnownKept == Known' \subseteq Known /\ issued \subseteq issued'

KnownGrows ==
  \E m \in Claim, a \in Access \ issued :
    /\ Known' \subseteq Known \cup {BindSeat(m, a)}
    /\ BindSeat(m, a) \in bindings' /\ activeCar # None
    /\ issued' = issued \cup {a}

\* Known, part by part.
LEMMA KnownParts ==
  ASSUME NEW K,
         bindings' \subseteq K,
         \A l \in Loop : loop'[l].pc \in {"sending", "sent"} => loop'[l].grant \in K,
         \A p \in Peer : Elems(box'[p]) \subseteq K,
         \A p \in Peer : \A r \in rides'[p] : GrantOf(p, r) \in K
  PROVE  Known' \subseteq K
BY DEF Known, HeldByLoops, InBoxes, WithPassenger

\* Where the grants that are known can be: bound, with a loop, in a mailbox or with a
\* passenger.
LEMMA PartsOfKnown ==
  /\ bindings \subseteq Known
  /\ \A l \in Loop : loop[l].pc \in {"sending", "sent"} => loop[l].grant \in Known
  /\ \A p \in Peer : Elems(box[p]) \subseteq Known
  /\ \A p \in Peer : \A r \in rides[p] : GrantOf(p, r) \in Known
BY DEF Known, HeldByLoops, InBoxes, WithPassenger

\* No step makes a grant known except the host's binding of a seat.
LEMMA KnownStep ==
  ASSUME TypeOK, MailOK, RestOK, [RideNext]_rideVars
  PROVE  KnownKept \/ KnownGrows
<1> USE PartsOfKnown DEF mail, hostLoop, passengers, vars, session
<1>1. ASSUME NEW p \in Peer, PassengerStep(p)
      PROVE  KnownKept
  <2>1. UNCHANGED <<bindings, loop, issued>>
    BY <1>1 DEF PassengerStep, Join, SendClaim, Receive, JoinFails,
                PollRideSignals, SendLeave, ForgetRide, PassengerCrash
  <2>2. \A q \in Peer : Elems(box'[q]) \subseteq Known
    <3>1. box' = box \/ box' = [box EXCEPT ![p] = Rest(@)]
      BY <1>1 DEF PassengerStep, Join, SendClaim, Receive, JoinFails,
                PollRideSignals, SendLeave, ForgetRide, PassengerCrash
    <3>2. Elems(Rest(box[p])) \subseteq Elems(box[p])
      BY PollFacts DEF MailOK
    <3> QED
      BY <3>1, <3>2 DEF MailOK
  <2>3. \A q \in Peer : \A r \in rides'[q] : GrantOf(q, r) \in Known
    <3>1. CASE Receive(p)
      <4>1. ASSUME NEW i \in Answers(p),
                   rides' = [rides EXCEPT ![p] = @ \cup
                                {RideOn(Polled(box[p])[i], FALSE)}]
            PROVE  \A q \in Peer : \A r \in rides'[q] : GrantOf(q, r) \in Known
        <5>1. GrantOf(p, RideOn(Polled(box[p])[i], FALSE)) = Polled(box[p])[i]
          BY AnswerFacts DEF GrantOf, RideOn, Binding
        <5>2. GrantOf(p, RideOn(Polled(box[p])[i], FALSE)) \in Known
          BY <5>1, AnswerFacts
        <5> QED
          BY <4>1, <5>2 DEF RestOK
      <4> QED
        BY <3>1, <4>1 DEF Receive
    <3>2. ASSUME NEW r \in rides[p], SendLeave(p, r)
          PROVE  \A q \in Peer : \A s \in rides'[q] : GrantOf(q, s) \in Known
      <4>1. GrantOf(p, RideOn(r, TRUE)) = GrantOf(p, r)
        BY DEF GrantOf, RideOn
      <4> QED
        BY <3>2, <4>1 DEF SendLeave, RestOK
    <3>3. ASSUME \A q \in Peer : rides'[q] \subseteq rides[q]
          PROVE  \A q \in Peer : \A r \in rides'[q] : GrantOf(q, r) \in Known
      BY <3>3
    <3>4. ASSUME \/ \E c \in Code : Join(p, c)
                 \/ SendClaim(p) \/ JoinFails(p) \/ PollRideSignals(p)
                 \/ \E r \in rides[p] : ForgetRide(p, r)
                 \/ PassengerCrash(p)
          PROVE  \A q \in Peer : rides'[q] \subseteq rides[q]
      BY <3>4 DEF Join, SendClaim, JoinFails, PollRideSignals, ForgetRide,
                  PassengerCrash, RestOK
    <3> QED
      BY <1>1, <3>1, <3>2, <3>3, <3>4 DEF PassengerStep
  <2> QED
    BY <2>1, <2>2, <2>3, KnownParts DEF KnownKept
<1>2. ASSUME NEW l \in Loop, TakeClaim(l)
      PROVE  KnownKept \/ KnownGrows
  <2>1. PICK m \in Claim : HandleClaim(l, m)
    BY <1>2 DEF TakeClaim
  <2>2. UNCHANGED <<box, rides>>
    BY <1>2 DEF TakeClaim
  <2>3. ASSUME NEW b \in HeldBy(m), loop' = At(l, "sending", b),
               UNCHANGED <<bindings, issued>>
        PROVE  KnownKept
    <3>1. b \in bindings
      BY DEF HeldBy, BindingOn
    <3>2. \A k \in Loop : loop'[k].pc \in {"sending", "sent"} =>
            loop'[k].grant \in Known
      BY <2>3, <3>1 DEF At, TypeOK
    <3> QED
      BY <2>2, <2>3, <3>2, KnownParts DEF KnownKept
  <2>4. ASSUME NEW a \in FreshAccess,
               bindings' = (bindings \ BindingOn(m.code)) \cup {BindSeat(m, a)},
               issued' = issued \cup {a},
               loop' = At(l, "sending", BindSeat(m, a))
        PROVE  KnownGrows
    <3> DEFINE K == Known \cup {BindSeat(m, a)}
    <3>1. \A k \in Loop : loop'[k].pc \in {"sending", "sent"} =>
            loop'[k].grant \in K
      BY <2>4 DEF At, TypeOK
    <3>2. bindings' \subseteq K
      BY <2>4
    <3>3. Known' \subseteq K
      BY <2>2, <3>1, <3>2, KnownParts
    <3>4. BindSeat(m, a) \in bindings' /\ activeCar # None
      BY <2>1, <2>4, NoneAssumption DEF HandleClaim, Grantable, Open
    <3> QED
      BY <2>4, <3>3, <3>4 DEF KnownGrows, FreshAccess
  <2> QED
    BY <2>1, <2>3, <2>4 DEF HandleClaim
<1>3. ASSUME NEW l \in Loop, DeliverGrant(l) \/ LoseGrant(l)
      PROVE  KnownKept
  <2>1. /\ loop[l].grant \in Binding /\ loop[l].grant.peer \in Peer
        /\ loop[l].grant \in Known
    BY <1>3 DEF DeliverGrant, LoseGrant, GrantSent, SendFailed, TypeOK, Binding
  <2>2. UNCHANGED <<bindings, issued, rides>>
    BY <1>3 DEF DeliverGrant, LoseGrant, GrantSent, SendFailed
  <2>3. \A k \in Loop : loop'[k].pc \in {"sending", "sent"} =>
          loop'[k].grant \in Known
    BY <1>3, <2>1 DEF DeliverGrant, LoseGrant, GrantSent, SendFailed, At, TypeOK
  <2>4. Elems(Post(box[loop[l].grant.peer], loop[l].grant)) \subseteq Known
    BY <2>1, PostFacts DEF MailOK
  <2>5. box' = box \/ box' = Posted(l)
    BY <1>3 DEF DeliverGrant, LoseGrant
  <2>6. \A q \in Peer : Elems(box'[q]) \subseteq Known
    BY <2>1, <2>4, <2>5 DEF Posted, MailOK
  <2> QED
    BY <2>2, <2>3, <2>6, KnownParts DEF KnownKept
<1>4. ASSUME Expire
      PROVE  KnownKept
  <2>1. UNCHANGED <<bindings, issued, rides, loop>>
    BY <1>4 DEF Expire
  <2>2. \A q \in Peer : Elems(box'[q]) \subseteq Known
    <3>1. CASE UNCHANGED box
      BY <3>1
    <3>2. ASSUME NEW p \in Peer, box[p] # <<>>, box' = [box EXCEPT ![p] = Tail(@)]
          PROVE  \A q \in Peer : Elems(box'[q]) \subseteq Known
      <4>1. Elems(Tail(box[p])) \subseteq Elems(box[p])
        BY <3>2, TailFacts DEF MailOK
      <4> QED
        BY <3>2, <4>1 DEF MailOK
    <3> QED
      BY <1>4, <3>1, <3>2 DEF Expire
  <2> QED
    BY <2>1, <2>2, KnownParts DEF KnownKept
<1>5. ASSUME UNCHANGED <<issued, rides, box>>, bindings' \subseteq bindings,
             \A l \in Loop : loop'[l].pc \in {"sending", "sent"} =>
               loop'[l] = loop[l]
      PROVE  KnownKept
  BY <1>5, KnownParts DEF KnownKept
<1>6. ASSUME NEW l \in Loop,
             \/ BeginPoll(l) \/ EndPoll(l) \/ TakeNotice(l) \/ Discard(l)
             \/ ShowGrantee(l) \/ EndLoop(l)
      PROVE  KnownKept
  BY <1>5, <1>6 DEF BeginPoll, EndPoll, TakeNotice, HandleLeave, Discard,
     ShowGrantee, MarkSeatJoining, EndLoop, LoopExit, At, Idle, TypeOK
<1>7. ASSUME NEW s \in Slot, Command(s) \/ \E l \in Loop : DriveOff(s, l)
      PROVE  KnownKept
  BY <1>5, <1>7 DEF Command, DriveOff, PrepareStep, StartCar, ResumeHostCar,
     CommandFailed, RecordStarted, RecordResumed, Activate, StopCar,
     RecordStopped, ClearSession, TypeOK
<1>8. ASSUME \/ \E p \in Peer : OpenLink(p)
             \/ Suspend
             \/ HostCrash
             \/ \E car \in CarId : Clock(car)
             \/ UNCHANGED rideVars
      PROVE  KnownKept
  BY <1>5, <1>8 DEF OpenLink, ConfirmLink, Suspend, SuspendCar, HostCrash,
     Crash, Clock, TimePasses, ClearSession, Idle, TypeOK, rideVars
<1> QED
  BY <1>1, <1>2, <1>3, <1>4, <1>6, <1>7, <1>8
     DEF RideNext, HostStep, HostLoopStep

\* No access id comes to stand for two grants.
LEMMA GrantInvStep ==
  ASSUME GrantInv, KnownKept \/ KnownGrows
  PROVE  GrantInv'
<1>1. CASE KnownKept
  BY <1>1 DEF KnownKept, GrantInv
<1>2. CASE KnownGrows
  BY <1>2 DEF KnownGrows, GrantInv, BindSeat
<1> QED
  BY <1>1, <1>2
-----------------------------------------------------------------------------
\* The claim of a joining or riding passenger is its own and has not departed.
LEMMA ClaimInvStep ==
  ASSUME TypeOK, MailOK, RestOK, ClaimInv, [RideNext]_rideVars
  PROVE  ClaimInv'
<1> USE DEF ClaimInv, RestOK
<1>1. ASSUME NEW p \in Peer, NEW c \in Code, Join(p, c)
      PROVE  ClaimInv'
  <2>1. PICK k \in ClaimId \ claimed :
          /\ join' = [join EXCEPT ![p] = [code |-> c, claim |-> k, peer |-> p]]
          /\ claimed' = claimed \cup {k}
    BY <1>1 DEF Join
  <2>2. UNCHANGED <<rides, departed>>
    BY <1>1 DEF Join
  <2>3. join'[p].claim = k /\ \A q \in Peer \ {p} : join'[q] = join[q]
    BY <2>1
  <2> QED
    BY <2>1, <2>2, <2>3
<1>2. ASSUME NEW p \in Peer, Receive(p)
      PROVE  ClaimInv'
  <2>1. CASE Answers(p) = {} /\ UNCHANGED <<join, rides>>
    BY <1>2, <2>1 DEF Receive
  <2>2. ASSUME NEW i \in Answers(p),
               rides' = [rides EXCEPT ![p] = @ \cup
                                {RideOn(Polled(box[p])[i], FALSE)}],
               join' = [join EXCEPT ![p] = None]
        PROVE  ClaimInv'
    <3> DEFINE new == RideOn(Polled(box[p])[i], FALSE)
    <3>1. new.claim = join[p].claim /\ join[p] # None
      BY <1>2, AnswerFacts DEF Receive, RideOn
    <3>2. rides'[p] = rides[p] \cup {new} /\ join'[p] = None
      BY <2>2
    <3>3. \A q \in Peer \ {p} : rides'[q] = rides[q] /\ join'[q] = join[q]
      BY <2>2
    <3>4. UNCHANGED <<claimed, departed>>
      BY <1>2 DEF Receive
    <3> HIDE DEF new
    <3> QED
      BY <3>1, <3>2, <3>3, <3>4
  <2> QED
    BY <1>2, <2>1, <2>2 DEF Receive
<1>3. ASSUME NEW p \in Peer, NEW r \in rides[p], SendLeave(p, r)
      PROVE  ClaimInv'
  <2> DEFINE gone == RideOn(r, TRUE)
  <2>1. gone.claim = r.claim /\ gone.leaving
    BY DEF RideOn
  <2>2. rides'[p] = (rides[p] \ {r}) \cup {gone}
    BY <1>3 DEF SendLeave
  <2>3. \A q \in Peer \ {p} : rides'[q] = rides[q]
    BY <1>3 DEF SendLeave
  <2>4. departed' = departed \cup {r.claim} /\ UNCHANGED <<join, claimed>>
    BY <1>3 DEF SendLeave
  <2> HIDE DEF gone
  <2> QED
    BY <2>1, <2>2, <2>3, <2>4
<1>4. ASSUME UNCHANGED <<claimed, departed>>,
             \A q \in Peer : join'[q] \in {join[q], None}
                               /\ rides'[q] \subseteq rides[q]
      PROVE  ClaimInv'
  BY <1>4
<1>5. ASSUME NEW p \in Peer,
             \/ SendClaim(p) \/ JoinFails(p) \/ PollRideSignals(p)
             \/ \E r \in rides[p] : ForgetRide(p, r)
             \/ PassengerCrash(p)
      PROVE  ClaimInv'
  BY <1>4, <1>5 DEF SendClaim, JoinFails, PollRideSignals, ForgetRide,
                    PassengerCrash, passengers
<1>6. ASSUME \/ HostStep
             \/ Expire
             \/ \E car \in CarId : Clock(car)
             \/ UNCHANGED rideVars
      PROVE  ClaimInv'
  <2>1. UNCHANGED passengers
    BY <1>6 DEF HostStep, HostLoopStep, BeginPoll, EndPoll, TakeClaim,
       TakeNotice, Discard, DeliverGrant, LoseGrant, ShowGrantee, EndLoop,
       OpenLink, Command, DriveOff, Suspend, HostCrash, Expire, Clock, rideVars
  <2> QED
    BY <1>4, <2>1 DEF passengers
<1> QED
  BY <1>1, <1>2, <1>3, <1>5, <1>6 DEF RideNext, PassengerStep
-----------------------------------------------------------------------------

\* Notices in flight after a step are in the host's mailbox or in a loop's batch.
LEMMA FlightParts ==
  ASSUME NEW K,
         Elems(hostBox') \cap Notice \subseteq K,
         \A l \in Loop : Elems(batch'[l]) \cap Notice \subseteq K
  PROVE  InFlight' \subseteq K
BY DEF InFlight

\* And so are they before it.
LEMMA PartsOfFlight ==
  /\ Elems(hostBox) \cap Notice \subseteq InFlight
  /\ \A l \in Loop : Elems(batch[l]) \cap Notice \subseteq InFlight
BY DEF InFlight

\* Only leave_car puts a notice in flight.
LEMMA FlightStep ==
  ASSUME TypeOK, MailOK, RestOK, [RideNext]_rideVars,
         ~ \E p \in Peer : \E r \in rides[p] : SendLeave(p, r)
  PROVE  InFlight' \subseteq InFlight
<1> USE PartsOfFlight, NoClaimAssumption DEF mail, hostLoop
<1>1. ASSUME NEW p \in Peer, SendClaim(p) \/ JoinFails(p)
      PROVE  InFlight' \subseteq InFlight
  <2>1. join[p] \in Claim
    BY <1>1 DEF SendClaim, JoinFails, RestOK
  <2>2. Elems(Post(hostBox, join[p])) \cap Notice \subseteq InFlight
    BY <2>1, PostFacts, ClaimIsNoNotice DEF MailOK
  <2>3. hostBox' \in {hostBox, Post(hostBox, join[p])} /\ UNCHANGED batch
    BY <1>1 DEF SendClaim, JoinFails
  <2> QED
    BY <2>2, <2>3, FlightParts
<1>2. ASSUME NEW l \in Loop, TakeClaim(l) \/ TakeNotice(l) \/ Discard(l)
      PROVE  InFlight' \subseteq InFlight
  <2>1. batch[l] # <<>> /\ Drop(l) /\ UNCHANGED hostBox
    BY <1>2 DEF TakeClaim, TakeNotice, Discard, InHand
  <2>2. Elems(Tail(batch[l])) \subseteq Elems(batch[l])
    BY <2>1, TailFacts DEF MailOK
  <2>3. \A k \in Loop : Elems(batch'[k]) \cap Notice \subseteq InFlight
    BY <2>1, <2>2 DEF Drop, MailOK
  <2> QED
    BY <2>1, <2>3, FlightParts
<1>3. ASSUME NEW l \in Loop, EndPoll(l)
      PROVE  InFlight' \subseteq InFlight
  <2>1. /\ Elems(Rest(hostBox)) \subseteq Elems(hostBox)
        /\ Elems(Polled(hostBox)) \subseteq Elems(hostBox)
    BY PollFacts DEF MailOK
  <2>2. Elems(hostBox') \cap Notice \subseteq InFlight
    BY <1>3, <2>1 DEF EndPoll
  <2>3. \A k \in Loop : Elems(batch'[k]) \cap Notice \subseteq InFlight
    BY <1>3, <2>1 DEF EndPoll, MailOK
  <2> QED
    BY <2>2, <2>3, FlightParts
<1>4. ASSUME Expire
      PROVE  InFlight' \subseteq InFlight
  <2>1. Elems(hostBox') \cap Notice \subseteq InFlight
    BY <1>4, TailFacts DEF Expire, MailOK
  <2>2. UNCHANGED batch
    BY <1>4 DEF Expire
  <2> QED
    BY <2>1, <2>2, FlightParts
<1>5. ASSUME HostCrash
      PROVE  InFlight' \subseteq InFlight
  <2>1. \A k \in Loop : Elems(batch'[k]) \cap Notice \subseteq InFlight
    BY <1>5, EmptyFacts DEF HostCrash
  <2>2. UNCHANGED hostBox
    BY <1>5 DEF HostCrash
  <2> QED
    BY <2>1, <2>2, FlightParts
<1>6. ASSUME UNCHANGED <<hostBox, batch>>
      PROVE  InFlight' \subseteq InFlight
  BY <1>6, FlightParts
<1>7. ASSUME NEW p \in Peer,
             \/ \E c \in Code : Join(p, c)
             \/ Receive(p) \/ PollRideSignals(p)
             \/ \E r \in rides[p] : ForgetRide(p, r)
             \/ PassengerCrash(p)
      PROVE  InFlight' \subseteq InFlight
  BY <1>6, <1>7 DEF Join, Receive, PollRideSignals, ForgetRide, PassengerCrash
<1>8. ASSUME NEW l \in Loop,
             BeginPoll(l) \/ DeliverGrant(l) \/ LoseGrant(l)
             \/ ShowGrantee(l) \/ EndLoop(l)
      PROVE  InFlight' \subseteq InFlight
  BY <1>6, <1>8 DEF BeginPoll, DeliverGrant, LoseGrant, ShowGrantee, EndLoop
<1>9. ASSUME \/ \E p \in Peer : OpenLink(p)
             \/ \E s \in Slot : Command(s) \/ \E l \in Loop : DriveOff(s, l)
             \/ Suspend
             \/ \E car \in CarId : Clock(car)
             \/ UNCHANGED rideVars
      PROVE  InFlight' \subseteq InFlight
  BY <1>6, <1>9 DEF OpenLink, Command, DriveOff, Suspend, Clock, rideVars
<1> QED
  BY <1>1, <1>2, <1>3, <1>4, <1>5, <1>7, <1>8, <1>9
     DEF RideNext, PassengerStep, HostStep, HostLoopStep

\* A notice in flight releases no seat but that of a departed claim.
LEMMA NoticeInvStep ==
  ASSUME TypeOK, MailOK, RestOK, GrantInv, NoticeInv, [RideNext]_rideVars
  PROVE  NoticeInv'
<1>1. departed \subseteq departed'
  BY DEF RideNext, PassengerStep, Join, SendClaim, Receive, JoinFails,
     PollRideSignals, SendLeave, ForgetRide, PassengerCrash, HostStep,
     HostLoopStep, BeginPoll, EndPoll, TakeClaim, TakeNotice, Discard,
     DeliverGrant, LoseGrant, ShowGrantee, EndLoop, OpenLink, Command, DriveOff,
     Suspend, HostCrash, Expire, Clock, rideVars, passengers
<1>2. ASSUME NEW n \in InFlight
      PROVE  /\ n.access \in issued'
             /\ \A g \in Known' : g.access = n.access => g.claim \in departed'
  <2>1. CASE KnownKept
    BY <1>1, <2>1 DEF KnownKept, NoticeInv
  <2>2. CASE KnownGrows
    BY <1>1, <2>2 DEF KnownGrows, NoticeInv, BindSeat
  <2> QED
    BY <2>1, <2>2, KnownStep
<1>3. CASE ~ \E p \in Peer : \E r \in rides[p] : SendLeave(p, r)
  BY <1>2, <1>3, FlightStep DEF NoticeInv
<1>4. ASSUME NEW p \in Peer, NEW r \in rides[p], SendLeave(p, r)
      PROVE  NoticeInv'
  <2> DEFINE new == [code |-> r.code, peer |-> p, access |-> r.access]
  <2>1. new \in Notice
    BY RideFields DEF Notice
  <2>2. hostBox' \in {hostBox, Post(hostBox, new)} /\ UNCHANGED batch
    BY <1>4 DEF SendLeave, hostLoop
  <2>3. new.access = r.access
    OBVIOUS
  <2> HIDE DEF new
  <2>4. Elems(Post(hostBox, new)) \subseteq Elems(hostBox) \cup {new}
    <3>1. new \in Claim \cup Notice
      BY <2>1
    <3> QED
      BY <3>1, PostFacts DEF MailOK
  <2>5. InFlight' \subseteq InFlight \cup {new}
    BY <2>2, <2>4, PartsOfFlight, FlightParts
  <2>6. GrantOf(p, r) \in Known
    BY PartsOfKnown
  <2>7. GrantOf(p, r).access = r.access /\ GrantOf(p, r).claim = r.claim
    BY DEF GrantOf
  <2>8. new.access \in issued'
    BY <1>4, <2>3, <2>6, <2>7 DEF SendLeave, GrantInv, vars
  <2>9. Known' \subseteq Known
    <3>1. UNCHANGED issued
      BY <1>4 DEF SendLeave, vars
    <3> QED
      BY <3>1, KnownStep DEF KnownKept, KnownGrows
  <2>10. ASSUME NEW g \in Known', g.access = new.access
        PROVE  g.claim \in departed'
    <3>1. g = GrantOf(p, r)
      BY <2>3, <2>6, <2>7, <2>9, <2>10 DEF GrantInv
    <3> QED
      BY <1>4, <2>7, <3>1 DEF SendLeave
  <2> QED
    BY <1>2, <2>5, <2>8, <2>10 DEF NoticeInv
<1> QED
  BY <1>3, <1>4
-----------------------------------------------------------------------------
RideInv == MailOK /\ RestOK /\ GrantInv /\ ClaimInv /\ NoticeInv

\* The host behind the mailboxes is typed as any host is.
LEMMA RideTypeCorrect == RideSpec => []TypeOK
BY RideIsAHost, TypeCorrect

\* The inductive invariant of the protocol holds of every behaviour.
LEMMA RideInvAlways == RideSpec => []RideInv
<1>1. RideInit => RideInv
  <2> SUFFICES ASSUME RideInit PROVE RideInv
    OBVIOUS
  <2>1. MailOK /\ RestOK /\ ClaimInv
    BY EmptyFacts, BoundAssumption DEF RideInit, MailOK, RestOK, ClaimInv
  <2>2. Known = {}
    BY EmptyFacts DEF RideInit, Init, Idle, Known, HeldByLoops, InBoxes,
                       WithPassenger
  <2>3. InFlight = {}
    BY EmptyFacts DEF RideInit, InFlight
  <2> QED
    BY <2>1, <2>2, <2>3 DEF RideInv, GrantInv, NoticeInv
<1>2. TypeOK /\ RideInv /\ [RideNext]_rideVars => RideInv'
  BY MailTyped, RestTyped, KnownStep, GrantInvStep, ClaimInvStep, NoticeInvStep
     DEF RideInv
<1> QED
  BY <1>1, <1>2, RideTypeCorrect, PTL DEF RideSpec

\* The mailboxes, claims and rides are typed, and no mailbox outgrows its cap.
THEOREM RideTyped == RideSpec => []RideTypeOK
<1>1. RideInv => RideTypeOK
  BY DEF RideInv, MailOK, RestOK, ClaimInv, RideTypeOK
<1> QED
  BY <1>1, RideInvAlways, PTL

\* Nobody but its passenger and the host's session ends a ride.
THEOREM RidersKeepSeats == RideSpec => RiderKeepsSeat
<1> DEFINE Safe == \A b \in bindings :
                     Rides(b) /\ b \notin bindings' => SessionEnds
<1>1. TypeOK /\ RideInv /\ [RideNext]_rideVars => Safe
  <2> SUFFICES ASSUME TypeOK, RideInv, [RideNext]_rideVars,
                      NEW b \in bindings, Rides(b), b \notin bindings'
               PROVE  SessionEnds
    OBVIOUS
  <2>1. ASSUME NEW l \in Loop, TakeNotice(l)
        PROVE  FALSE
    <3>1. PICK n \in Notice : InHand(l, n) /\ HandleLeave(l, n)
      BY <2>1 DEF TakeNotice
    <3>2. n \in InFlight
      BY <3>1, TailFacts, PartsOfFlight DEF InHand, RideInv, MailOK
    <3>3. b.access = n.access
      BY <3>1 DEF HandleLeave, Releases
    <3>4. PICK r \in rides[b.peer] : r.access = b.access /\ ~r.leaving
      BY DEF Rides
    <3>5. b.peer \in Peer
      BY DEF TypeOK, Binding
    <3>6. GrantOf(b.peer, r) \in Known
      BY <3>5, PartsOfKnown
    <3>7. r.claim \in departed
      BY <3>2, <3>3, <3>4, <3>6 DEF RideInv, NoticeInv, GrantOf
    <3> QED
      BY <3>4, <3>5, <3>7 DEF RideInv, ClaimInv
  <2>2. ASSUME NEW l \in Loop, TakeClaim(l)
        PROVE  FALSE
    BY <2>2 DEF TakeClaim, HandleClaim, Grantable
  <2>3. ASSUME NEW s \in Slot, NEW l \in Loop, DriveOff(s, l)
        PROVE  SessionEnds
    BY <2>3 DEF DriveOff, SessionEnds, RideInv, RestOK
  <2>4. ASSUME bindings' # bindings, \E s \in Slot : Command(s)
        PROVE  SessionEnds
    BY <2>4 DEF Command, PrepareStep, StartCar, ResumeHostCar, CommandFailed,
       RecordStarted, RecordResumed, StopCar, RecordStopped, SessionEnds, session
  <2>5. ASSUME Suspend \/ HostCrash
        PROVE  SessionEnds
    BY <2>5 DEF Suspend, SuspendCar, HostCrash, Crash, SessionEnds
  <2>6. ASSUME NEW l \in Loop,
               BeginPoll(l) \/ EndPoll(l) \/ Discard(l) \/ DeliverGrant(l)
               \/ LoseGrant(l) \/ ShowGrantee(l) \/ EndLoop(l)
        PROVE  UNCHANGED bindings
    BY <2>6 DEF BeginPoll, EndPoll, Discard, DeliverGrant, GrantSent, LoseGrant,
       SendFailed, ShowGrantee, MarkSeatJoining, EndLoop, LoopExit, vars, session
  <2>7. ASSUME NEW p \in Peer, PassengerStep(p) \/ OpenLink(p)
        PROVE  UNCHANGED bindings
    BY <2>7 DEF PassengerStep, Join, SendClaim, Receive, JoinFails,
       PollRideSignals, SendLeave, ForgetRide, PassengerCrash, OpenLink,
       ConfirmLink, vars, session
  <2>8. ASSUME Expire \/ (\E car \in CarId : Clock(car)) \/ UNCHANGED rideVars
        PROVE  UNCHANGED bindings
    BY <2>8 DEF Expire, Clock, TimePasses, rideVars, vars, session
  <2> QED
    BY <2>1, <2>2, <2>3, <2>4, <2>5, <2>6, <2>7, <2>8
       DEF RideNext, HostStep, HostLoopStep
<1>2. TypeOK /\ RideInv /\ [RideNext]_rideVars => [Safe]_rideVars
  BY <1>1
<1> QED
  BY <1>2, RideTypeCorrect, RideInvAlways, PTL DEF RideSpec, RiderKeepsSeat
-----------------------------------------------------------------------------
(***************************************************************************)
(* Why a claim that has departed stays out, as long as the host drives     *)
(* once.  The copies of a claim are posted while its passenger joins, its  *)
(* notice when it leaves: in the order of the one loop that ever polls,    *)
(* every copy is handled before the notice releases the binding it repeats. *)
(***************************************************************************)
Frees(n, b)   == n \in Notice /\ n.access = b.access
Repeats(m, k) == m \in Claim /\ m.claim = k

\* No copy of the claim of b stands behind a notice that releases b.
Ordered(q, b) ==
  \A i, j \in 1..Len(q) : i < j /\ Frees(q[i], b) => ~Repeats(q[j], b.claim)

\* Not even across the mailbox and what was polled of it.
InOrder(b) ==
  /\ Ordered(hostBox, b)
  /\ \A l \in Loop :
       /\ Ordered(batch[l], b)
       /\ \A n \in Elems(batch[l]), m \in Elems(hostBox) :
            Frees(n, b) => ~Repeats(m, b.claim)

\* No copy of claim k is left to be handled.
Gone(k) ==
  /\ \A m \in Elems(hostBox) : ~Repeats(m, k)
  /\ \A l \in Loop : \A m \in Elems(batch[l]) : ~Repeats(m, k)

Runs(l) == loop[l].pc # "off"

LoopsRest ==
  \A l \in Loop : /\ ~Runs(l) \/ l \in polling => batch[l] = <<>>
                  /\ ~Runs(l) => l \notin polling

BeforeDrive ==
  drives = 0 => /\ activeCar = None /\ Known = {} /\ departed = {}
                /\ \A l \in Loop : ~Runs(l)

OneLoop ==
  drives <= 1 => \A l, m \in Loop : Runs(l) /\ Runs(m) => l = m

\* A grant that has not departed is that of a binding, while the session lasts.
GrantsHold ==
  drives <= 1 /\ activeCar # None =>
    \A g \in Known : g.claim \in departed \/ g \in bindings

CopiesFirst == \A b \in bindings : InOrder(b)

NoCopies ==
  drives <= 1 /\ activeCar # None =>
    \A k \in departed : BoundBy(k) \/ Gone(k)

OrderInv ==
  LoopsRest /\ BeforeDrive /\ OneLoop /\ GrantsHold /\ CopiesFirst /\ NoCopies

\* A message that is posted stands behind the ones that are there.
LEMMA OrderedPost ==
  ASSUME NEW S, NEW q \in Seq(S), NEW m \in S, NEW b, Boxed(q), Ordered(q, b),
         ~Repeats(m, b.claim) \/ \A n \in Elems(q) : ~Frees(n, b)
  PROVE  Ordered(Post(q, m), b)
<1> DEFINE r == Post(q, m)
<1>1. PICK d \in 0..1 :
        /\ Len(r) = Len(q) + 1 - d /\ Len(r) \in Nat \ {0} /\ r[Len(r)] = m
        /\ \A i \in 1..Len(r) - 1 : i + d \in 1..Len(q) /\ r[i] = q[i + d]
  <2>1. CASE Len(q) = BoxLimit
    <3>1. r = Append(Tail(q), m) /\ Len(q) \in Nat \ {0}
      BY <2>1, BoundAssumption DEF Post
    <3> QED
      BY <3>1
  <2>2. CASE Len(q) # BoxLimit
    BY <2>2 DEF Post
  <2> QED
    BY <2>1, <2>2
<1>2. Len(q) \in Nat
  OBVIOUS
<1> HIDE DEF r
<1>3. ASSUME NEW i \in 1..Len(r), NEW j \in 1..Len(r), i < j, Frees(r[i], b),
             Repeats(r[j], b.claim)
      PROVE  FALSE
  <2>0. i \in 1..Len(r) - 1
    BY <1>1, <1>3
  <2>1. i \in 1..Len(r) - 1 /\ i + d \in 1..Len(q) /\ r[i] = q[i + d]
    BY <1>1, <2>0
  <2>2. CASE j = Len(r)
    BY <1>1, <1>3, <2>1, <2>2 DEF Elems
  <2>3. CASE j # Len(r)
    <3>1. j + d \in 1..Len(q) /\ r[j] = q[j + d] /\ i + d < j + d
      BY <1>1, <1>3, <2>3
    <3> QED
      BY <1>3, <2>1, <3>1 DEF Ordered
  <2> QED
    BY <2>2, <2>3
<1> QED
  BY <1>3 DEF Ordered, r

\* A queue without its head keeps its order, and what the head releases is not
\* repeated behind it.
LEMMA OrderedTail ==
  ASSUME NEW S, NEW q \in Seq(S), q # <<>>, NEW b, Ordered(q, b)
  PROVE  /\ Ordered(Tail(q), b)
         /\ Frees(Head(q), b) => \A m \in Elems(Tail(q)) : ~Repeats(m, b.claim)
<1>1. /\ Len(q) \in Nat \ {0} /\ Len(Tail(q)) = Len(q) - 1 /\ Head(q) = q[1]
      /\ \A i \in 1..Len(q) - 1 : Tail(q)[i] = q[i + 1]
  OBVIOUS
<1> QED
  BY <1>1 DEF Ordered, Elems

\* What a poll takes and what it leaves are in order, and in order to each other.
LEMMA OrderedPoll ==
  ASSUME NEW S, NEW q \in Seq(S), NEW b, Ordered(q, b)
  PROVE  /\ Ordered(Polled(q), b) /\ Ordered(Rest(q), b)
         /\ \A n \in Elems(Polled(q)), m \in Elems(Rest(q)) :
              Frees(n, b) => ~Repeats(m, b.claim)
<1>1. Len(q) \in Nat /\ PollLimit \in Nat \ {0}
  BY BoundAssumption
<1>2. CASE Len(q) <= PollLimit
  <2>1. Polled(q) = q /\ Rest(q) = <<>>
    BY <1>2 DEF Polled, Rest
  <2> QED
    BY <2>1, EmptyFacts DEF Ordered
<1>3. CASE ~(Len(q) <= PollLimit)
  <2> DEFINE f == SubSeq(q, 1, PollLimit)
             t == SubSeq(q, PollLimit + 1, Len(q))
  <2>1. Polled(q) = f /\ Rest(q) = t
    BY <1>3 DEF Polled, Rest
  <2>2. PollLimit \in 1..Len(q) /\ PollLimit < Len(q)
    BY <1>1, <1>3
  <2>3. /\ Len(f) = PollLimit /\ \A i \in 1..Len(f) : f[i] = q[i]
    BY <2>2
  <2>4. /\ Len(t) = Len(q) - PollLimit
        /\ \A i \in 1..Len(t) : t[i] = q[PollLimit + i]
    BY <1>1, <2>2
  <2> HIDE DEF f, t
  <2>5. 1..Len(f) \subseteq 1..Len(q)
    BY <1>1, <2>2, <2>3
  <2>6. Ordered(f, b)
    <3>1. \A i \in 1..Len(f) : i \in 1..Len(q) /\ f[i] = q[i]
      BY <2>3, <2>5
    <3> QED
      BY <3>1 DEF Ordered
  <2>7. Ordered(t, b)
    <3>1. \A i \in 1..Len(t) : PollLimit + i \in 1..Len(q) /\ t[i] = q[PollLimit + i]
      BY <1>1, <2>2, <2>4
    <3>2. \A i, j \in 1..Len(t) : i < j => PollLimit + i < PollLimit + j
      BY <1>1, <2>4
    <3> QED
      BY <3>1, <3>2 DEF Ordered
  <2>8. ASSUME NEW i \in 1..Len(f), NEW j \in 1..Len(t), Frees(f[i], b)
        PROVE  ~Repeats(t[j], b.claim)
    <3>1. /\ i \in 1..Len(q) /\ PollLimit + j \in 1..Len(q) /\ i < PollLimit + j
          /\ f[i] = q[i] /\ t[j] = q[PollLimit + j]
      BY <1>1, <2>2, <2>3, <2>4, <2>5
    <3> QED
      BY <2>8, <3>1 DEF Ordered
  <2> QED
    BY <2>1, <2>6, <2>7, <2>8 DEF Elems
<1> QED
  BY <1>2, <1>3

\* What a step does to the queues of the host.
Posts(m)     == hostBox' = Post(hostBox, m) /\ UNCHANGED batch
Hands(l)     == batch[l] # <<>> /\ Drop(l) /\ UNCHANGED hostBox
TakesPoll(l) == /\ l \in polling /\ batch' = [batch EXCEPT ![l] = Polled(hostBox)]
                /\ hostBox' = Rest(hostBox)
LosesSome    == /\ UNCHANGED batch
                /\ \/ hostBox' = Rest(hostBox)
                   \/ hostBox # <<>> /\ hostBox' = Tail(hostBox)

\* What a step does to the host's queue of messages: nothing, a claim or a notice is
\* posted, or a loop takes from it.
LEMMA QueueStep ==
  ASSUME RestOK, [RideNext]_rideVars
  PROVE  \/ UNCHANGED <<hostBox, batch>>
         \/ \E p \in Peer : join[p] # None /\ join[p] \in Claim /\ Posts(join[p])
         \/ \E p \in Peer : \E r \in rides[p] :
              SendLeave(p, r)
              /\ Posts([code |-> r.code, peer |-> p, access |-> r.access])
         \/ \E l \in Loop : Hands(l) \/ TakesPoll(l)
         \/ LosesSome
         \/ hostBox' = hostBox /\ batch' = [l \in Loop |-> <<>>]
<1> USE DEF mail, hostLoop, passengers
<1>1. ASSUME NEW p \in Peer, SendClaim(p) \/ JoinFails(p)
      PROVE  \/ UNCHANGED <<hostBox, batch>>
             \/ join[p] # None /\ join[p] \in Claim /\ Posts(join[p])
  BY <1>1 DEF SendClaim, JoinFails, Posts, RestOK
<1>2. ASSUME NEW p \in Peer, NEW r \in rides[p], SendLeave(p, r)
      PROVE  \/ UNCHANGED <<hostBox, batch>>
             \/ Posts([code |-> r.code, peer |-> p, access |-> r.access])
  BY <1>2 DEF SendLeave, Posts
<1>3. ASSUME NEW p \in Peer,
             \/ \E c \in Code : Join(p, c)
             \/ Receive(p) \/ PollRideSignals(p)
             \/ \E r \in rides[p] : ForgetRide(p, r)
             \/ PassengerCrash(p)
      PROVE  UNCHANGED <<hostBox, batch>>
  BY <1>3 DEF Join, Receive, PollRideSignals, ForgetRide, PassengerCrash
<1>4. ASSUME NEW l \in Loop, TakeClaim(l) \/ TakeNotice(l) \/ Discard(l)
      PROVE  Hands(l)
  BY <1>4 DEF TakeClaim, TakeNotice, Discard, InHand, Hands
<1>5. ASSUME NEW l \in Loop, EndPoll(l)
      PROVE  TakesPoll(l) \/ LosesSome \/ UNCHANGED <<hostBox, batch>>
  BY <1>5 DEF EndPoll, TakesPoll, LosesSome
<1>6. ASSUME NEW l \in Loop,
             \/ BeginPoll(l) \/ DeliverGrant(l) \/ LoseGrant(l)
             \/ ShowGrantee(l) \/ EndLoop(l)
      PROVE  UNCHANGED <<hostBox, batch>>
  BY <1>6 DEF BeginPoll, DeliverGrant, LoseGrant, ShowGrantee, EndLoop
<1>7. ASSUME Expire
      PROVE  LosesSome \/ UNCHANGED <<hostBox, batch>>
  BY <1>7 DEF Expire, LosesSome
<1>8. ASSUME HostCrash
      PROVE  hostBox' = hostBox /\ batch' = [l \in Loop |-> <<>>]
  BY <1>8 DEF HostCrash
<1>9. ASSUME \/ \E p \in Peer : OpenLink(p)
             \/ \E s \in Slot : Command(s) \/ \E l \in Loop : DriveOff(s, l)
             \/ Suspend
             \/ \E car \in CarId : Clock(car)
             \/ UNCHANGED rideVars
      PROVE  UNCHANGED <<hostBox, batch>>
  BY <1>9 DEF OpenLink, Command, DriveOff, Suspend, Clock, rideVars
<1> QED
  BY <1>1, <1>2, <1>3, <1>4, <1>5, <1>6, <1>7, <1>8, <1>9
     DEF RideNext, PassengerStep, HostStep, HostLoopStep

\* What a step does to the session: it goes on, takes a claim or a notice, ends,
\* or begins.
LEMMA SessionStep ==
  ASSUME [RideNext]_rideVars
  PROVE  \/ UNCHANGED <<activeCar, bindings, drives>>
         \/ \E l \in Loop : TakeClaim(l) /\ activeCar # None
                              /\ UNCHANGED <<activeCar, drives>>
         \/ \E l \in Loop : TakeNotice(l) /\ UNCHANGED <<activeCar, drives>>
         \/ activeCar' = None /\ bindings' = {} /\ UNCHANGED drives
         \/ \E s \in Slot, l \in Loop : DriveOff(s, l)
<1> USE DEF vars, session
<1>1. ASSUME NEW p \in Peer, PassengerStep(p) \/ OpenLink(p)
      PROVE  UNCHANGED <<activeCar, bindings, drives>>
  BY <1>1 DEF PassengerStep, Join, SendClaim, Receive, JoinFails,
     PollRideSignals, SendLeave, ForgetRide, PassengerCrash, OpenLink, ConfirmLink
<1>2. ASSUME NEW l \in Loop,
             \/ BeginPoll(l) \/ EndPoll(l) \/ Discard(l) \/ DeliverGrant(l)
             \/ LoseGrant(l) \/ ShowGrantee(l) \/ EndLoop(l)
      PROVE  UNCHANGED <<activeCar, bindings, drives>>
  BY <1>2 DEF BeginPoll, EndPoll, Discard, DeliverGrant, GrantSent, LoseGrant,
     SendFailed, ShowGrantee, MarkSeatJoining, EndLoop, LoopExit
<1>3. ASSUME NEW l \in Loop, TakeClaim(l)
      PROVE  activeCar # None /\ UNCHANGED <<activeCar, drives>>
  BY <1>3, NoneAssumption DEF TakeClaim, HandleClaim, Grantable, Open
<1>4. ASSUME NEW l \in Loop, TakeNotice(l)
      PROVE  UNCHANGED <<activeCar, drives>>
  BY <1>4 DEF TakeNotice, HandleLeave
<1>5. ASSUME NEW s \in Slot, Command(s)
      PROVE  \/ UNCHANGED <<activeCar, bindings, drives>>
             \/ activeCar' = None /\ bindings' = {} /\ UNCHANGED drives
  BY <1>5 DEF Command, PrepareStep, StartCar, ResumeHostCar, CommandFailed,
     RecordStarted, RecordResumed, StopCar, RecordStopped, ClearSession
<1>6. ASSUME Suspend \/ HostCrash
      PROVE  activeCar' = None /\ bindings' = {} /\ UNCHANGED drives
  BY <1>6 DEF Suspend, SuspendCar, HostCrash, Crash, ClearSession
<1>7. ASSUME Expire \/ (\E car \in CarId : Clock(car)) \/ UNCHANGED rideVars
      PROVE  UNCHANGED <<activeCar, bindings, drives>>
  BY <1>7 DEF Expire, Clock, TimePasses, rideVars
<1> QED
  BY <1>1, <1>2, <1>3, <1>4, <1>5, <1>6, <1>7 DEF RideNext, HostStep, HostLoopStep

\* Only a drive starts a loop, and a loop ends when its batch is handled.
LEMMA LoopsStep ==
  ASSUME TypeOK, MailOK, RestOK, LoopsRest, [RideNext]_rideVars
  PROVE  /\ LoopsRest'
         /\ \/ \A l \in Loop : Runs(l)' => Runs(l)
            \/ \E s \in Slot, d \in Loop :
                 DriveOff(s, d) /\ \A l \in Loop : Runs(l)' => Runs(l) \/ l = d
<1> DEFINE Fewer == \A l \in Loop : Runs(l)' => Runs(l)
<1> USE DEF LoopsRest, Runs, MailOK
<1>1. ASSUME UNCHANGED <<loop, hostLoop>>
      PROVE  LoopsRest' /\ Fewer
  BY <1>1 DEF hostLoop
<1>2. ASSUME NEW p \in Peer, PassengerStep(p) \/ OpenLink(p)
      PROVE  UNCHANGED <<loop, hostLoop>>
  BY <1>2 DEF PassengerStep, Join, SendClaim, Receive, JoinFails,
     PollRideSignals, SendLeave, ForgetRide, PassengerCrash, OpenLink,
     ConfirmLink, vars
<1>3. ASSUME NEW l \in Loop, TakeClaim(l) \/ TakeNotice(l) \/ Discard(l)
      PROVE  LoopsRest' /\ Fewer
  <2>1. loop[l].pc = "ready" /\ batch[l] # <<>> /\ l \notin polling
    BY <1>3 DEF TakeClaim, HandleClaim, TakeNotice, HandleLeave, Discard, InHand
  <2>2. batch' = [batch EXCEPT ![l] = Tail(@)] /\ UNCHANGED polling
    BY <1>3 DEF TakeClaim, TakeNotice, Discard, Drop
  <2>3. \A k \in Loop : k # l => loop'[k] = loop[k]
    BY <1>3 DEF TakeClaim, HandleClaim, TakeNotice, HandleLeave, Discard, At, vars,
                TypeOK
  <2>4. loop'[l].pc # "off"
    BY <1>3, <2>1 DEF TakeClaim, HandleClaim, TakeNotice, HandleLeave, Discard, At,
                      vars, TypeOK
  <2> QED
    BY <2>1, <2>2, <2>3, <2>4
<1>4. ASSUME NEW l \in Loop, BeginPoll(l) \/ EndPoll(l)
      PROVE  LoopsRest' /\ Fewer
  <2>1. UNCHANGED loop
    BY <1>4 DEF BeginPoll, EndPoll, vars
  <2>2. CASE BeginPoll(l)
    BY <2>1, <2>2 DEF BeginPoll
  <2>3. CASE EndPoll(l)
    BY <2>1, <2>3 DEF EndPoll
  <2> QED
    BY <1>4, <2>2, <2>3
<1>5. ASSUME NEW l \in Loop, DeliverGrant(l) \/ LoseGrant(l) \/ ShowGrantee(l)
      PROVE  LoopsRest' /\ Fewer
  <2>1. loop[l].pc \in {"sending", "sent"} /\ UNCHANGED <<batch, polling>>
    BY <1>5 DEF DeliverGrant, GrantSent, LoseGrant, SendFailed, ShowGrantee,
                MarkSeatJoining, hostLoop
  <2>2. loop'[l].pc # "off" /\ \A k \in Loop : k # l => loop'[k] = loop[k]
    BY <1>5 DEF DeliverGrant, GrantSent, LoseGrant, SendFailed, ShowGrantee,
                MarkSeatJoining, At, TypeOK
  <2> QED
    BY <2>1, <2>2
<1>6. ASSUME NEW l \in Loop, EndLoop(l)
      PROVE  LoopsRest' /\ Fewer
  <2>1. /\ l \notin polling /\ batch[l] = <<>> /\ UNCHANGED <<batch, polling>>
        /\ \A k \in Loop : k # l => loop'[k] = loop[k]
        /\ loop'[l].pc = "off"
    BY <1>6 DEF EndLoop, LoopExit, hostLoop, Idle, TypeOK
  <2> QED
    BY <2>1
<1>7. ASSUME NEW s \in Slot, NEW d \in Loop, DriveOff(s, d)
      PROVE  LoopsRest' /\ \A l \in Loop : Runs(l)' => Runs(l) \/ l = d
  <2>1. /\ UNCHANGED <<batch, polling>> /\ loop[d].pc = "off"
        /\ \A k \in Loop : k # d => loop'[k] = loop[k]
    BY <1>7 DEF DriveOff, Activate, hostLoop, Idle, TypeOK
  <2> QED
    BY <2>1
<1>8. ASSUME HostCrash
      PROVE  LoopsRest' /\ Fewer
  BY <1>8 DEF HostCrash, Crash, Idle
<1>9. ASSUME \/ \E s \in Slot : Command(s)
             \/ Suspend \/ Expire
             \/ \E car \in CarId : Clock(car)
             \/ UNCHANGED rideVars
      PROVE  UNCHANGED <<loop, hostLoop>>
  BY <1>9 DEF Command, PrepareStep, StartCar, ResumeHostCar, CommandFailed,
     RecordStarted, RecordResumed, StopCar, RecordStopped, Suspend, SuspendCar,
     Expire, Clock, TimePasses, rideVars, vars
<1> HIDE DEF LoopsRest, Runs, Fewer
<1> QED
  BY <1>1, <1>2, <1>3, <1>4, <1>5, <1>6, <1>7, <1>8, <1>9
     DEF RideNext, HostStep, HostLoopStep, Fewer

\* How claims depart.
LEMMA DepartedStep ==
  ASSUME [RideNext]_rideVars
  PROVE  \/ UNCHANGED departed
         \/ \E p \in Peer : \E r \in rides[p] :
              SendLeave(p, r) /\ departed' = departed \cup {r.claim}
BY DEF RideNext, PassengerStep, Join, SendClaim, Receive, JoinFails,
   PollRideSignals, SendLeave, ForgetRide, PassengerCrash, HostStep,
   HostLoopStep, BeginPoll, EndPoll, TakeClaim, TakeNotice, Discard,
   DeliverGrant, LoseGrant, ShowGrantee, EndLoop, OpenLink, Command, DriveOff,
   Suspend, HostCrash, Expire, Clock, rideVars, passengers

\* A binding keeps its order, if the claims its notices release have departed:
\* no copy of a departed claim is posted any more.
LEMMA InOrderStep ==
  ASSUME MailOK, RestOK, ClaimInv, LoopsRest, [RideNext]_rideVars,
         NEW b, InOrder(b),
         \A n \in InFlight : Frees(n, b) => b.claim \in departed
  PROVE  InOrder(b)'
<1> USE DEF InOrder, MailOK
<1>1. CASE UNCHANGED <<hostBox, batch>>
  BY <1>1 DEF Ordered
<1>2. ASSUME NEW m \in Claim \cup Notice, Posts(m),
             \/ m \in Notice
             \/ m.claim = b.claim => \A n \in InFlight : ~Frees(n, b)
      PROVE  InOrder(b)'
  <2>1. \/ ~Repeats(m, b.claim)
        \/ \A n \in InFlight : ~Frees(n, b)
    BY <1>2, ClaimIsNoNotice DEF Repeats
  <2>2. ~Repeats(m, b.claim) \/ \A n \in Elems(hostBox) : ~Frees(n, b)
    BY <2>1, PartsOfFlight DEF Frees
  <2>3. Ordered(Post(hostBox, m), b)
    BY <2>2, OrderedPost
  <2>4. Elems(Post(hostBox, m)) \subseteq Elems(hostBox) \cup {m}
    BY PostFacts
  <2>5. ASSUME NEW l \in Loop, NEW n \in Elems(batch[l]), Frees(n, b)
        PROVE  ~Repeats(m, b.claim)
    BY <2>1, <2>5, PartsOfFlight DEF Frees
  <2> QED
    BY <1>2, <2>3, <2>4, <2>5 DEF Posts
<1>3. ASSUME NEW p \in Peer, join[p] # None, join[p] \in Claim, Posts(join[p])
      PROVE  InOrder(b)'
  <2>1. join[p].claim \notin departed
    BY <1>3 DEF ClaimInv
  <2> QED
    BY <1>2, <1>3, <2>1
<1>4. ASSUME NEW p \in Peer, NEW r \in rides[p],
             Posts([code |-> r.code, peer |-> p, access |-> r.access])
      PROVE  InOrder(b)'
  <2>1. [code |-> r.code, peer |-> p, access |-> r.access] \in Notice
    BY RideFields DEF Notice
  <2> QED
    BY <1>2, <1>4, <2>1
<1>5. ASSUME NEW l \in Loop, Hands(l)
      PROVE  InOrder(b)'
  <2>1. Ordered(Tail(batch[l]), b) /\ Elems(Tail(batch[l])) \subseteq Elems(batch[l])
    BY <1>5, OrderedTail, TailFacts DEF Hands
  <2> QED
    BY <1>5, <2>1 DEF Hands, Drop
<1>6. ASSUME NEW l \in Loop, TakesPoll(l)
      PROVE  InOrder(b)'
  <2>1. /\ Ordered(Polled(hostBox), b) /\ Ordered(Rest(hostBox), b)
        /\ \A n \in Elems(Polled(hostBox)), m \in Elems(Rest(hostBox)) :
             Frees(n, b) => ~Repeats(m, b.claim)
    BY OrderedPoll
  <2>2. Elems(Rest(hostBox)) \subseteq Elems(hostBox)
    BY PollFacts
  <2> QED
    BY <1>6, <2>1, <2>2 DEF TakesPoll
<1>7. CASE LosesSome
  <2>1. Ordered(Rest(hostBox), b) /\ Elems(Rest(hostBox)) \subseteq Elems(hostBox)
    BY OrderedPoll, PollFacts
  <2>2. hostBox # <<>> => /\ Ordered(Tail(hostBox), b)
                          /\ Elems(Tail(hostBox)) \subseteq Elems(hostBox)
    BY OrderedTail, TailFacts
  <2>3. \/ hostBox' = Rest(hostBox)
        \/ hostBox # <<>> /\ hostBox' = Tail(hostBox)
    BY <1>7 DEF LosesSome
  <2>4. Ordered(hostBox', b) /\ Elems(hostBox') \subseteq Elems(hostBox)
    BY <2>1, <2>2, <2>3
  <2>5. UNCHANGED batch
    BY <1>7 DEF LosesSome
  <2> QED
    BY <2>4, <2>5
<1>8. CASE hostBox' = hostBox /\ batch' = [l \in Loop |-> <<>>]
  BY <1>8, EmptyFacts DEF Ordered
<1> QED
  BY <1>1, <1>3, <1>4, <1>5, <1>6, <1>7, <1>8, QueueStep

\* A claim that has departed and of which no copy is left stays gone.
LEMMA GoneStep ==
  ASSUME MailOK, RestOK, ClaimInv, [RideNext]_rideVars,
         NEW k \in departed, Gone(k)
  PROVE  Gone(k)'
<1> USE DEF Gone, MailOK
<1>1. ASSUME NEW m \in Claim \cup Notice, Posts(m), ~Repeats(m, k)
      PROVE  Gone(k)'
  <2>1. Elems(Post(hostBox, m)) \subseteq Elems(hostBox) \cup {m}
    BY PostFacts
  <2> QED
    BY <1>1, <2>1 DEF Posts
<1>2. ASSUME NEW p \in Peer, join[p] # None, join[p] \in Claim, Posts(join[p])
      PROVE  Gone(k)'
  BY <1>1, <1>2 DEF ClaimInv, Repeats
<1>3. ASSUME NEW p \in Peer, NEW r \in rides[p],
             Posts([code |-> r.code, peer |-> p, access |-> r.access])
      PROVE  Gone(k)'
  <2>1. [code |-> r.code, peer |-> p, access |-> r.access] \in Notice
    BY RideFields DEF Notice
  <2> QED
    BY <1>1, <1>3, <2>1, ClaimIsNoNotice DEF Repeats
<1>4. ASSUME NEW l \in Loop, Hands(l) \/ TakesPoll(l)
      PROVE  Gone(k)'
  <2>1. batch[l] # <<>> => Elems(Tail(batch[l])) \subseteq Elems(batch[l])
    BY TailFacts
  <2>2. /\ Elems(Polled(hostBox)) \subseteq Elems(hostBox)
        /\ Elems(Rest(hostBox)) \subseteq Elems(hostBox)
    BY PollFacts
  <2> QED
    BY <1>4, <2>1, <2>2 DEF Hands, Drop, TakesPoll
<1>5. CASE LosesSome
  <2>1. Elems(Rest(hostBox)) \subseteq Elems(hostBox)
    BY PollFacts
  <2>2. hostBox # <<>> => Elems(Tail(hostBox)) \subseteq Elems(hostBox)
    BY TailFacts
  <2> QED
    BY <1>5, <2>1, <2>2 DEF LosesSome
<1>6. CASE UNCHANGED <<hostBox, batch>>
  BY <1>6
<1>7. CASE hostBox' = hostBox /\ batch' = [l \in Loop |-> <<>>]
  BY <1>7, EmptyFacts
<1> QED
  BY <1>2, <1>3, <1>4, <1>5, <1>6, <1>7, QueueStep

\* What a step makes of Known, with what a new grant comes from.
LEMMA NewGrants ==
  ASSUME TypeOK, MailOK, RestOK, [RideNext]_rideVars
  PROVE  \A g \in Known' : \/ g \in Known
                           \/ /\ g \in bindings' /\ g.access \notin issued
                              /\ activeCar # None
<1>1. CASE KnownKept
  BY <1>1 DEF KnownKept
<1>2. CASE KnownGrows
  <2>1. PICK m \in Claim, a \in Access \ issued :
          /\ Known' \subseteq Known \cup {BindSeat(m, a)}
          /\ BindSeat(m, a) \in bindings' /\ activeCar # None
    BY <1>2 DEF KnownGrows
  <2>2. BindSeat(m, a).access = a
    BY DEF BindSeat
  <2> QED
    BY <2>1, <2>2
<1> QED
  BY <1>1, <1>2, KnownStep

\* Nothing is known of a grant before the first drive.
LEMMA BeforeDriveStep ==
  ASSUME TypeOK, MailOK, RestOK, LoopsRest, BeforeDrive, [RideNext]_rideVars
  PROVE  BeforeDrive'
<1> SUFFICES ASSUME drives' = 0
             PROVE  /\ activeCar' = None /\ Known' = {} /\ departed' = {}
                    /\ \A l \in Loop : ~Runs(l)'
  BY DEF BeforeDrive
<1>1. ~ \E s \in Slot, l \in Loop : DriveOff(s, l)
  BY DEF DriveOff, RestOK
<1>2. drives = 0
  BY <1>1, SessionStep
<1>3. activeCar = None /\ Known = {} /\ departed = {} /\ \A l \in Loop : ~Runs(l)
  BY <1>2 DEF BeforeDrive
<1>4. activeCar' = None
  BY <1>1, <1>3, SessionStep
<1>5. Known' = {}
  BY <1>3, NewGrants
<1>6. departed' = {}
  <2>1. \A p \in Peer : rides[p] = {}
    BY <1>3, PartsOfKnown
  <2> QED
    BY <1>3, <2>1, DepartedStep
<1>7. \A l \in Loop : ~Runs(l)'
  BY <1>1, <1>3, LoopsStep
<1> QED
  BY <1>4, <1>5, <1>6, <1>7

\* One drive, one loop.
LEMMA OneLoopStep ==
  ASSUME TypeOK, MailOK, RestOK, LoopsRest, BeforeDrive, OneLoop, [RideNext]_rideVars
  PROVE  OneLoop'
<1> SUFFICES ASSUME drives' <= 1
             PROVE  \A l, m \in Loop : Runs(l)' /\ Runs(m)' => l = m
  BY DEF OneLoop
<1>1. ASSUME NEW s \in Slot, NEW d \in Loop, DriveOff(s, d),
             \A l \in Loop : Runs(l)' => Runs(l) \/ l = d
      PROVE  \A l, m \in Loop : Runs(l)' /\ Runs(m)' => l = m
  <2>1. drives = 0
    BY <1>1 DEF DriveOff, RestOK
  <2> QED
    BY <1>1, <2>1 DEF BeforeDrive
<1>2. CASE \A l \in Loop : Runs(l)' => Runs(l)
  <2>1. ASSUME NEW s \in Slot, NEW d \in Loop, DriveOff(s, d)
        PROVE  \A l \in Loop : Runs(l)' => Runs(l) \/ l = d
    BY <1>2
  <2>2. CASE \E s \in Slot, d \in Loop : DriveOff(s, d)
    BY <1>1, <2>1, <2>2
  <2>3. CASE ~ \E s \in Slot, d \in Loop : DriveOff(s, d)
    <3>1. drives <= 1
      BY <2>3, SessionStep
    <3> QED
      BY <1>2, <3>1 DEF OneLoop
  <2> QED
    BY <2>2, <2>3
<1> QED
  BY <1>1, <1>2, LoopsStep

\* Where the one drive of drives' <= 1 has begun, a session that is on was on.
LEMMA SameSession ==
  ASSUME TypeOK, MailOK, RestOK, LoopsRest, BeforeDrive, [RideNext]_rideVars,
         drives' <= 1, activeCar' # None
  PROVE  \/ Known = {} /\ departed = {} /\ Known' = {} /\ departed' = {}
         \/ /\ drives <= 1 /\ activeCar # None
            /\ \/ UNCHANGED bindings
               \/ \E l \in Loop : TakeClaim(l) \/ TakeNotice(l)
<1>1. ASSUME NEW s \in Slot, NEW l \in Loop, DriveOff(s, l)
      PROVE  Known = {} /\ departed = {} /\ Known' = {} /\ departed' = {}
  <2>1. drives = 0
    BY <1>1 DEF DriveOff, RestOK
  <2>2. Known = {} /\ departed = {} /\ activeCar = None
    BY <2>1 DEF BeforeDrive
  <2>3. Known' = {}
    BY <2>2, NewGrants
  <2>4. departed' = {}
    BY <1>1, <2>2 DEF DriveOff, passengers
  <2> QED
    BY <2>2, <2>3, <2>4
<1>2. CASE ~ \E s \in Slot, l \in Loop : DriveOff(s, l)
  BY <1>2, SessionStep
<1> QED
  BY <1>1, <1>2

\* What a notice takes away had departed.
LEMMA ReleasedDeparted ==
  ASSUME TypeOK, RideInv, NEW l \in Loop, TakeNotice(l)
  PROVE  \E n \in Notice, b \in bindings :
           /\ InHand(l, n) /\ n \in InFlight /\ Frees(n, b)
           /\ bindings' = bindings \ {b} /\ b.claim \in departed
<1>1. PICK n \in Notice : InHand(l, n) /\ HandleLeave(l, n)
  BY DEF TakeNotice
<1>2. PICK b \in bindings : Releases(n, b) /\ bindings' = bindings \ {b}
  BY <1>1 DEF HandleLeave
<1>3. n \in InFlight
  BY <1>1, TailFacts, PartsOfFlight DEF InHand, RideInv, MailOK
<1>4. b \in Known /\ b.access = n.access
  BY <1>2, PartsOfKnown DEF Releases
<1> QED
  BY <1>1, <1>2, <1>3, <1>4 DEF RideInv, NoticeInv, Frees

\* A claim takes nothing away.
LEMMA ClaimAdds ==
  ASSUME NEW l \in Loop, TakeClaim(l)
  PROVE  \E m \in Claim : /\ InHand(l, m)
                          /\ bindings \subseteq bindings'
                          /\ \A b \in bindings' \ bindings :
                               b.claim = m.claim /\ b.access \notin issued
<1>1. PICK m \in Claim : InHand(l, m) /\ HandleClaim(l, m)
  BY DEF TakeClaim
<1>2. ASSUME NEW a \in FreshAccess, HeldBy(m) = {},
             bindings' = (bindings \ BindingOn(m.code)) \cup {BindSeat(m, a)}
      PROVE  /\ bindings \subseteq bindings'
             /\ \A b \in bindings' \ bindings : b.claim = m.claim /\ b.access \notin issued
  <2>1. BindingOn(m.code) = {}
    BY <1>1, <1>2 DEF HandleClaim, Grantable
  <2>2. BindSeat(m, a).claim = m.claim /\ BindSeat(m, a).access \notin issued
    BY DEF BindSeat, FreshAccess
  <2> QED
    BY <1>2, <2>1, <2>2
<1>3. \/ UNCHANGED bindings
      \/ /\ HeldBy(m) = {}
         /\ \E a \in FreshAccess :
              bindings' = (bindings \ BindingOn(m.code)) \cup {BindSeat(m, a)}
  <2>1. \/ \E b \in HeldBy(m) : UNCHANGED <<bindings, issued>>
        \/ /\ HeldBy(m) = {}
           /\ \E a \in FreshAccess :
                bindings' = (bindings \ BindingOn(m.code)) \cup {BindSeat(m, a)}
    BY <1>1, Zenon DEF HandleClaim
  <2> QED
    BY <2>1
<1> QED
  BY <1>1, <1>2, <1>3

\* Grants that have not departed stay bound.
LEMMA GrantsHoldStep ==
  ASSUME TypeOK, RideInv, LoopsRest, BeforeDrive, GrantsHold, [RideNext]_rideVars
  PROVE  GrantsHold'
<1> USE DEF RideInv
<1> SUFFICES ASSUME drives' <= 1, activeCar' # None, NEW g \in Known'
             PROVE  g.claim \in departed' \/ g \in bindings'
  BY DEF GrantsHold
<1>1. CASE Known' = {}
  BY <1>1
<1>2. CASE Known' # {}
  <2>1. drives <= 1 /\ activeCar # None
        /\ (UNCHANGED bindings \/ \E l \in Loop : TakeClaim(l) \/ TakeNotice(l))
    BY <1>2, SameSession
  <2>2. g \in Known \/ g \in bindings'
    BY NewGrants
  <2>3. departed \subseteq departed'
    BY DepartedStep
  <2>4. g \in Known => g.claim \in departed \/ g \in bindings
    BY <2>1 DEF GrantsHold
  <2>5. g \in bindings => g \in bindings' \/ g.claim \in departed
    BY <2>1, ClaimAdds, ReleasedDeparted
  <2> QED
    BY <2>2, <2>3, <2>4, <2>5
<1> QED
  BY <1>1, <1>2

\* All bindings keep their order.
LEMMA CopiesFirstStep ==
  ASSUME TypeOK, RideInv, LoopsRest, CopiesFirst, [RideNext]_rideVars
  PROVE  CopiesFirst'
<1> USE DEF RideInv
<1> SUFFICES ASSUME NEW b \in bindings'
             PROVE  InOrder(b)'
  BY DEF CopiesFirst
<1>1. CASE b \in bindings
  <2>1. InOrder(b)
    BY <1>1 DEF CopiesFirst
  <2>2. \A n \in InFlight : Frees(n, b) => b.claim \in departed
    BY <1>1, PartsOfKnown DEF NoticeInv, Frees
  <2> QED
    BY <2>1, <2>2, InOrderStep
<1>2. CASE b \notin bindings
  <2>1. b.access \notin issued
    <3>1. \E l \in Loop : TakeClaim(l)
      BY <1>2, SessionStep, ReleasedDeparted DEF DriveOff, Activate, ClearSession
    <3> QED
      BY <1>2, <3>1, ClaimAdds
  <2>2. \A n \in InFlight : ~Frees(n, b)
    BY <2>1 DEF NoticeInv, Frees
  <2>3. InOrder(b)
    <3>1. \A i \in 1..Len(hostBox) : ~Frees(hostBox[i], b)
      BY <2>2, PartsOfFlight DEF Frees, Elems
    <3>2. \A l \in Loop : \A i \in 1..Len(batch[l]) : ~Frees(batch[l][i], b)
      BY <2>2, PartsOfFlight DEF Frees, Elems
    <3> QED
      BY <3>1, <3>2 DEF InOrder, Ordered, Elems
  <2> QED
    BY <2>2, <2>3, InOrderStep
<1> QED
  BY <1>1, <1>2

\* When a notice releases a binding, all copies of its claim have been handled.
LEMMA NoCopiesStep ==
  ASSUME TypeOK, RideInv, OrderInv, [RideNext]_rideVars
  PROVE  NoCopies'
<1> USE DEF RideInv
<1> SUFFICES ASSUME drives' <= 1, activeCar' # None, NEW k \in departed'
             PROVE  BoundBy(k)' \/ Gone(k)'
  BY DEF NoCopies
<1>1. CASE departed' = {}
  BY <1>1
<1>2. CASE departed' # {}
  <2>1. drives <= 1 /\ activeCar # None
        /\ (UNCHANGED bindings \/ \E l \in Loop : TakeClaim(l) \/ TakeNotice(l))
    BY <1>2, SameSession DEF OrderInv
  <2>2. CASE k \in departed /\ Gone(k)
    BY <2>2, GoneStep
  <2>3. ASSUME k \notin departed
        PROVE  BoundBy(k)'
    <3>0. PICK p \in Peer : \E r \in rides[p] : SendLeave(p, r) /\ r.claim = k
      BY <2>3, DepartedStep
    <3>1. PICK r \in rides[p] : SendLeave(p, r) /\ r.claim = k
      BY <3>0
    <3>2. GrantOf(p, r) \in Known /\ GrantOf(p, r).claim = k
      BY <3>1, PartsOfKnown DEF GrantOf
    <3>3. GrantOf(p, r) \in bindings
      BY <2>1, <2>3, <3>2 DEF OrderInv, GrantsHold
    <3>4. UNCHANGED bindings
      BY <3>1 DEF SendLeave, vars, session
    <3> QED
      BY <3>2, <3>3, <3>4 DEF BoundBy
  <2>4. ASSUME k \in departed, BoundBy(k), ~BoundBy(k)'
        PROVE  Gone(k)'
    <3>1. PICK b \in bindings : b.claim = k
      BY <2>4 DEF BoundBy
    <3>2. b \notin bindings'
      BY <2>4, <3>1 DEF BoundBy
    <3>3. PICK l \in Loop : TakeNotice(l)
      BY <2>1, <3>2, ClaimAdds
    <3>4. PICK n \in Notice, c \in bindings :
            InHand(l, n) /\ Frees(n, c) /\ bindings' = bindings \ {c}
      BY <3>3, ReleasedDeparted
    <3>5. c = b
      BY <3>2, <3>4
    <3>6. InOrder(b)
      BY DEF OrderInv, CopiesFirst
    <3>7. /\ batch[l] # <<>> /\ Head(batch[l]) = n
          /\ batch' = [batch EXCEPT ![l] = Tail(@)] /\ UNCHANGED hostBox
      BY <3>3, <3>4 DEF InHand, TakeNotice, Drop, mail
    <3>8. \A m \in Elems(Tail(batch[l])) : ~Repeats(m, k)
      BY <3>1, <3>4, <3>5, <3>6, <3>7, OrderedTail DEF InOrder, MailOK
    <3>9. \A m \in Elems(hostBox) : ~Repeats(m, k)
      BY <3>1, <3>4, <3>5, <3>6, <3>7, TailFacts DEF InOrder, MailOK
    <3>10. \A d \in Loop : d # l => batch[d] = <<>>
      BY <2>1, <3>7 DEF OrderInv, OneLoop, LoopsRest
    <3> QED
      BY <3>7, <3>8, <3>9, <3>10, EmptyFacts DEF Gone, MailOK
  <2> QED
    BY <2>1, <2>2, <2>3, <2>4 DEF OrderInv, NoCopies
<1> QED
  BY <1>1, <1>2

\* The order of claims and notices in the host's queue is kept in every behaviour.
LEMMA OrderInvAlways == RideSpec => []OrderInv
<1>1. RideInit => OrderInv
  <2> SUFFICES ASSUME RideInit PROVE OrderInv
    OBVIOUS
  <2>1. Known = {}
    BY EmptyFacts DEF RideInit, Init, Idle, Known, HeldByLoops, InBoxes,
                       WithPassenger
  <2>2. /\ bindings = {} /\ departed = {} /\ activeCar = None /\ polling = {}
        /\ \A l \in Loop : batch[l] = <<>> /\ loop[l].pc = "off"
    BY DEF RideInit, Init, Idle
  <2> QED
    BY <2>1, <2>2 DEF OrderInv, LoopsRest, BeforeDrive, OneLoop, GrantsHold,
                      CopiesFirst, NoCopies, Runs
<1>2. TypeOK /\ RideInv /\ OrderInv /\ [RideNext]_rideVars => OrderInv'
  <2> SUFFICES ASSUME TypeOK, RideInv, OrderInv, [RideNext]_rideVars
               PROVE  OrderInv'
    OBVIOUS
  <2>1. /\ MailOK /\ RestOK /\ LoopsRest /\ BeforeDrive /\ OneLoop /\ GrantsHold
        /\ CopiesFirst
    BY DEF RideInv, OrderInv
  <2>2. LoopsRest' /\ BeforeDrive' /\ OneLoop'
    BY <2>1, LoopsStep, BeforeDriveStep, OneLoopStep
  <2>3. GrantsHold' /\ CopiesFirst' /\ NoCopies'
    BY <2>1, GrantsHoldStep, CopiesFirstStep, NoCopiesStep
  <2> QED
    BY <2>2, <2>3 DEF OrderInv
<1> QED
  BY <1>1, <1>2, RideTypeCorrect, RideInvAlways, PTL DEF RideSpec

\* While the host has driven once, a claim whose passenger has left never binds a
\* seat again, however many copies of it were sent, and however late.
THEOREM DepartedKeptOut == RideSpec => DepartedStaysOut
<1> DEFINE Out == \A k \in departed : drives' <= 1 /\ ~BoundBy(k) => ~BoundBy(k)'
<1>1. TypeOK /\ RideInv /\ OrderInv /\ [RideNext]_rideVars => Out
  <2> SUFFICES ASSUME TypeOK, RideInv, OrderInv, [RideNext]_rideVars,
                      NEW k \in departed, drives' <= 1, ~BoundBy(k), BoundBy(k)'
               PROVE  FALSE
    OBVIOUS
  <2>1. PICK b \in bindings' : b.claim = k /\ b \notin bindings
    BY DEF BoundBy
  <2>2. PICK l \in Loop : TakeClaim(l) /\ activeCar # None /\ UNCHANGED drives
    BY <2>1, SessionStep, ReleasedDeparted DEF DriveOff, Activate, ClearSession
  <2>3. PICK m \in Claim : InHand(l, m) /\ m.claim = k
    BY <2>1, <2>2, ClaimAdds
  <2>4. Gone(k)
    BY <2>2 DEF OrderInv, NoCopies
  <2>5. m \in Elems(batch[l])
    BY <2>3, TailFacts DEF InHand, RideInv, MailOK
  <2> QED
    BY <2>3, <2>4, <2>5 DEF Gone, Repeats
<1>2. TypeOK /\ RideInv /\ OrderInv /\ [RideNext]_rideVars => [Out]_rideVars
  BY <1>1
<1> QED
  BY <1>2, RideTypeCorrect, RideInvAlways, OrderInvAlways, PTL
     DEF RideSpec, DepartedStaysOut
=============================================================================
