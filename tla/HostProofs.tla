--------------------------- MODULE HostProofs ---------------------------
(***************************************************************************)
(* Proofs about three parts of the host. Invites: for any cars, codes,     *)
(* loops and quotas, and any times that satisfy InvitesAssumption, a       *)
(* running car is found and an abandoned one fades. Metering: for any      *)
(* requests, prices and answers, a request is served once, the books       *)
(* agree, and what is charged for a consistent answer is what its records  *)
(* say. RideHistory: for any cars, seats and commands, the file names each *)
(* ride once and offers one car at most.                                   *)
(***************************************************************************)
EXTENDS Invites, Metering, RideHistory, PoolProofs, SequenceTheorems

LeftCodes(r) == {r.left[i] : i \in DOMAIN r.left}

RoundType ==
    [pc : {"none", "sleeping", "registering"}, car : InviteCar \cup {NoInvites},
     left : Seq(AllCodes), age : 0..Pass, wait : 0..Interval, clean : BOOLEAN]

\* A round is of a car, and registers seats of that car.
WellFormed(r) ==
    /\ r \in RoundType
    /\ r.pc = "none" <=> r.car = NoInvites
    /\ r.pc = "none" => r.left = <<>>
    /\ r.pc # "none" => LeftCodes(r) \subseteq SeatCodes(r.car)

-----------------------------------------------------------------------------
(***************************************************************************)
(* The rounds that the actions make.                                       *)
(***************************************************************************)

\* register_car_invites begins with all the seats of its car.
LEMMA NewRound ==
  ASSUME NEW c \in InviteCar
  PROVE  LET r == Round("registering", c) IN
         /\ WellFormed(r) /\ r.pc = "registering" /\ r.car = c
         /\ LeftCodes(r) = SeatCodes(c) /\ r.age = 0 /\ r.clean
  BY InvitesAssumption DEF Round, WellFormed, RoundType, LeftCodes, SeatCodes

\* No round is under way.
LEMMA NoRoundIsFine ==
  WellFormed(NoRound) /\ NoRound.pc = "none" /\ NoRound.car = NoInvites
  BY InvitesAssumption DEF NoRound, Round, WellFormed, RoundType, LeftCodes

\* A loop of a car sleeps for the whole interval.
LEMMA SleepingIsFine ==
  ASSUME NEW c \in InviteCar
  PROVE  LET r == Sleeping(c) IN
         /\ WellFormed(r) /\ r.pc = "sleeping" /\ r.car = c /\ r.wait = Interval
  BY InvitesAssumption DEF Sleeping, Round, WellFormed, RoundType, LeftCodes

\* One seat of a round is registered.
LEMMA SeatDoneIsFine ==
  ASSUME NEW r, WellFormed(r), Registers(r)
  PROVE  LET q == SeatDone(r) IN
         /\ WellFormed(q) /\ q.pc = "registering" /\ q.car = r.car
         /\ q.age = r.age /\ q.clean = r.clean
         /\ LeftCodes(r) \subseteq LeftCodes(q) \cup {Head(r.left)}
         /\ Head(r.left) \in SeatCodes(r.car) /\ r.car \in InviteCar
<1> DEFINE q == SeatDone(r)
<1>1. r \in RoundType /\ r.pc = "registering" /\ r.left \in Seq(AllCodes) /\ r.left # <<>>
  BY DEF WellFormed, RoundType, Registers
<1>2. /\ q.pc = "registering" /\ q.car = r.car /\ q.age = r.age /\ q.wait = r.wait
      /\ q.clean = r.clean /\ q.left = Tail(r.left)
  BY <1>1 DEF SeatDone, RoundType
<1>3. Tail(r.left) \in Seq(AllCodes)
  BY <1>1
<1>4. q \in RoundType
  BY <1>1, <1>3 DEF SeatDone, RoundType
<1>5. \A i \in DOMAIN r.left : i = 1 \/ (i - 1 \in DOMAIN Tail(r.left) /\ Tail(r.left)[i - 1] = r.left[i])
  BY <1>1
<1>6. \A i \in DOMAIN Tail(r.left) : i + 1 \in DOMAIN r.left /\ Tail(r.left)[i] = r.left[i + 1]
  BY <1>1
<1>7. Head(r.left) = r.left[1] /\ 1 \in DOMAIN r.left
  BY <1>1
<1>8. LeftCodes(r) \subseteq LeftCodes(q) \cup {Head(r.left)}
  <2>1. ASSUME NEW i \in DOMAIN r.left
        PROVE  r.left[i] \in LeftCodes(q) \cup {Head(r.left)}
    <3>1. CASE i = 1
      BY <3>1, <1>7
    <3>2. CASE i - 1 \in DOMAIN Tail(r.left) /\ Tail(r.left)[i - 1] = r.left[i]
      <4>1. i - 1 \in DOMAIN q.left /\ q.left[i - 1] = r.left[i]
        BY <3>2, <1>2
      <4> QED BY <4>1 DEF LeftCodes
    <3> QED BY <3>1, <3>2, <1>5
  <2> QED BY <2>1 DEF LeftCodes
<1>9. LeftCodes(q) \subseteq LeftCodes(r) /\ Head(r.left) \in LeftCodes(r)
  BY <1>2, <1>6, <1>7 DEF LeftCodes
<1>10. LeftCodes(r) \subseteq SeatCodes(r.car) /\ r.car # NoInvites
  BY <1>1 DEF WellFormed
<1>11. r.car \in InviteCar
  BY <1>1, <1>10 DEF RoundType
<1>12. WellFormed(q)
  BY <1>2, <1>4, <1>9, <1>10 DEF WellFormed
<1> HIDE DEF q
<1> QED BY <1>2, <1>8, <1>9, <1>10, <1>11, <1>12 DEF q

\* A unit of time passes.
LEMMA AgedRoundIsFine ==
  ASSUME NEW r, WellFormed(r), InTime(r)
  PROVE  LET q == AgedRound(r) IN
         /\ WellFormed(q) /\ q.pc = r.pc /\ q.car = r.car /\ q.clean = r.clean
         /\ LeftCodes(q) = LeftCodes(r)
         /\ q.age = IF r.pc = "registering" THEN r.age + 1 ELSE r.age
         /\ q.wait = IF r.pc = "sleeping" THEN r.wait - 1 ELSE r.wait
<1> DEFINE q == AgedRound(r)
<1>1. r \in RoundType /\ r.age \in 0..Pass /\ r.wait \in 0..Interval /\ Pass \in Nat /\ Interval \in Nat
  BY InvitesAssumption DEF WellFormed, RoundType
<1>2. /\ q.pc = r.pc /\ q.car = r.car /\ q.clean = r.clean /\ q.left = r.left
      /\ q.age = IF r.pc = "registering" THEN r.age + 1 ELSE r.age
      /\ q.wait = IF r.pc = "sleeping" THEN r.wait - 1 ELSE r.wait
  BY <1>1 DEF AgedRound, RoundType
<1>3. q.age \in 0..Pass /\ q.wait \in 0..Interval
  <2>1. CASE r.pc = "sleeping"
    BY <2>1, <1>1, <1>2 DEF InTime
  <2>2. CASE r.pc = "registering"
    BY <2>2, <1>1, <1>2 DEF InTime
  <2>3. CASE r.pc # "sleeping" /\ r.pc # "registering"
    BY <2>3, <1>1, <1>2
  <2> QED BY <2>1, <2>2, <2>3
<1>4. q \in RoundType
  BY <1>1, <1>3 DEF AgedRound, RoundType
<1>5. LeftCodes(q) = LeftCodes(r)
  BY <1>2 DEF LeftCodes
<1>6. WellFormed(q)
  BY <1>2, <1>4, <1>5 DEF WellFormed
<1> HIDE DEF q
<1> QED BY <1>2, <1>5, <1>6 DEF q

\* The coordinator restarts while a round is or is not under way.
LEMMA ShakenIsFine ==
  ASSUME NEW r, WellFormed(r)
  PROVE  LET q == Shaken(r) IN
         /\ WellFormed(q) /\ q.pc = r.pc /\ q.car = r.car /\ q.age = r.age
         /\ q.pc = "registering" => ~q.clean
<1> DEFINE q == Shaken(r)
<1>1. r \in RoundType
  BY DEF WellFormed
<1>2. /\ q.pc = r.pc /\ q.car = r.car /\ q.age = r.age /\ q.left = r.left
      /\ q.clean = (r.pc # "registering")
  BY <1>1 DEF Shaken, RoundType
<1>3. q \in RoundType
  BY <1>1 DEF Shaken, RoundType
<1>4. WellFormed(q)
  BY <1>2, <1>3 DEF WellFormed, LeftCodes
<1> HIDE DEF q
<1> QED BY <1>2, <1>4 DEF q

-----------------------------------------------------------------------------
(***************************************************************************)
(* How long it may take until a loop has renewed its car, when s renewals  *)
(* in a row have failed.                                                   *)
(***************************************************************************)
Spare(s) == (Misses - s) * (Interval + Pass)

Need(r, s) ==
    IF r.pc = "sleeping" THEN r.wait + Pass + Spare(s)
    ELSE (Pass - r.age) + Spare(s) + (IF r.clean THEN 0 ELSE Interval + Pass)

\* Multiplication of natural numbers.
LEMMA Products ==
  ASSUME NEW a \in Nat, NEW b \in Nat, NEW d \in Nat
  PROVE  a * d \in Nat /\ (a + b) * d = a * d + b * d
  OBVIOUS

\* The time to spare shrinks by an interval and a round with each failure.
LEMMA SpareShrinks ==
  ASSUME NEW s \in 0..Misses
  PROVE  /\ Spare(s) \in Nat /\ Spare(s) <= Spare(0)
         /\ s < Misses => Spare(s) = Spare(s + 1) + (Interval + Pass)
<1> DEFINE d == Interval + Pass
<1>1. d \in Nat /\ Misses \in Nat /\ s \in Nat /\ s <= Misses
  BY InvitesAssumption
<1> HIDE DEF d
<1>2. Misses - s \in Nat /\ Misses = (Misses - s) + s /\ Misses - 0 = Misses
  BY <1>1
<1>3. (Misses - s) * d \in Nat /\ s * d \in Nat /\ Misses * d \in Nat
  BY <1>1, <1>2, Products
<1>4. Misses * d = (Misses - s) * d + s * d
  <2>1. ((Misses - s) + s) * d = (Misses - s) * d + s * d
    BY <1>1, <1>2, Products
  <2> QED BY <2>1, <1>2
<1>5. ASSUME s < Misses PROVE (Misses - s) * d = (Misses - (s + 1)) * d + d
  <2>1. Misses - (s + 1) \in Nat /\ Misses - s = (Misses - (s + 1)) + 1
    BY <1>1, <1>5
  <2>2. ((Misses - (s + 1)) + 1) * d = (Misses - (s + 1)) * d + 1 * d
    BY <1>1, <2>1, Products
  <2> QED BY <2>1, <2>2, <1>1
<1>6. (Misses - s) * d <= Misses * d
  BY <1>3, <1>4
<1> QED BY <1>2, <1>3, <1>5, <1>6 DEF Spare, d

\* What InvitesAssumption says of the lease.
LEMMA LeaseIsLong ==
  /\ Spare(0) + (Interval + Pass) + (Pass + Pass) < Lease
         /\ Spare(0) \in Nat
         /\ Lease \in Nat /\ Interval \in Nat /\ Pass \in Nat /\ Misses \in Nat
<1>1. /\ Lease \in Nat /\ Interval \in Nat /\ Pass \in Nat /\ Misses \in Nat
      /\ (Misses + 1) * Interval + (Misses + 3) * Pass < Lease
  BY InvitesAssumption
<1>2. (Misses + 1) * Interval + (Misses + 3) * Pass
        = Misses * (Interval + Pass) + (Interval + Pass) + (Pass + Pass)
  BY <1>1
<1>3. Spare(0) = Misses * (Interval + Pass)
  BY <1>1 DEF Spare
<1>4. Spare(0) \in Nat
  BY <1>1, SpareShrinks
<1> QED BY <1>1, <1>2, <1>3, <1>4

\* The cases of Need.
LEMMA Needs ==
  ASSUME NEW r, NEW s
  PROVE  /\ r.pc = "sleeping" => Need(r, s) = r.wait + Pass + Spare(s)
         /\ r.pc # "sleeping" /\ r.clean => Need(r, s) = (Pass - r.age) + Spare(s) + 0
         /\ r.pc # "sleeping" /\ ~r.clean =>
               Need(r, s) = (Pass - r.age) + Spare(s) + (Interval + Pass)
  BY Zenon DEF Need

\* An invite registered by any round in time lasts for all that may happen.
LEMMA NeedIsMet ==
  ASSUME NEW r, WellFormed(r), NEW s \in 0..Misses
  PROVE  Need(r, s) \in Nat /\ Need(r, s) < Lease - Pass
<1>1. r.wait \in 0..Interval /\ r.age \in 0..Pass
  BY DEF WellFormed, RoundType
<1>2. /\ Spare(s) \in Nat /\ Spare(s) <= Spare(0)
  BY SpareShrinks
<1>3. \/ Need(r, s) = r.wait + Pass + Spare(s)
      \/ Need(r, s) = (Pass - r.age) + Spare(s) + 0
      \/ Need(r, s) = (Pass - r.age) + Spare(s) + (Interval + Pass)
  BY Needs
<1> QED BY <1>1, <1>2, <1>3, LeaseIsLong

\* A clean round that ends makes up for what failed before it, for every loop.
LEMMA CleanRoundIsEnough ==
  ASSUME NEW r, WellFormed(r), NEW q, WellFormed(q),
         (q.pc = "registering" /\ ~q.clean) => q.age >= r.age, q.pc # "none"
  PROVE  Need(q, 0) < Lease - Pass - r.age
<1>1. /\ r.age \in 0..Pass
      /\ q.wait \in 0..Interval /\ q.age \in 0..Pass
      /\ q.pc \in {"none", "sleeping", "registering"}
  BY DEF WellFormed, RoundType
<1>2. \/ Need(q, 0) = q.wait + Pass + Spare(0)
      \/ Need(q, 0) = (Pass - q.age) + Spare(0) + 0
      \/ Need(q, 0) = (Pass - q.age) + Spare(0) + (Interval + Pass) /\ q.age >= r.age
  <2>1. q.pc = "sleeping" \/ q.pc = "registering"
    BY <1>1
  <2> QED BY <2>1, Needs
<1> QED BY <1>1, <1>2, LeaseIsLong

\* A failed renewal is followed by one an interval later, as long as one may fail;
\* so is a round in which the coordinator restarted.
LEMMA FailureIsCovered ==
  ASSUME NEW r, WellFormed(r), r.pc = "registering",
         NEW c \in InviteCar, NEW s \in 0..Misses
  PROVE  /\ s < Misses => Need(Sleeping(c), s + 1) <= Need(r, s)
         /\ ~r.clean => Need(Sleeping(c), s) <= Need(r, s)
<1>1. r.age \in 0..Pass
  BY DEF WellFormed, RoundType
<1>2. Sleeping(c).pc = "sleeping" /\ Sleeping(c).wait = Interval
  BY SleepingIsFine
<1>3. Spare(s) \in Nat /\ (s < Misses => Spare(s) = Spare(s + 1) + (Interval + Pass))
  BY SpareShrinks
<1>4. s < Misses => Spare(s + 1) \in Nat
  BY SpareShrinks, LeaseIsLong
<1>5. /\ Need(Sleeping(c), s) = Interval + Pass + Spare(s)
      /\ Need(Sleeping(c), s + 1) = Interval + Pass + Spare(s + 1)
  BY <1>2, Needs
<1>6. \/ Need(r, s) = (Pass - r.age) + Spare(s) + 0 /\ r.clean
      \/ Need(r, s) = (Pass - r.age) + Spare(s) + (Interval + Pass)
  <2>1. r.pc # "sleeping"
    OBVIOUS
  <2> QED BY <2>1, Needs
<1>7. s < Misses => Need(Sleeping(c), s + 1) <= Need(r, s)
  <2>1. \/ Need(r, s) = (Pass - r.age) + Spare(s) + 0
        \/ Need(r, s) = (Pass - r.age) + Spare(s) + (Interval + Pass)
    BY <1>6, Zenon
  <2> QED BY <1>1, <1>3, <1>4, <1>5, <2>1, LeaseIsLong
<1>8. ~r.clean => Need(Sleeping(c), s) <= Need(r, s)
  <2>1. ~r.clean => Need(r, s) = (Pass - r.age) + Spare(s) + (Interval + Pass)
    BY <1>6, Zenon
  <2>2. Need(r, s) = (Pass - r.age) + Spare(s) + (Interval + Pass)
           => Need(Sleeping(c), s) <= Need(r, s)
    BY <1>1, <1>3, <1>5, LeaseIsLong
  <2> QED BY <2>1, <2>2, Zenon
<1> QED BY <1>7, <1>8

-----------------------------------------------------------------------------
(***************************************************************************)
(* The rounds under way, and what the other proofs need of them.  A round  *)
(* is unclean once the coordinator has restarted in it.                    *)
(***************************************************************************)
Rounds == {starting} \cup {renewal[l] : l \in Renewal}

Clean(r) == r.pc = "registering" /\ r.clean
Unclean(r) == r.pc = "registering" /\ ~r.clean

\* Which of the rounds that the actions make are clean.
LEMMA CleanRounds ==
  /\ ~Clean(NoRound) /\ ~Unclean(NoRound)
  /\ \A c \in InviteCar :
        /\ ~Clean(Sleeping(c)) /\ ~Unclean(Sleeping(c))
        /\ Clean(Round("registering", c)) /\ ~Unclean(Round("registering", c))
  /\ \A r : WellFormed(r) /\ Registers(r) =>
        (Clean(SeatDone(r)) <=> Clean(r)) /\ (Unclean(SeatDone(r)) <=> Unclean(r))
  /\ \A r : WellFormed(r) /\ InTime(r) =>
        (Clean(AgedRound(r)) <=> Clean(r)) /\ (Unclean(AgedRound(r)) <=> Unclean(r))
  /\ \A r : WellFormed(r) => ~Clean(Shaken(r))
<1>1. ~Clean(NoRound) /\ ~Unclean(NoRound)
  BY NoRoundIsFine DEF Clean, Unclean
<1>2. ASSUME NEW c \in InviteCar
      PROVE  ~Clean(Sleeping(c)) /\ ~Unclean(Sleeping(c))
  BY SleepingIsFine DEF Clean, Unclean
<1>3. ASSUME NEW c \in InviteCar
      PROVE  Clean(Round("registering", c)) /\ ~Unclean(Round("registering", c))
  BY NewRound DEF Clean, Unclean
<1>4. ASSUME NEW r, WellFormed(r), Registers(r)
      PROVE  (Clean(SeatDone(r)) <=> Clean(r)) /\ (Unclean(SeatDone(r)) <=> Unclean(r))
  <2>1. /\ SeatDone(r).pc = r.pc /\ SeatDone(r).clean = r.clean
    BY <1>4, SeatDoneIsFine DEF Registers
  <2> QED BY <2>1, Zenon DEF Clean, Unclean
<1>5. ASSUME NEW r, WellFormed(r), InTime(r)
      PROVE  (Clean(AgedRound(r)) <=> Clean(r)) /\ (Unclean(AgedRound(r)) <=> Unclean(r))
  <2>1. /\ AgedRound(r).pc = r.pc /\ AgedRound(r).clean = r.clean
    BY <1>5, AgedRoundIsFine
  <2> QED BY <2>1, Zenon DEF Clean, Unclean
<1>6. ASSUME NEW r, WellFormed(r)
      PROVE  ~Clean(Shaken(r))
  BY <1>6, ShakenIsFine, Zenon DEF Clean
<1> QED BY <1>1, <1>2, <1>3, <1>4, <1>5, <1>6

\* What may still be needed, for the rounds that the actions make.
LEMMA NeedsOfRounds ==
  ASSUME NEW s \in 0..Misses, NEW r, WellFormed(r)
  PROVE  /\ \A c \in InviteCar : r.pc = "sleeping" =>
               Need(Round("registering", c), s) <= Need(r, s)
         /\ Registers(r) => Need(SeatDone(r), s) = Need(r, s)
         /\ InTime(r) /\ r.pc # "none" => Need(AgedRound(r), s) = Need(r, s) - 1
         /\ s < Misses => Need(r, s + 1) <= Need(r, s)
<1>1. r.wait \in 0..Interval /\ r.age \in 0..Pass /\ r.pc \in {"none", "sleeping", "registering"}
  BY DEF WellFormed, RoundType
<1>2. Spare(s) \in Nat /\ (s < Misses => Spare(s) = Spare(s + 1) + (Interval + Pass))
  BY SpareShrinks
<1>3. s < Misses => Spare(s + 1) \in Nat
  BY SpareShrinks, LeaseIsLong
<1>4. ASSUME NEW c \in InviteCar, r.pc = "sleeping"
      PROVE  Need(Round("registering", c), s) <= Need(r, s)
  <2> DEFINE q == Round("registering", c)
  <2>1. q.pc # "sleeping" /\ q.clean /\ q.age = 0
    BY NewRound
  <2> HIDE DEF q
  <2>2. Need(q, s) = (Pass - q.age) + Spare(s) + 0
    BY <2>1, Needs
  <2>3. Need(r, s) = r.wait + Pass + Spare(s)
    BY <1>4, Needs
  <2>4. Need(q, s) <= Need(r, s)
    BY <1>1, <1>2, <2>1, <2>2, <2>3, LeaseIsLong
  <2> QED BY <2>4 DEF q
<1>5. ASSUME Registers(r)
      PROVE  Need(SeatDone(r), s) = Need(r, s)
  <2>1. SeatDone(r).pc = r.pc /\ SeatDone(r).age = r.age /\ SeatDone(r).clean = r.clean
        /\ r.pc # "sleeping"
    BY <1>5, SeatDoneIsFine DEF Registers
  <2> QED BY <2>1, Zenon DEF Need
<1>6. ASSUME InTime(r), r.pc # "none"
      PROVE  Need(AgedRound(r), s) = Need(r, s) - 1
  <2> DEFINE q == AgedRound(r)
  <2>1. /\ q.pc = r.pc /\ q.clean = r.clean
        /\ r.pc = "registering" => q.age = r.age + 1
        /\ r.pc = "sleeping" => q.wait = r.wait - 1
    BY <1>6, AgedRoundIsFine
  <2> HIDE DEF q
  <2>2. CASE r.pc = "sleeping"
    <3>1. Need(q, s) = q.wait + Pass + Spare(s) /\ Need(r, s) = r.wait + Pass + Spare(s)
      BY <2>1, <2>2, Needs
    <3>2. Need(q, s) = Need(r, s) - 1
      BY <1>1, <1>2, <2>1, <2>2, <3>1, LeaseIsLong
    <3> QED BY <3>2 DEF q
  <2>3. CASE r.pc = "registering"
    <3>1. \/ /\ Need(q, s) = (Pass - q.age) + Spare(s) + 0
             /\ Need(r, s) = (Pass - r.age) + Spare(s) + 0
          \/ /\ Need(q, s) = (Pass - q.age) + Spare(s) + (Interval + Pass)
             /\ Need(r, s) = (Pass - r.age) + Spare(s) + (Interval + Pass)
      <4>1. q.pc # "sleeping" /\ r.pc # "sleeping"
        BY <2>1, <2>3
      <4> QED BY <2>1, <4>1, Needs, Zenon
    <3>2. q.age = r.age + 1
      BY <2>1, <2>3
    <3>3. Need(q, s) = Need(r, s) - 1
      BY <1>1, <1>2, <3>1, <3>2, LeaseIsLong
    <3> QED BY <3>3 DEF q
  <2> QED BY <1>1, <1>6, <2>2, <2>3
<1>7. ASSUME s < Misses
      PROVE  Need(r, s + 1) <= Need(r, s)
  <2>1. \/ /\ Need(r, s) = r.wait + Pass + Spare(s)
           /\ Need(r, s + 1) = r.wait + Pass + Spare(s + 1)
        \/ /\ Need(r, s) = (Pass - r.age) + Spare(s) + 0
           /\ Need(r, s + 1) = (Pass - r.age) + Spare(s + 1) + 0
        \/ /\ Need(r, s) = (Pass - r.age) + Spare(s) + (Interval + Pass)
           /\ Need(r, s + 1) = (Pass - r.age) + Spare(s + 1) + (Interval + Pass)
    BY Needs, Zenon
  <2> QED BY <1>1, <1>2, <1>3, <1>7, <2>1, LeaseIsLong
<1> QED BY <1>4, <1>5, <1>6, <1>7

-----------------------------------------------------------------------------
(***************************************************************************)
(* The inductive invariant.                                                *)
(***************************************************************************)
Typed ==
    /\ lease \in [AllCodes -> 0..Lease]
    /\ outCar \in InviteCar \cup {NoInvites}
    /\ strain \in 0..Misses
    /\ shaken \in BOOLEAN
    /\ off \in [InviteCar -> 0..Lease]
    /\ WellFormed(starting) /\ starting.pc # "sleeping"
    /\ renewal \in [Renewal -> RoundType]
    /\ \A l \in Renewal : WellFormed(renewal[l])

\* What a clean round has registered still lasts.
Lasts(r) ==
    Clean(r) => \A k \in SeatCodes(r.car) \ LeftCodes(r) : lease[k] >= Lease - Pass - r.age

\* A round in which the coordinator restarted is older than the clean ones.
Older(r, q) == Unclean(r) /\ Clean(q) => r.age >= q.age

\* A car is left alone for no longer than a round of it is under way.
Recent(r) == r.pc = "registering" => off[r.car] <= r.age

RoundsInv ==
    /\ \A r \in Rounds : Lasts(r) /\ Recent(r)
    /\ \A r, q \in Rounds : Older(r, q)

\* A car that is out has a loop, and its invites last until each of its loops
\* has renewed them.
Looped(c) == \E l \in Renewal : renewal[l].car = c
Timely(c) == \A l \in Renewal : renewal[l].car = c =>
                \A k \in SeatCodes(c) : lease[k] > Need(renewal[l], strain)
LoopsInv == \A c \in InviteCar : Sharing(c) => Looped(c) /\ (~shaken => Timely(c))

FadingInv ==
    \A c \in InviteCar :
        /\ Attended(c) => off[c] = 0
        /\ \A k \in SeatCodes(c) : lease[k] + off[c] <= Lease

InvitesInv == Typed /\ RoundsInv /\ LoopsInv /\ FadingInv

\* All but time and restarts leaves every invite as it is or renews it.
Lasting ==
    /\ lease' \in [AllCodes -> 0..Lease]
    /\ \A k \in AllCodes : lease'[k] = lease[k] \/ lease'[k] >= Lease - Pass

-----------------------------------------------------------------------------
\* The rounds under way are well-formed.
LEMMA RoundsAreWellFormed ==
  ASSUME Typed
  PROVE  /\ \A r \in Rounds : WellFormed(r) /\ r.age \in 0..Pass
         /\ starting \in Rounds /\ \A l \in Renewal : renewal[l] \in Rounds
<1>1. \A r \in Rounds : WellFormed(r)
  BY DEF Typed, Rounds
<1> QED BY <1>1 DEF WellFormed, RoundType, Rounds

\* What a registration, accepted or not, does to the invites.
LEMMA RegistrationLasts ==
  ASSUME Typed, NEW r, WellFormed(r), Registers(r), Accepted(r) \/ UNCHANGED lease
  PROVE  /\ Lasting
         /\ \A c \in InviteCar : \A k \in SeatCodes(c) :
               lease'[k] = lease[k] \/ (c = r.car /\ lease'[k] = Lease - r.age)
         /\ Accepted(r) => lease'[Head(r.left)] = Lease - r.age
<1>1. r.age \in 0..Pass /\ Pass \in Nat /\ Lease \in Nat /\ Pass <= Lease
  BY LeaseIsLong DEF WellFormed, RoundType
<1>2. Head(r.left) \in SeatCodes(r.car) /\ r.car \in InviteCar /\ Head(r.left) \in AllCodes
  BY SeatDoneIsFine DEF AllCodes
<1>3. \A c \in InviteCar : \A k \in SeatCodes(c) :
         k \in AllCodes /\ (k = Head(r.left) => c = r.car)
  BY <1>2, InvitesAssumption DEF AllCodes
<1>4. lease \in [AllCodes -> 0..Lease]
  BY DEF Typed
<1>5. Lease - r.age \in 0..Lease /\ Lease - r.age >= Lease - Pass
  BY <1>1
<1>6. CASE UNCHANGED lease /\ ~Accepted(r)
  BY <1>3, <1>4, <1>6 DEF Lasting
<1>7. CASE Accepted(r)
  <2>1. lease' = [lease EXCEPT ![Head(r.left)] = Lease - r.age]
    BY <1>7 DEF Accepted, Granted
  <2>2. lease' \in [AllCodes -> 0..Lease]
    BY <1>4, <1>5, <2>1
  <2>3. \A k \in AllCodes : lease'[k] = IF k = Head(r.left) THEN Lease - r.age ELSE lease[k]
    BY <1>4, <2>1
  <2> QED BY <1>2, <1>3, <1>5, <2>2, <2>3 DEF Lasting
<1> QED BY <1>6, <1>7

\* Invites that stay as they are last.
LEMMA StayingLasts ==
  ASSUME Typed, UNCHANGED lease
  PROVE  Lasting
  BY DEF Typed, Lasting

\* When one round changes the others stay as they should be.
LEMMA OneRoundChanges ==
  ASSUME Typed, RoundsInv, Lasting, NEW n, WellFormed(n),
         off' \in [InviteCar -> 0..Lease],
         \A c \in InviteCar : off'[c] <= off[c],
         \A r \in Rounds' : r \in Rounds \/ r = n,
         Lasts(n)', Recent(n)',
         \A r \in Rounds : Older(r, n) /\ Older(n, r)
  PROVE  RoundsInv'
<1>1. ASSUME NEW r \in Rounds PROVE Lasts(r)' /\ Recent(r)'
  <2>1. Lasts(r) /\ Recent(r) /\ WellFormed(r) /\ r.age \in 0..Pass
    BY RoundsAreWellFormed DEF RoundsInv
  <2>2. r.pc = "registering" => r.car \in InviteCar
    BY <2>1 DEF WellFormed, RoundType
  <2>3. Recent(r)'
    <3> SUFFICES ASSUME r.pc = "registering" PROVE off'[r.car] <= r.age
      BY DEF Recent
    <3>1. off[r.car] <= r.age /\ off'[r.car] <= off[r.car]
      BY <2>1, <2>2 DEF Recent
    <3>2. off[r.car] \in 0..Lease /\ off'[r.car] \in 0..Lease /\ r.age \in 0..Pass
      BY <2>1, <2>2 DEF Typed
    <3> QED BY <3>1, <3>2, LeaseIsLong
  <2>4. Lasts(r)'
    <3> SUFFICES ASSUME Clean(r), NEW k \in SeatCodes(r.car) \ LeftCodes(r)
                 PROVE  lease'[k] >= Lease - Pass - r.age
      BY DEF Lasts
    <3>1. k \in AllCodes
      BY <2>2 DEF Clean, AllCodes
    <3>2. lease[k] >= Lease - Pass - r.age
      BY <2>1 DEF Lasts
    <3>3. lease'[k] = lease[k] \/ lease'[k] >= Lease - Pass
      BY <3>1 DEF Lasting
    <3>4. lease[k] \in 0..Lease /\ lease'[k] \in 0..Lease
      BY <3>1 DEF Typed, Lasting
    <3> QED BY <2>1, <3>2, <3>3, <3>4, LeaseIsLong
  <2> QED BY <2>3, <2>4
<1>2. \A r \in Rounds' : Lasts(r)' /\ Recent(r)'
  BY <1>1
<1>3. \A r, q \in Rounds : Older(r, q)
  BY DEF RoundsInv
<1>4. Older(n, n)
  BY DEF Older, Clean, Unclean
<1>5. \A r, q \in Rounds' : Older(r, q)
  BY <1>3, <1>4
<1> QED BY <1>2, <1>5 DEF RoundsInv, Older

\* The rounds that the actions make are as they should be.
LEMMA NewRoundsAreFine ==
  ASSUME Typed, RoundsInv
  PROVE  /\ \A q \in {NoRound} \cup {Sleeping(c) : c \in InviteCar} :
               /\ Lasts(q)' /\ Recent(q)'
               /\ \A r \in Rounds : Older(r, q) /\ Older(q, r)
         /\ \A c \in InviteCar : off'[c] = 0 =>
               LET q == Round("registering", c) IN
               /\ Lasts(q)' /\ Recent(q)'
               /\ \A r \in Rounds : Older(r, q) /\ Older(q, r)
<1>1. ASSUME NEW q \in {NoRound} \cup {Sleeping(c) : c \in InviteCar}
      PROVE  /\ Lasts(q)' /\ Recent(q)'
             /\ \A r \in Rounds : Older(r, q) /\ Older(q, r)
  <2>1. ~Clean(q) /\ ~Unclean(q) /\ q.pc # "registering"
    BY <1>1, CleanRounds, NoRoundIsFine, SleepingIsFine
  <2> QED BY <2>1 DEF Lasts, Recent, Older
<1>2. ASSUME NEW c \in InviteCar, off'[c] = 0
      PROVE  LET q == Round("registering", c) IN
             /\ Lasts(q)' /\ Recent(q)'
             /\ \A r \in Rounds : Older(r, q) /\ Older(q, r)
  <2> DEFINE q == Round("registering", c)
  <2>1. q.car = c /\ LeftCodes(q) = SeatCodes(c) /\ q.age = 0
    BY NewRound
  <2>2. ~Unclean(q)
    BY CleanRounds
  <2>3. \A r \in Rounds : r.age \in Nat
    BY RoundsAreWellFormed, LeaseIsLong
  <2> HIDE DEF q
  <2>4. Lasts(q)'
    BY <2>1 DEF Lasts
  <2>5. Recent(q)'
    BY <1>2, <2>1 DEF Recent
  <2>6. \A r \in Rounds : Older(r, q) /\ Older(q, r)
    BY <2>1, <2>2, <2>3 DEF Older
  <2> QED BY <2>4, <2>5, <2>6 DEF q
<1> QED BY <1>1, <1>2

\* So is a round that has registered one seat more.
LEMMA SeatsAreFine ==
  ASSUME Typed, RoundsInv, NEW r \in Rounds, Registers(r), Accepted(r), UNCHANGED off
  PROVE  /\ Lasts(SeatDone(r))' /\ Recent(SeatDone(r))'
         /\ \A q \in Rounds : Older(q, SeatDone(r)) /\ Older(SeatDone(r), q)
<1> DEFINE n == SeatDone(r)
<1>1. WellFormed(r) /\ Lasts(r) /\ Recent(r) /\ r.pc = "registering" /\ r.age \in 0..Pass
  BY RoundsAreWellFormed DEF RoundsInv, Registers
<1>2. /\ n.pc = "registering" /\ n.car = r.car /\ n.age = r.age
      /\ LeftCodes(r) \subseteq LeftCodes(n) \cup {Head(r.left)}
      /\ Head(r.left) \in SeatCodes(r.car) /\ r.car \in InviteCar
  BY <1>1, SeatDoneIsFine
<1>3. (Clean(n) <=> Clean(r)) /\ (Unclean(n) <=> Unclean(r))
  BY <1>1, CleanRounds
<1>4. Lasting /\ lease'[Head(r.left)] = Lease - r.age
  BY <1>1, RegistrationLasts
<1> HIDE DEF n
<1>5. Lasts(n)'
  <2> SUFFICES ASSUME Clean(n), NEW k \in SeatCodes(n.car) \ LeftCodes(n)
               PROVE  lease'[k] >= Lease - Pass - n.age
    BY DEF Lasts
  <2>1. CASE k = Head(r.left)
    BY <1>1, <1>2, <1>4, <2>1, LeaseIsLong
  <2>2. CASE k # Head(r.left)
    <3>1. k \in SeatCodes(r.car) \ LeftCodes(r) /\ Clean(r) /\ k \in AllCodes
      BY <1>2, <1>3, <2>2 DEF AllCodes
    <3>2. lease[k] >= Lease - Pass - r.age
      BY <1>1, <3>1 DEF Lasts
    <3>3. lease'[k] = lease[k] \/ lease'[k] >= Lease - Pass
      BY <1>4, <3>1 DEF Lasting
    <3>4. lease[k] \in 0..Lease /\ lease'[k] \in 0..Lease
      BY <1>4, <3>1 DEF Typed, Lasting
    <3> QED BY <1>1, <1>2, <3>2, <3>3, <3>4, LeaseIsLong
  <2> QED BY <2>1, <2>2
<1>6. Recent(n)'
  BY <1>1, <1>2 DEF Recent
<1>7. \A q \in Rounds : Older(q, n) /\ Older(n, q)
  <2>1. \A q \in Rounds : Older(q, r) /\ Older(r, q)
    BY DEF RoundsInv
  <2> QED BY <1>2, <1>3, <2>1 DEF Older
<1> QED BY <1>5, <1>6, <1>7 DEF n

-----------------------------------------------------------------------------
\* Types hold in every step.
LEMMA TypedStays ==
  ASSUME Typed, [InvitesNext]_invitesVars
  PROVE  Typed'
<1>1. /\ WellFormed(NoRound) /\ NoRound.pc = "none" /\ NoRound \in RoundType
      /\ \A c \in InviteCar :
            /\ WellFormed(Sleeping(c)) /\ Sleeping(c) \in RoundType
            /\ WellFormed(Round("registering", c)) /\ Round("registering", c) \in RoundType
            /\ Round("registering", c).pc = "registering"
  BY NewRound, NoRoundIsFine, SleepingIsFine DEF WellFormed
<1>2. \A l \in Renewal : renewal[l].pc # "none" => renewal[l].car \in InviteCar
  BY DEF Typed, WellFormed, RoundType
<1>3. starting.pc # "none" => starting.car \in InviteCar
  BY DEF Typed, WellFormed, RoundType
<1>4. ASSUME NEW c \in InviteCar, BeginStart(c) PROVE Typed'
  <2>1. off' \in [InviteCar -> 0..Lease]
    BY <1>4, LeaseIsLong DEF Typed, BeginStart
  <2> QED BY <1>1, <1>4, <2>1 DEF Typed, BeginStart
<1>5. CASE StartRegisters
  <2>1. Lasting /\ WellFormed(SeatDone(starting)) /\ SeatDone(starting).pc = "registering"
    BY <1>5, RegistrationLasts, SeatDoneIsFine DEF StartRegisters, Typed
  <2> QED BY <1>5, <2>1 DEF StartRegisters, Typed, Lasting
<1>6. CASE StartFails
  <2>1. Lasting
    <3>1. CASE starting.left = <<>>
      BY <1>6, <3>1, StayingLasts DEF StartFails
    <3>2. CASE starting.left # <<>>
      BY <1>6, <3>2, RegistrationLasts DEF StartFails, Registers, Refused, Unreached, Typed
    <3> QED BY <3>1, <3>2
  <2> QED BY <1>1, <1>6, <2>1 DEF StartFails, Typed, Lasting
<1>7. CASE CarIsOut
  <2>1. PICK l \in Renewal : renewal' = [renewal EXCEPT ![l] = Sleeping(starting.car)]
    BY <1>7 DEF CarIsOut
  <2>2. starting.car \in InviteCar
    BY <1>3, <1>7 DEF CarIsOut
  <2>3. renewal' \in [Renewal -> RoundType] /\ \A m \in Renewal : WellFormed(renewal'[m])
    BY <1>1, <2>1, <2>2 DEF Typed
  <2>4. shaken' \in BOOLEAN
    BY <1>7, Zenon DEF CarIsOut
  <2>5. strain' \in 0..Misses
    BY <1>7, LeaseIsLong DEF CarIsOut
  <2> QED BY <1>1, <1>7, <2>2, <2>3, <2>4, <2>5 DEF CarIsOut, Typed
<1>8. CASE StopCar
  BY <1>8 DEF StopCar, Typed
<1>9. CASE TimeIsUp
  BY <1>9 DEF TimeIsUp, Typed
<1>10. ASSUME NEW l \in Renewal, LoopWakes(l) PROVE Typed'
  BY <1>1, <1>2, <1>10 DEF LoopWakes, Typed
<1>11. ASSUME NEW l \in Renewal, LoopRegisters(l) PROVE Typed'
  <2>1. Lasting /\ WellFormed(SeatDone(renewal[l])) /\ SeatDone(renewal[l]) \in RoundType
    BY <1>11, RegistrationLasts, SeatDoneIsFine DEF LoopRegisters, Typed, WellFormed
  <2> QED BY <1>11, <2>1 DEF LoopRegisters, Typed, Lasting
<1>12. ASSUME NEW l \in Renewal, LoopDone(l) PROVE Typed'
  <2>1. renewal[l].car \in InviteCar
    BY <1>2, <1>12 DEF LoopDone
  <2>2. renewal' \in [Renewal -> RoundType] /\ \A m \in Renewal : WellFormed(renewal'[m])
    BY <1>1, <1>12, <2>1 DEF Typed, LoopDone
  <2>3. (strain' = 0 \/ strain' = strain) /\ (shaken' = FALSE \/ shaken' = shaken)
    BY <1>12, Zenon DEF LoopDone
  <2>4. strain' \in 0..Misses
    BY <2>3, LeaseIsLong DEF Typed
  <2>5. shaken' \in BOOLEAN
    BY <2>3, Zenon DEF Typed
  <2> QED BY <1>12, <2>2, <2>4, <2>5 DEF LoopDone, Typed
<1>13. ASSUME NEW l \in Renewal, RenewalFails(l) PROVE Typed'
  <2>1. renewal[l].car \in InviteCar
    BY <1>2, <1>13 DEF RenewalFails, Registers
  <2>2. renewal' \in [Renewal -> RoundType] /\ \A m \in Renewal : WellFormed(renewal'[m])
    BY <1>1, <1>13, <2>1 DEF Typed, RenewalFails, AfterFailure
  <2>3. Lasting
    BY <1>13, RegistrationLasts DEF RenewalFails, Refused, Unreached, Typed
  <2>4. strain' \in 0..Misses
    BY <1>13, LeaseIsLong DEF RenewalFails, Typed
  <2>5. shaken' \in BOOLEAN
    BY <1>13, Zenon DEF RenewalFails, Typed
  <2> QED BY <1>13, <2>2, <2>3, <2>4, <2>5 DEF RenewalFails, Typed, Lasting
<1>14. CASE InviteTick
  <2>1. lease' \in [AllCodes -> 0..Lease]
    BY <1>14, LeaseIsLong DEF InviteTick, Typed
  <2>2. off' \in [InviteCar -> 0..Lease]
    BY <1>14, LeaseIsLong DEF InviteTick, Typed
  <2>3. WellFormed(AgedRound(starting)) /\ AgedRound(starting).pc # "sleeping"
    BY <1>14, AgedRoundIsFine DEF InviteTick, Typed
  <2>4. \A l \in Renewal : WellFormed(AgedRound(renewal[l])) /\ AgedRound(renewal[l]) \in RoundType
    BY <1>14, AgedRoundIsFine DEF InviteTick, Typed, WellFormed
  <2> QED BY <1>14, <2>1, <2>2, <2>3, <2>4 DEF InviteTick, Typed
<1>15. CASE CoordinatorRestarts
  <2>1. WellFormed(Shaken(starting)) /\ Shaken(starting).pc # "sleeping"
    BY ShakenIsFine DEF Typed
  <2>2. \A l \in Renewal : WellFormed(Shaken(renewal[l])) /\ Shaken(renewal[l]) \in RoundType
    BY ShakenIsFine DEF Typed, WellFormed
  <2> QED BY <1>15, <2>1, <2>2, LeaseIsLong DEF CoordinatorRestarts, Typed
<1>16. CASE HostDies
  BY <1>1, <1>16 DEF HostDies, Typed
<1>17. CASE UNCHANGED invitesVars
  BY <1>17 DEF invitesVars, Typed
<1> QED
  BY <1>4, <1>5, <1>6, <1>7, <1>8, <1>9, <1>10, <1>11, <1>12, <1>13, <1>14, <1>15, <1>16, <1>17
     DEF InvitesNext

-----------------------------------------------------------------------------
\* A round at work, with the room that the invariant leaves it.
LEMMA RoundsStay ==
  ASSUME Typed, RoundsInv, FadingInv, [InvitesNext]_invitesVars
  PROVE  RoundsInv'
<1>1. Typed'
  BY TypedStays
<1>2. off \in [InviteCar -> 0..Lease] /\ off' \in [InviteCar -> 0..Lease]
  BY <1>1 DEF Typed
<1>3. UNCHANGED off => \A c \in InviteCar : off'[c] <= off[c]
  BY <1>2, LeaseIsLong
<1>4. /\ \A l \in Renewal : renewal[l].pc # "none" => renewal[l].car \in InviteCar
      /\ starting.pc # "none" => starting.car \in InviteCar
  BY DEF Typed, WellFormed, RoundType
<1>5. /\ WellFormed(NoRound) /\ \A c \in InviteCar : WellFormed(Sleeping(c))
      /\ \A c \in InviteCar : WellFormed(Round("registering", c))
  BY NewRound, NoRoundIsFine, SleepingIsFine
<1>6. ASSUME NEW c \in InviteCar, BeginStart(c) PROVE RoundsInv'
  <2> DEFINE n == Round("registering", c)
  <2>1. off'[c] = 0 /\ \A d \in InviteCar : off'[d] <= off[d]
    BY <1>2, <1>6, LeaseIsLong DEF BeginStart
  <2>2. \A r \in Rounds' : r \in Rounds \/ r = n
    BY <1>6 DEF BeginStart, Rounds
  <2>3. Lasting
    BY <1>6, StayingLasts DEF BeginStart
  <2>4. Lasts(n)' /\ Recent(n)' /\ \A r \in Rounds : Older(r, n) /\ Older(n, r)
    BY <2>1, NewRoundsAreFine
  <2>5. WellFormed(n)
    BY <1>5
  <2> HIDE DEF n
  <2> QED BY <1>2, <2>1, <2>2, <2>3, <2>4, <2>5, OneRoundChanges
<1>7. ASSUME NEW q \in {NoRound} \cup {Sleeping(c) : c \in InviteCar}, Lasting, UNCHANGED off,
             \A r \in Rounds' : r \in Rounds \/ r = q
      PROVE  RoundsInv'
  <2>1. Lasts(q)' /\ Recent(q)' /\ \A r \in Rounds : Older(r, q) /\ Older(q, r)
    BY <1>7, NewRoundsAreFine
  <2>2. WellFormed(q)
    BY <1>5, <1>7
  <2> QED BY <1>2, <1>3, <1>7, <2>1, <2>2, OneRoundChanges
<1>8. ASSUME NEW r \in Rounds, Registers(r), Accepted(r), UNCHANGED off,
             \A q \in Rounds' : q \in Rounds \/ q = SeatDone(r)
      PROVE  RoundsInv'
  <2>1. WellFormed(r)
    BY RoundsAreWellFormed
  <2>2. Lasting /\ WellFormed(SeatDone(r))
    BY <1>8, <2>1, RegistrationLasts, SeatDoneIsFine
  <2>3. /\ Lasts(SeatDone(r))' /\ Recent(SeatDone(r))'
        /\ \A q \in Rounds : Older(q, SeatDone(r)) /\ Older(SeatDone(r), q)
    BY <1>8, SeatsAreFine
  <2> QED BY <1>2, <1>3, <1>8, <2>2, <2>3, OneRoundChanges
<1>9. CASE StartRegisters
  <2>1. \A q \in Rounds' : q \in Rounds \/ q = SeatDone(starting)
    BY <1>9 DEF StartRegisters, Rounds
  <2> QED BY <1>8, <1>9, <2>1, RoundsAreWellFormed DEF StartRegisters
<1>10. CASE StartFails
  <2>1. Lasting
    <3>1. CASE starting.left = <<>>
      BY <1>10, <3>1, StayingLasts DEF StartFails
    <3>2. CASE starting.left # <<>>
      BY <1>10, <3>2, RegistrationLasts DEF StartFails, Registers, Refused, Unreached, Typed
    <3> QED BY <3>1, <3>2
  <2>2. \A q \in Rounds' : q \in Rounds \/ q = NoRound
    BY <1>10 DEF StartFails, Rounds
  <2>3. UNCHANGED off
    BY <1>10 DEF StartFails
  <2> QED BY <1>7, <2>1, <2>2, <2>3
<1>11. CASE CarIsOut
  <2>1. Lasting /\ UNCHANGED off
    BY <1>11, StayingLasts DEF CarIsOut
  <2>2. PICK l \in Renewal : renewal' = [renewal EXCEPT ![l] = Sleeping(starting.car)]
    BY <1>11 DEF CarIsOut
  <2>3. starting.car \in InviteCar
    BY <1>4, <1>11 DEF CarIsOut
  <2>4. \A r \in Rounds' : r \in Rounds \/ r = Sleeping(starting.car) \/ r = NoRound
    BY <1>11, <2>2 DEF CarIsOut, Rounds, Typed
  <2>5. /\ \A r \in Rounds' : Lasts(r)' /\ Recent(r)'
        /\ \A r, q \in Rounds' : Older(r, q)
    <3>1. \A r \in Rounds : Lasts(r)' /\ Recent(r)'
      BY <1>11 DEF CarIsOut, RoundsInv, Lasts, Recent
    <3>2. \A q \in {NoRound, Sleeping(starting.car)} :
             /\ Lasts(q)' /\ Recent(q)'
             /\ \A r \in Rounds : Older(r, q) /\ Older(q, r)
      BY <2>3, NewRoundsAreFine
    <3>3. \A r, q \in {NoRound, Sleeping(starting.car)} : Older(r, q)
      BY <2>3, CleanRounds DEF Older
    <3>4. \A r, q \in Rounds : Older(r, q)
      BY DEF RoundsInv
    <3> QED BY <2>4, <3>1, <3>2, <3>3, <3>4
  <2> QED BY <2>5 DEF RoundsInv, Older
<1>12. ASSUME UNCHANGED <<lease, starting, renewal, off>> PROVE RoundsInv'
  BY <1>12 DEF RoundsInv, Rounds, Lasts, Recent, Older
<1>13. CASE StopCar \/ TimeIsUp \/ UNCHANGED invitesVars
  BY <1>12, <1>13 DEF StopCar, TimeIsUp, invitesVars
<1>13a. ASSUME NEW c \in InviteCar, Lasting, UNCHANGED off, off'[c] = 0,
              \A r \in Rounds' : r \in Rounds \/ r = Round("registering", c)
       PROVE  RoundsInv'
  <2> DEFINE n == Round("registering", c)
  <2>1. Lasts(n)' /\ Recent(n)' /\ \A r \in Rounds : Older(r, n) /\ Older(n, r)
    BY <1>13a, NewRoundsAreFine
  <2>2. WellFormed(n) /\ \A r \in Rounds' : r \in Rounds \/ r = n
    BY <1>5, <1>13a
  <2> HIDE DEF n
  <2> QED BY <1>2, <1>3, <1>13a, <2>1, <2>2, OneRoundChanges
<1>14. ASSUME NEW l \in Renewal, LoopWakes(l) PROVE RoundsInv'
  <2> DEFINE c == renewal[l].car
  <2>1. c \in InviteCar /\ Lasting /\ UNCHANGED off
    BY <1>4, <1>14, StayingLasts DEF LoopWakes
  <2>2. CASE Sharing(c)
    <3>1. \A r \in Rounds' : r \in Rounds \/ r = Round("registering", c)
      BY <1>14, <2>2 DEF LoopWakes, Rounds, Typed
    <3>2. off'[c] = 0
      BY <2>1, <2>2 DEF FadingInv, Attended
    <3> QED BY <1>13a, <2>1, <3>1, <3>2
  <2>3. CASE ~Sharing(c)
    <3>1. \A r \in Rounds' : r \in Rounds \/ r = NoRound
      BY <1>14, <2>3 DEF LoopWakes, Rounds, Typed
    <3> QED BY <1>7, <2>1, <3>1
  <2> QED BY <2>2, <2>3
<1>15. ASSUME NEW l \in Renewal, LoopRegisters(l) PROVE RoundsInv'
  <2>1. \A q \in Rounds' : q \in Rounds \/ q = SeatDone(renewal[l])
    BY <1>15 DEF LoopRegisters, Rounds, Typed
  <2> QED BY <1>8, <1>15, <2>1, RoundsAreWellFormed DEF LoopRegisters
<1>16. ASSUME NEW l \in Renewal, LoopDone(l) \/ RenewalFails(l) PROVE RoundsInv'
  <2>1. renewal[l].car \in InviteCar /\ UNCHANGED off
    BY <1>4, <1>16 DEF LoopDone, RenewalFails, Registers
  <2>2. Lasting
    <3>1. CASE LoopDone(l)
      BY <3>1, StayingLasts DEF LoopDone
    <3>2. CASE RenewalFails(l)
      BY <3>2, RegistrationLasts DEF RenewalFails, Refused, Unreached, Typed
    <3> QED BY <1>16, <3>1, <3>2
  <2>3. \A q \in Rounds' : q \in Rounds \/ q = Sleeping(renewal[l].car)
    BY <1>16 DEF LoopDone, RenewalFails, AfterFailure, Rounds, Typed
  <2> QED BY <1>7, <2>1, <2>2, <2>3
<1>17. CASE InviteTick
  <2>1. ASSUME NEW q \in Rounds' PROVE \E r \in Rounds : q = AgedRound(r)
    BY <1>17 DEF InviteTick, Rounds
  <2>2. ASSUME NEW r \in Rounds
        PROVE  /\ WellFormed(r) /\ r.age \in 0..Pass
               /\ LET q == AgedRound(r) IN
                  /\ q.pc = r.pc /\ q.car = r.car /\ LeftCodes(q) = LeftCodes(r)
                  /\ (Clean(q) <=> Clean(r)) /\ (Unclean(q) <=> Unclean(r))
                  /\ r.pc = "registering" => q.age = r.age + 1 /\ r.car \in InviteCar
    <3>1. WellFormed(r) /\ InTime(r) /\ r.age \in 0..Pass
      BY <1>17, RoundsAreWellFormed DEF InviteTick, Rounds
    <3>2. r.pc = "registering" => r.car \in InviteCar
      BY <3>1 DEF WellFormed, RoundType
    <3> QED BY <3>1, <3>2, AgedRoundIsFine, CleanRounds
  <2>3. ASSUME NEW r \in Rounds PROVE Lasts(AgedRound(r))'
    <3> DEFINE q == AgedRound(r)
    <3> SUFFICES ASSUME Clean(q), NEW k \in SeatCodes(q.car) \ LeftCodes(q)
                 PROVE  lease'[k] >= Lease - Pass - q.age
      BY DEF Lasts
    <3>1. Clean(r) /\ k \in SeatCodes(r.car) \ LeftCodes(r) /\ r.age \in 0..Pass
      BY <2>2
    <3>2. q.age = r.age + 1 /\ r.car \in InviteCar
      BY <2>2, <3>1 DEF Clean
    <3> HIDE DEF q
    <3>3. k \in AllCodes
      BY <3>1, <3>2 DEF AllCodes
    <3>4. lease[k] >= Lease - Pass - r.age
      BY <3>1 DEF RoundsInv, Lasts
    <3>5. lease[k] \in 0..Lease /\ lease'[k] = IF lease[k] > 0 THEN lease[k] - 1 ELSE 0
      BY <1>17, <3>3 DEF InviteTick, Typed
    <3> QED BY <3>1, <3>2, <3>4, <3>5, LeaseIsLong
  <2>4. ASSUME NEW r \in Rounds PROVE Recent(AgedRound(r))'
    <3> DEFINE q == AgedRound(r)
    <3> SUFFICES ASSUME q.pc = "registering" PROVE off'[q.car] <= q.age
      BY DEF Recent
    <3>1. q.age = r.age + 1 /\ q.car = r.car /\ r.car \in InviteCar /\ r.pc = "registering"
      BY <2>2
    <3> HIDE DEF q
    <3>2. off[r.car] <= r.age
      BY <3>1 DEF RoundsInv, Recent
    <3>3. off'[r.car] = off[r.car] \/ off'[r.car] = off[r.car] + 1
      BY <1>17, <3>1 DEF InviteTick
    <3>4. off[r.car] \in Nat /\ r.age \in Nat
      BY <1>2, <2>2, <3>1, LeaseIsLong
    <3> QED BY <3>1, <3>2, <3>3, <3>4
  <2>5. ASSUME NEW r \in Rounds, NEW q \in Rounds PROVE Older(AgedRound(r), AgedRound(q))
    <3> SUFFICES ASSUME Unclean(AgedRound(r)), Clean(AgedRound(q))
                 PROVE  AgedRound(r).age >= AgedRound(q).age
      BY DEF Older
    <3>1. Unclean(r) /\ Clean(q)
      BY <2>2
    <3>2. AgedRound(r).age = r.age + 1 /\ AgedRound(q).age = q.age + 1
      BY <2>2, <3>1 DEF Clean, Unclean
    <3>3. r.age >= q.age
      BY <3>1 DEF RoundsInv, Older
    <3>4. r.age \in Nat /\ q.age \in Nat
      BY <2>2, LeaseIsLong
    <3> QED BY <3>2, <3>3, <3>4
  <2>6. \A r \in Rounds' : Lasts(r)' /\ Recent(r)'
    BY <2>1, <2>3, <2>4
  <2>7. \A r, q \in Rounds' : Older(r, q)
    BY <2>1, <2>5
  <2> QED BY <2>6, <2>7 DEF RoundsInv, Older
<1>18. CASE CoordinatorRestarts
  <2>1. ASSUME NEW q \in Rounds' PROVE \E r \in Rounds : q = Shaken(r)
    BY <1>18 DEF CoordinatorRestarts, Rounds
  <2>2. ASSUME NEW r \in Rounds
        PROVE  ~Clean(Shaken(r)) /\ Shaken(r).pc = r.pc /\ Shaken(r).car = r.car
               /\ Shaken(r).age = r.age
    BY RoundsAreWellFormed, ShakenIsFine, CleanRounds
  <2>3. \A r \in Rounds' : ~Clean(r) /\ Recent(r)'
    <3>1. \A r \in Rounds : Recent(r)
      BY DEF RoundsInv
    <3>2. UNCHANGED off
      BY <1>18 DEF CoordinatorRestarts
    <3> QED BY <2>1, <2>2, <3>1, <3>2 DEF Recent
  <2> QED BY <2>3 DEF RoundsInv, Lasts, Older
<1>19. CASE HostDies
  <2>1. \A q \in Rounds' : q \in Rounds \/ q = NoRound
    BY <1>19 DEF HostDies, Rounds
  <2>2. Lasting /\ UNCHANGED off
    BY <1>19, StayingLasts DEF HostDies
  <2> QED BY <1>7, <2>1, <2>2
<1> QED
  BY <1>6, <1>9, <1>10, <1>11, <1>13, <1>14, <1>15, <1>16, <1>17, <1>18, <1>19 DEF InvitesNext

-----------------------------------------------------------------------------
\* As long as the invites last, the loops of a car that is out keep being in
\* time, if no loop of it needs more than it did.
LEMMA LoopsLast ==
  ASSUME Typed, Typed', LoopsInv, Lasting, NEW c \in InviteCar, Sharing(c), ~shaken,
         \A l \in Renewal : renewal'[l].car = c =>
            \E r \in {renewal[m] : m \in Renewal} :
               r.car = c /\ Need(renewal'[l], strain') <= Need(r, strain)
  PROVE  Timely(c)'
<1> SUFFICES ASSUME NEW l \in Renewal, renewal'[l].car = c, NEW k \in SeatCodes(c)
             PROVE  lease'[k] > Need(renewal'[l], strain')
  BY DEF Timely
<1>1. PICK m \in Renewal : renewal[m].car = c /\ Need(renewal'[l], strain') <= Need(renewal[m], strain)
  OBVIOUS
<1>2. lease[k] > Need(renewal[m], strain)
  BY <1>1 DEF LoopsInv, Timely
<1>3. k \in AllCodes
  BY DEF AllCodes
<1>4. lease'[k] = lease[k] \/ lease'[k] >= Lease - Pass
  BY <1>3 DEF Lasting
<1>5. Need(renewal'[l], strain') \in Nat /\ Need(renewal'[l], strain') < Lease - Pass
  <2>1. WellFormed(renewal'[l]) /\ strain' \in 0..Misses
    BY DEF Typed
  <2> QED BY <2>1, NeedIsMet
<1>6. Need(renewal[m], strain) \in Nat
  <2>1. WellFormed(renewal[m]) /\ strain \in 0..Misses
    BY DEF Typed
  <2> QED BY <2>1, NeedIsMet
<1>7. lease[k] \in Nat /\ lease'[k] \in Nat
  BY <1>3, LeaseIsLong DEF Typed
<1> QED BY <1>1, <1>2, <1>4, <1>5, <1>6, <1>7, LeaseIsLong

\* The invites of a car that is out are all there, so none is refused.
LEMMA NoneIsRefused ==
  ASSUME Typed, LoopsInv, NEW r, WellFormed(r), Registers(r), Sharing(r.car), ~shaken
  PROVE  ~Refused(r)
<1> DEFINE k == Head(r.left)
<1>1. k \in SeatCodes(r.car) /\ r.car \in InviteCar
  BY SeatDoneIsFine
<1>2. PICK l \in Renewal : renewal[l].car = r.car
  BY <1>1 DEF LoopsInv, Looped
<1>3. lease[k] > Need(renewal[l], strain)
  BY <1>1, <1>2 DEF LoopsInv, Timely
<1>4. Need(renewal[l], strain) \in Nat
  <2>1. WellFormed(renewal[l]) /\ strain \in 0..Misses
    BY DEF Typed
  <2> QED BY <2>1, NeedIsMet
<1>5. k \in AllCodes /\ lease[k] \in Nat
  BY <1>1, LeaseIsLong DEF Typed, AllCodes
<1>6. k \in Registered
  BY <1>3, <1>4, <1>5 DEF Registered
<1> QED BY <1>6 DEF Refused, Takes

\* A clean round that has registered all of its car makes every loop be in time.
LEMMA CleanRoundSuffices ==
  ASSUME Typed, RoundsInv, NEW r \in Rounds, Clean(r), r.left = <<>>, r.car \in InviteCar,
         NEW q, WellFormed(q), q.pc # "none", q \in Rounds \/ ~Unclean(q),
         NEW k \in SeatCodes(r.car)
  PROVE  lease[k] > Need(q, 0)
<1>1. WellFormed(r) /\ r.age \in 0..Pass
  BY RoundsAreWellFormed
<1>2. (q.pc = "registering" /\ ~q.clean) => q.age >= r.age
  <2>1. CASE q \in Rounds
    BY <2>1 DEF RoundsInv, Older, Unclean
  <2>2. CASE ~Unclean(q)
    BY <2>2, Zenon DEF Unclean
  <2> QED BY <2>1, <2>2
<1>3. Need(q, 0) < Lease - Pass - r.age
  BY <1>1, <1>2, CleanRoundIsEnough
<1>4. LeftCodes(r) = {}
  BY DEF LeftCodes
<1>5. lease[k] >= Lease - Pass - r.age
  BY <1>4 DEF RoundsInv, Lasts
<1>6. k \in AllCodes /\ lease[k] \in Nat
  BY LeaseIsLong DEF Typed, AllCodes
<1>7. Need(q, 0) \in Nat
  <2>1. 0 \in 0..Misses
    BY LeaseIsLong
  <2> QED BY <2>1, NeedIsMet
<1> QED BY <1>1, <1>3, <1>5, <1>6, <1>7, LeaseIsLong

\* The loops of the car that is out stay in time.
LEMMA LoopsStay ==
  ASSUME Typed, RoundsInv, LoopsInv, [InvitesNext]_invitesVars
  PROVE  LoopsInv'
<1>1. Typed'
  BY TypedStays
<1>2. /\ \A l \in Renewal : renewal[l].pc # "none" => renewal[l].car \in InviteCar
      /\ \A l \in Renewal : renewal[l].pc = "none" => renewal[l].car \notin InviteCar
      /\ starting.pc # "none" => starting.car \in InviteCar
  BY InvitesAssumption DEF Typed, WellFormed, RoundType
<1>3. /\ NoRound.car = NoInvites
      /\ \A c \in InviteCar : /\ Sleeping(c).car = c /\ WellFormed(Sleeping(c))
                              /\ Sleeping(c).pc = "sleeping"
                              /\ Round("registering", c).car = c
  BY NewRound, NoRoundIsFine, SleepingIsFine
<1>4. NoInvites \notin InviteCar
  BY InvitesAssumption
<1>5. \A r : WellFormed(r) => Need(r, strain) \in Nat
  <2>1. strain \in 0..Misses
    BY DEF Typed
  <2> QED BY <2>1, NeedIsMet
\* Actions that leave the loops and the counts of failures alone.
<1>6. ASSUME Lasting, UNCHANGED <<renewal, strain, shaken>>,
             \A c \in InviteCar : Sharing(c)' => Sharing(c)
      PROVE  LoopsInv'
  <2> SUFFICES ASSUME NEW c \in InviteCar, Sharing(c)'
               PROVE  Looped(c)' /\ (~shaken' => Timely(c)')
    BY DEF LoopsInv
  <2>1. Looped(c) /\ Sharing(c)
    BY <1>6 DEF LoopsInv
  <2>2. Looped(c)'
    BY <1>6, <2>1 DEF Looped
  <2>3. ASSUME ~shaken' PROVE Timely(c)'
    <3>1. \A l \in Renewal : Need(renewal[l], strain) \in Nat
      BY <1>5 DEF Typed
    <3>2. \A l \in Renewal : Need(renewal'[l], strain') <= Need(renewal[l], strain)
      BY <1>6, <3>1
    <3> QED BY <1>1, <1>6, <2>1, <2>3, <3>2, LoopsLast
  <2> QED BY <2>2, <2>3
<1>7. ASSUME NEW c \in InviteCar, BeginStart(c) PROVE LoopsInv'
  BY <1>6, <1>7, StayingLasts DEF BeginStart, Sharing
<1>8. CASE StartRegisters
  <2>1. Lasting
    BY <1>8, RegistrationLasts DEF StartRegisters, Typed
  <2> QED BY <1>6, <1>8, <2>1 DEF StartRegisters, Sharing
<1>9. CASE StartFails
  <2>1. Lasting
    <3>1. CASE starting.left = <<>>
      BY <1>9, <3>1, StayingLasts DEF StartFails
    <3>2. CASE starting.left # <<>>
      BY <1>9, <3>2, RegistrationLasts DEF StartFails, Registers, Refused, Unreached, Typed
    <3> QED BY <3>1, <3>2
  <2> QED BY <1>6, <1>9, <2>1 DEF StartFails, Sharing
<1>10. CASE CarIsOut
  <2> DEFINE c == starting.car
  <2>1. c \in InviteCar /\ outCar' = c /\ starting.pc = "registering" /\ starting.left = <<>>
        /\ strain' = 0 /\ UNCHANGED lease
    BY <1>2, <1>10 DEF CarIsOut
  <2>2. PICK l \in Renewal : renewal' = [renewal EXCEPT ![l] = Sleeping(starting.car)]
    BY <1>10 DEF CarIsOut
  <2>3. \A d \in InviteCar : Sharing(d)' => d = c
    BY <2>1 DEF Sharing
  <2>4. renewal'[l] = Sleeping(c) /\ \A m \in Renewal : m # l => renewal'[m] = renewal[m]
    BY <2>2 DEF Typed
  <2>5. renewal'[l].car = c
    BY <1>3, <2>1, <2>4
  <2>6. ASSUME ~shaken', NEW m \in Renewal, renewal'[m].car = c, NEW k \in SeatCodes(c)
        PROVE  lease'[k] > Need(renewal'[m], 0)
    <3>1. starting \in Rounds /\ Clean(starting)
      BY <1>10, <2>1, <2>6, Zenon DEF CarIsOut, Clean, Rounds
    <3>2. WellFormed(renewal'[m]) /\ renewal'[m].pc # "none"
      BY <1>1, <1>4, <2>1, <2>6 DEF Typed, WellFormed
    <3>3. renewal'[m] \in Rounds \/ ~Unclean(renewal'[m])
      BY <2>1, <2>4, CleanRounds, RoundsAreWellFormed
    <3> QED BY <2>1, <2>6, <3>1, <3>2, <3>3, CleanRoundSuffices
  <2>7. \A d \in InviteCar : Sharing(d)' =>
           /\ \E m \in Renewal : renewal'[m].car = d
           /\ ~shaken' => \A m \in Renewal : renewal'[m].car = d =>
                             \A k \in SeatCodes(d) : lease'[k] > Need(renewal'[m], strain')
    BY <2>1, <2>3, <2>5, <2>6
  <2> QED BY <2>7 DEF LoopsInv, Looped, Timely
<1>11. CASE StopCar
  BY <1>6, <1>11, <1>4, StayingLasts DEF StopCar, Sharing
<1>12. CASE TimeIsUp
  BY <1>6, <1>12, StayingLasts DEF TimeIsUp, Sharing
\* One loop changes and needs no more than before, or its car is no longer out.
<1>13. ASSUME NEW l \in Renewal, NEW q, renewal' = [renewal EXCEPT ![l] = q],
              Lasting, UNCHANGED <<outCar, timeUp>>, strain' \in 0..Misses,
              q.car = renewal[l].car \/ (~Sharing(renewal[l].car) /\ q.car = NoInvites),
              \A c \in InviteCar : Sharing(c) /\ ~shaken' =>
                 /\ ~shaken
                 /\ \A r : WellFormed(r) => Need(r, strain') <= Need(r, strain)
                 /\ q.car = c => Need(q, strain') <= Need(renewal[l], strain)
       PROVE  LoopsInv'
  <2> SUFFICES ASSUME NEW c \in InviteCar, Sharing(c)'
               PROVE  Looped(c)' /\ (~shaken' => Timely(c)')
    BY DEF LoopsInv
  <2>1. Sharing(c) /\ Looped(c)
    BY <1>13 DEF Sharing, LoopsInv
  <2>2. renewal'[l] = q /\ \A m \in Renewal : m # l => renewal'[m] = renewal[m]
    BY <1>13 DEF Typed
  <2>3. Looped(c)'
    BY <1>13, <2>1, <2>2 DEF Looped
  <2>4. ASSUME ~shaken' PROVE Timely(c)'
    <3>1. ASSUME NEW m \in Renewal, renewal'[m].car = c
          PROVE  renewal[m].car = c /\ Need(renewal'[m], strain') <= Need(renewal[m], strain)
      <4>1. CASE m = l
        BY <1>4, <1>13, <2>1, <2>2, <2>4, <3>1, <4>1
      <4>2. CASE m # l
        <5>1. WellFormed(renewal[m]) /\ renewal'[m] = renewal[m]
          BY <2>2, <4>2 DEF Typed
        <5> QED BY <1>13, <2>1, <2>4, <3>1, <5>1
      <4> QED BY <4>1, <4>2
    <3>2. ~shaken
      BY <1>13, <2>1, <2>4
    <3> QED BY <1>1, <1>13, <2>1, <3>1, <3>2, LoopsLast
  <2> QED BY <2>3, <2>4
<1>14. ASSUME UNCHANGED strain
       PROVE  strain' \in 0..Misses /\ \A r : WellFormed(r) => Need(r, strain') <= Need(r, strain)
  <2>1. \A r : WellFormed(r) => Need(r, strain) <= Need(r, strain)
    BY <1>5
  <2> QED BY <1>14, <2>1 DEF Typed
\* The same without a change of the counts of failures.
<1>14a. ASSUME NEW l \in Renewal, NEW q, renewal' = [renewal EXCEPT ![l] = q],
               Lasting, UNCHANGED <<outCar, timeUp, strain, shaken>>,
               q.car = renewal[l].car \/ (~Sharing(renewal[l].car) /\ q.car = NoInvites),
               \A c \in InviteCar : Sharing(c) /\ ~shaken /\ q.car = c =>
                  Need(q, strain) <= Need(renewal[l], strain)
        PROVE  LoopsInv'
  <2>1. ~shaken' => ~shaken
    BY <1>14a, Zenon
  <2>2. /\ strain' \in 0..Misses /\ strain' = strain
        /\ \A r : WellFormed(r) => Need(r, strain') <= Need(r, strain)
    BY <1>14, <1>14a
  <2>3. \A c \in InviteCar : Sharing(c) /\ ~shaken' =>
           /\ ~shaken
           /\ \A r : WellFormed(r) => Need(r, strain') <= Need(r, strain)
           /\ q.car = c => Need(q, strain') <= Need(renewal[l], strain)
    BY <1>14a, <2>1, <2>2
  <2> QED BY <1>13, <1>14a, <2>2, <2>3
<1>15. ASSUME NEW l \in Renewal, LoopWakes(l) PROVE LoopsInv'
  <2> DEFINE c == renewal[l].car
  <2>1. c \in InviteCar /\ WellFormed(renewal[l]) /\ renewal[l].pc = "sleeping"
    BY <1>2, <1>15 DEF LoopWakes, Typed
  <2>2. UNCHANGED <<lease, outCar, timeUp, strain, shaken>> /\ Lasting
    BY <1>15, StayingLasts DEF LoopWakes
  <2>3. CASE Sharing(c)
    <3>1. renewal' = [renewal EXCEPT ![l] = Round("registering", c)]
      BY <1>15, <2>3 DEF LoopWakes
    <3>2. Need(Round("registering", c), strain) <= Need(renewal[l], strain)
      BY <2>1, NeedsOfRounds DEF Typed
    <3> HIDE DEF c
    <3> QED BY <1>3, <1>14a, <2>1, <2>2, <3>1, <3>2 DEF c
  <2>4. CASE ~Sharing(c)
    <3>1. renewal' = [renewal EXCEPT ![l] = NoRound]
      BY <1>15, <2>4 DEF LoopWakes
    <3> QED BY <1>3, <1>4, <1>14a, <2>1, <2>2, <2>4, <3>1
  <2> QED BY <2>3, <2>4
<1>16. ASSUME NEW l \in Renewal, LoopRegisters(l) PROVE LoopsInv'
  <2>1. WellFormed(renewal[l]) /\ Registers(renewal[l]) /\ Accepted(renewal[l])
        /\ UNCHANGED <<outCar, timeUp, strain, shaken>>
        /\ renewal' = [renewal EXCEPT ![l] = SeatDone(renewal[l])]
    BY <1>16 DEF LoopRegisters, Typed
  <2>2. Lasting /\ SeatDone(renewal[l]).car = renewal[l].car
    BY <2>1, RegistrationLasts, SeatDoneIsFine
  <2>3. Need(SeatDone(renewal[l]), strain) = Need(renewal[l], strain)
    BY <2>1, NeedsOfRounds DEF Typed
  <2>4. Need(SeatDone(renewal[l]), strain) <= Need(renewal[l], strain)
    BY <1>5, <2>1, <2>3
  <2> QED BY <1>14a, <2>1, <2>2, <2>4
<1>17. ASSUME NEW l \in Renewal, LoopDone(l) PROVE LoopsInv'
  <2> DEFINE c == renewal[l].car
  <2>1. /\ c \in InviteCar /\ WellFormed(renewal[l]) /\ renewal[l].pc = "registering"
        /\ renewal[l].left = <<>> /\ renewal' = [renewal EXCEPT ![l] = Sleeping(c)]
        /\ UNCHANGED <<lease, outCar, timeUp>> /\ Lasting
    BY <1>2, <1>17, StayingLasts DEF LoopDone, Typed
  <2>2. CASE outCar = c /\ renewal[l].clean
    <3>1. strain' = 0
      BY <1>17, <2>2 DEF LoopDone
    <3>2. \A d \in InviteCar : Sharing(d)' => d = c /\ Sharing(d)
      BY <2>1, <2>2 DEF Sharing
    <3>3. renewal'[l] = Sleeping(c) /\ \A m \in Renewal : m # l => renewal'[m] = renewal[m]
      BY <2>1 DEF Typed
    <3>4. renewal'[l].car = c
      BY <1>3, <2>1, <3>3
    <3>5. ASSUME NEW m \in Renewal, renewal'[m].car = c, NEW k \in SeatCodes(c)
          PROVE  lease'[k] > Need(renewal'[m], 0)
      <4>1. renewal[l] \in Rounds /\ Clean(renewal[l])
        BY <2>1, <2>2, Zenon DEF Clean, Rounds
      <4>2. WellFormed(renewal'[m]) /\ renewal'[m].pc # "none"
        BY <1>1, <1>4, <2>1, <3>5 DEF Typed, WellFormed
      <4>3. renewal'[m] \in Rounds \/ ~Unclean(renewal'[m])
        BY <2>1, <3>3, CleanRounds, RoundsAreWellFormed
      <4> QED BY <2>1, <3>5, <4>1, <4>2, <4>3, CleanRoundSuffices
    <3>6. \A d \in InviteCar : Sharing(d)' =>
             /\ \E m \in Renewal : renewal'[m].car = d
             /\ ~shaken' => \A m \in Renewal : renewal'[m].car = d =>
                               \A k \in SeatCodes(d) : lease'[k] > Need(renewal'[m], strain')
      BY <3>1, <3>2, <3>4, <3>5
    <3> QED BY <3>6 DEF LoopsInv, Looped, Timely
  <2>3. CASE ~(outCar = c /\ renewal[l].clean)
    <3>1. UNCHANGED <<strain, shaken>>
      BY <1>17, <2>3, Zenon DEF LoopDone
    <3>2. \A d \in InviteCar : Sharing(d) /\ c = d => ~renewal[l].clean
      BY <2>3, Zenon DEF Sharing
    <3>3. ~renewal[l].clean => Need(Sleeping(c), strain) <= Need(renewal[l], strain)
      BY <2>1, FailureIsCovered DEF Typed
    <3>4. Sleeping(c).car = c
      BY <1>3, <2>1
    <3>5. \A d \in InviteCar : Sharing(d) /\ ~shaken' =>
             /\ ~shaken
             /\ \A r : WellFormed(r) => Need(r, strain') <= Need(r, strain)
             /\ Sleeping(c).car = d => Need(Sleeping(c), strain') <= Need(renewal[l], strain)
      BY <1>14, <3>1, <3>2, <3>3, <3>4
    <3>6. strain' \in 0..Misses
      BY <1>14, <3>1
    <3> HIDE DEF c
    <3> QED BY <1>13, <2>1, <3>4, <3>5, <3>6 DEF c
  <2> QED BY <2>2, <2>3
<1>18. ASSUME NEW l \in Renewal, RenewalFails(l) PROVE LoopsInv'
  <2> DEFINE c == renewal[l].car
  <2>1. /\ c \in InviteCar /\ WellFormed(renewal[l]) /\ renewal[l].pc = "registering"
        /\ Registers(renewal[l]) /\ renewal' = [renewal EXCEPT ![l] = Sleeping(c)]
        /\ UNCHANGED <<outCar, timeUp>> /\ Sleeping(c).car = c
    BY <1>2, <1>3, <1>18 DEF RenewalFails, Registers, AfterFailure, Typed
  <2>2. Lasting
    BY <1>18, <2>1, RegistrationLasts DEF RenewalFails, Refused, Unreached
  <2>3. CASE UNCHANGED <<strain, shaken>> /\ outCar # c
    <3>1. \A d \in InviteCar : Sharing(d) => d # c
      BY <2>3 DEF Sharing
    <3> HIDE DEF c
    <3> QED BY <1>14a, <2>1, <2>2, <2>3, <3>1 DEF c
  <2>4. CASE Refused(renewal[l]) /\ UNCHANGED <<strain, shaken>>
    <3>1. \A d \in InviteCar : Sharing(d) /\ ~shaken => d # c
      BY <2>1, <2>4, NoneIsRefused
    <3> HIDE DEF c
    <3> QED BY <1>14a, <2>1, <2>2, <2>4, <3>1 DEF c
  <2>5. CASE /\ strain' = IF strain < Misses THEN strain + 1 ELSE strain
             /\ shaken' = (shaken \/ strain = Misses)
    <3>1. strain \in 0..Misses
      BY DEF Typed
    <3>2. strain' \in 0..Misses
      BY <1>1 DEF Typed
    <3>3. ~shaken' => ~shaken /\ strain # Misses
      BY <2>5, Zenon
    <3>4. ~shaken' => strain < Misses /\ strain' = strain + 1
      BY <2>5, <3>1, <3>3, LeaseIsLong
    <3>5. ~shaken' => \A r : WellFormed(r) => Need(r, strain') <= Need(r, strain)
      BY <3>1, <3>4, NeedsOfRounds
    <3>6. ~shaken' => Need(Sleeping(c), strain') <= Need(renewal[l], strain)
      BY <2>1, <3>1, <3>4, FailureIsCovered
    <3> HIDE DEF c
    <3> QED BY <1>13, <2>1, <2>2, <3>2, <3>3, <3>5, <3>6 DEF c
  <2> QED BY <1>18, <2>3, <2>4, <2>5 DEF RenewalFails
<1>19. CASE InviteTick
  <2>1. /\ renewal' = [l \in Renewal |-> AgedRound(renewal[l])]
        /\ \A l \in Renewal : InTime(renewal[l])
        /\ UNCHANGED <<outCar, timeUp, strain, shaken>>
        /\ lease' = [code \in AllCodes |-> IF lease[code] > 0 THEN lease[code] - 1 ELSE 0]
    BY <1>19 DEF InviteTick
  <2> SUFFICES ASSUME NEW c \in InviteCar, Sharing(c)'
               PROVE  Looped(c)' /\ (~shaken' => Timely(c)')
    BY DEF LoopsInv
  <2>2. Sharing(c) /\ Looped(c)
    BY <2>1 DEF Sharing, LoopsInv
  <2>3. \A l \in Renewal : WellFormed(renewal[l]) /\ renewal'[l] = AgedRound(renewal[l])
                           /\ renewal'[l].car = renewal[l].car
    BY <2>1, AgedRoundIsFine DEF Typed
  <2>4. Looped(c)'
    BY <2>2, <2>3 DEF Looped
  <2>5. ASSUME ~shaken' PROVE Timely(c)'
    <3> SUFFICES ASSUME NEW l \in Renewal, renewal'[l].car = c, NEW k \in SeatCodes(c)
                 PROVE  lease'[k] > Need(renewal'[l], strain')
      BY DEF Timely
    <3>1. renewal[l].car = c /\ renewal[l].pc # "none" /\ strain \in 0..Misses
      BY <1>2, <2>3 DEF Typed
    <3>2. lease[k] > Need(renewal[l], strain)
      BY <2>1, <2>2, <2>5, <3>1 DEF LoopsInv, Timely
    <3>3. Need(renewal'[l], strain') = Need(renewal[l], strain) - 1
      BY <2>1, <2>3, <3>1, NeedsOfRounds
    <3>4. Need(renewal[l], strain) \in Nat
      BY <2>3, <3>1, NeedIsMet
    <3>5. k \in AllCodes /\ lease[k] \in Nat
      BY LeaseIsLong DEF Typed, AllCodes
    <3>6. lease'[k] = lease[k] - 1
      BY <2>1, <3>2, <3>4, <3>5
    <3> QED BY <3>2, <3>3, <3>4, <3>5, <3>6
  <2> QED BY <2>4, <2>5
<1>20. CASE CoordinatorRestarts
  <2>1. /\ shaken' = TRUE /\ UNCHANGED <<outCar, timeUp>>
        /\ renewal' = [l \in Renewal |-> Shaken(renewal[l])]
    BY <1>20 DEF CoordinatorRestarts
  <2>2. \A l \in Renewal : renewal'[l].car = renewal[l].car
    BY <2>1, ShakenIsFine DEF Typed
  <2>3. \A c \in InviteCar : Sharing(c)' => Looped(c)'
    BY <2>1, <2>2 DEF LoopsInv, Looped, Sharing
  <2> QED BY <2>1, <2>3 DEF LoopsInv
<1>21. CASE HostDies
  BY <1>4, <1>21 DEF HostDies, LoopsInv, Sharing
<1>22. CASE UNCHANGED invitesVars
  BY <1>6, <1>22, StayingLasts DEF invitesVars, Sharing
<1> QED
  BY <1>7, <1>8, <1>9, <1>10, <1>11, <1>12, <1>15, <1>16, <1>17, <1>18, <1>19, <1>20, <1>21, <1>22
     DEF InvitesNext

-----------------------------------------------------------------------------
\* What is registered for a car is no older than the time it was last attended.
LEMMA FadingStays ==
  ASSUME Typed, RoundsInv, FadingInv, [InvitesNext]_invitesVars
  PROVE  FadingInv'
<1>1. Typed'
  BY TypedStays
<1>2. /\ \A k \in AllCodes : lease[k] \in 0..Lease /\ lease'[k] \in 0..Lease
      /\ \A c \in InviteCar : off[c] \in 0..Lease /\ off'[c] \in 0..Lease
      /\ \A c \in InviteCar : \A k \in SeatCodes(c) : k \in AllCodes
  BY <1>1 DEF Typed, AllCodes
<1>3. /\ NoRound.car = NoInvites /\ NoInvites \notin InviteCar
      /\ \A c \in InviteCar : Round("registering", c).car = c
  BY NewRound, NoRoundIsFine, InvitesAssumption
<1>4. \A r \in Rounds : Registers(r) =>
         /\ WellFormed(r) /\ r.car \in InviteCar
         /\ off[r.car] <= r.age /\ r.age \in 0..Pass
         /\ SeatDone(r).car = r.car
  <2> SUFFICES ASSUME NEW r \in Rounds, Registers(r)
               PROVE  /\ WellFormed(r) /\ r.car \in InviteCar
                      /\ off[r.car] <= r.age /\ r.age \in 0..Pass
                      /\ SeatDone(r).car = r.car
    OBVIOUS
  <2>1. WellFormed(r) /\ r.age \in 0..Pass /\ Recent(r)
    BY RoundsAreWellFormed DEF RoundsInv
  <2> QED BY <2>1, SeatDoneIsFine DEF Recent, Registers
\* The invites stay, or one of a round under way is registered.
<1>5. ASSUME \/ UNCHANGED lease
             \/ \E r \in Rounds : Registers(r) /\ (Accepted(r) \/ UNCHANGED lease),
             UNCHANGED off,
             \A c \in InviteCar : Attended(c)' => Attended(c)
      PROVE  FadingInv'
  <2> SUFFICES ASSUME NEW c \in InviteCar
               PROVE  /\ Attended(c)' => off'[c] = 0
                      /\ \A k \in SeatCodes(c) : lease'[k] + off'[c] <= Lease
    BY DEF FadingInv
  <2>1. (Attended(c) => off[c] = 0) /\ off'[c] = off[c]
        /\ \A k \in SeatCodes(c) : lease[k] + off[c] <= Lease
    BY <1>5 DEF FadingInv
  <2>2. Attended(c)' => off'[c] = 0
    BY <1>5, <2>1
  <2>3. CASE UNCHANGED lease
    BY <2>1, <2>2, <2>3
  <2>4. ASSUME NEW r \in Rounds, Registers(r), Accepted(r) \/ UNCHANGED lease, NEW k \in SeatCodes(c)
        PROVE  lease'[k] + off'[c] <= Lease
    <3>1. lease'[k] = lease[k] \/ (c = r.car /\ lease'[k] = Lease - r.age)
      BY <1>4, <2>4, RegistrationLasts
    <3>2. CASE lease'[k] = lease[k]
      BY <2>1, <3>2
    <3>3. CASE c = r.car /\ lease'[k] = Lease - r.age
      <4>1. off[c] <= r.age /\ r.age \in Nat /\ off[c] \in Nat
        BY <1>2, <1>4, <2>4, <3>3, LeaseIsLong
      <4> QED BY <2>1, <3>3, <4>1, LeaseIsLong
    <3> QED BY <3>1, <3>2, <3>3
  <2> QED BY <1>5, <2>2, <2>3, <2>4
<1>6. ASSUME NEW c \in InviteCar, BeginStart(c) PROVE FadingInv'
  <2>1. /\ UNCHANGED <<lease, outCar, timeUp>> /\ starting = NoRound
        /\ starting' = Round("registering", c)
        /\ off'[c] = 0 /\ \A d \in InviteCar : d # c => off'[d] = off[d]
    BY <1>6 DEF BeginStart, Typed
  <2>2. \A d \in InviteCar : Attended(d)' => d = c \/ Attended(d)
    BY <1>3, <2>1 DEF Attended, Sharing
  <2>3. \A d \in InviteCar : Attended(d)' => off'[d] = 0
    BY <2>1, <2>2 DEF FadingInv
  <2>4. ASSUME NEW d \in InviteCar, NEW k \in SeatCodes(d)
        PROVE  lease'[k] + off'[d] <= Lease
    <3>1. lease[k] + off[d] <= Lease /\ lease[k] \in 0..Lease
      BY <1>2 DEF FadingInv
    <3> QED BY <2>1, <3>1, LeaseIsLong
  <2> QED BY <2>3, <2>4 DEF FadingInv
<1>7. CASE StartRegisters
  <2>1. UNCHANGED <<off, outCar, timeUp>> /\ starting' = SeatDone(starting)
        /\ Registers(starting) /\ Accepted(starting)
    BY <1>7 DEF StartRegisters
  <2>2. starting'.car = starting.car
    BY <1>4, <2>1, RoundsAreWellFormed
  <2> QED BY <1>5, <2>1, <2>2, RoundsAreWellFormed DEF Attended, Sharing
<1>8. CASE StartFails
  <2>1. UNCHANGED <<off, outCar, timeUp>> /\ starting'.car = NoInvites
    BY <1>3, <1>8 DEF StartFails
  <2>2. UNCHANGED lease \/ (Registers(starting) /\ (Accepted(starting) \/ UNCHANGED lease))
    BY <1>8 DEF StartFails, Refused, Unreached, Registers
  <2> QED BY <1>3, <1>5, <2>1, <2>2, RoundsAreWellFormed DEF Attended, Sharing
<1>9. CASE CarIsOut
  <2>1. UNCHANGED <<lease, off, timeUp>> /\ starting' = NoRound /\ outCar' = starting.car
    BY <1>9 DEF CarIsOut
  <2> QED BY <1>3, <1>5, <2>1 DEF Attended, Sharing
<1>10. CASE StopCar
  BY <1>3, <1>5, <1>10 DEF StopCar, Attended, Sharing
<1>11. CASE TimeIsUp
  BY <1>5, <1>11 DEF TimeIsUp, Attended, Sharing
<1>12. ASSUME NEW l \in Renewal, LoopWakes(l) \/ LoopDone(l) PROVE FadingInv'
  BY <1>5, <1>12 DEF LoopWakes, LoopDone, Attended, Sharing
<1>13. ASSUME NEW l \in Renewal, LoopRegisters(l) \/ RenewalFails(l) PROVE FadingInv'
  <2>1. UNCHANGED <<off, outCar, timeUp, starting>>
        /\ Registers(renewal[l]) /\ (Accepted(renewal[l]) \/ UNCHANGED lease)
    BY <1>13 DEF LoopRegisters, RenewalFails, Refused, Unreached
  <2> QED BY <1>5, <2>1, RoundsAreWellFormed DEF Attended, Sharing
<1>14. CASE InviteTick
  <2> SUFFICES ASSUME NEW c \in InviteCar
               PROVE  /\ Attended(c)' => off'[c] = 0
                      /\ \A k \in SeatCodes(c) : lease'[k] + off'[c] <= Lease
    BY DEF FadingInv
  <2>1. /\ UNCHANGED <<outCar, timeUp>> /\ starting'.car = starting.car
        /\ off'[c] = IF Attended(c) \/ off[c] = Lease THEN off[c] ELSE off[c] + 1
    BY <1>14, AgedRoundIsFine DEF InviteTick, Typed
  <2>2. Attended(c)' <=> Attended(c)
    BY <2>1 DEF Attended, Sharing
  <2>3. Attended(c)' => off'[c] = 0
    BY <2>1, <2>2 DEF FadingInv
  <2>4. ASSUME NEW k \in SeatCodes(c) PROVE lease'[k] + off'[c] <= Lease
    <3>1. lease'[k] = IF lease[k] > 0 THEN lease[k] - 1 ELSE 0
      BY <1>2, <1>14 DEF InviteTick
    <3>2. lease[k] \in 0..Lease /\ off[c] \in 0..Lease /\ lease[k] + off[c] <= Lease
      BY <1>2 DEF FadingInv
    <3>3. off'[c] = off[c] \/ (off[c] # Lease /\ off'[c] = off[c] + 1)
      BY <2>1
    <3> QED BY <3>1, <3>2, <3>3, LeaseIsLong
  <2> QED BY <2>3, <2>4
<1>15. CASE CoordinatorRestarts
  <2> SUFFICES ASSUME NEW c \in InviteCar
               PROVE  /\ Attended(c)' => off'[c] = 0
                      /\ \A k \in SeatCodes(c) : lease'[k] + off'[c] <= Lease
    BY DEF FadingInv
  <2>1. UNCHANGED <<outCar, timeUp, off>> /\ starting'.car = starting.car
    BY <1>15, ShakenIsFine DEF CoordinatorRestarts, Typed
  <2>2. Attended(c)' => off'[c] = 0
    BY <2>1 DEF Attended, Sharing, FadingInv
  <2>3. \A k \in SeatCodes(c) : lease'[k] = 0
    BY <1>2, <1>15 DEF CoordinatorRestarts
  <2> QED BY <1>2, <2>2, <2>3, LeaseIsLong
<1>16. CASE HostDies
  <2>1. UNCHANGED <<lease, off>> /\ outCar' = NoInvites /\ starting' = NoRound
    BY <1>16 DEF HostDies
  <2> QED BY <1>3, <1>5, <2>1 DEF Attended, Sharing
<1>17. CASE UNCHANGED invitesVars
  BY <1>5, <1>17 DEF invitesVars, Attended, Sharing
<1> QED
  BY <1>6, <1>7, <1>8, <1>9, <1>10, <1>11, <1>12, <1>13, <1>14, <1>15, <1>16, <1>17
     DEF InvitesNext

-----------------------------------------------------------------------------
\* Nothing is out and nothing is registered at first.
LEMMA InvitesBegin ==
  InvitesInit => InvitesInv
<1> SUFFICES ASSUME InvitesInit PROVE InvitesInv
  OBVIOUS
<1>1. /\ WellFormed(NoRound) /\ NoRound.pc = "none" /\ NoRound.car = NoInvites
      /\ NoRound \in RoundType /\ ~Clean(NoRound) /\ ~Unclean(NoRound)
  BY NoRoundIsFine, CleanRounds DEF WellFormed
<1>2. NoInvites \notin InviteCar /\ \A c \in InviteCar : \A k \in SeatCodes(c) : k \in AllCodes
  BY InvitesAssumption DEF AllCodes
<1>3. Typed
  <2>1. lease \in [AllCodes -> 0..Lease] /\ off \in [InviteCar -> 0..Lease] /\ strain \in 0..Misses
    BY LeaseIsLong DEF InvitesInit
  <2>2. outCar \in InviteCar \cup {NoInvites} /\ shaken \in BOOLEAN
    BY DEF InvitesInit
  <2>3. renewal \in [Renewal -> RoundType] /\ \A l \in Renewal : renewal[l] = NoRound
    BY <1>1 DEF InvitesInit
  <2>4. WellFormed(starting) /\ starting.pc # "sleeping"
    BY <1>1 DEF InvitesInit
  <2> QED BY <1>1, <2>1, <2>2, <2>3, <2>4 DEF Typed
<1>4. RoundsInv
  <2>1. \A r \in Rounds : r = NoRound
    BY DEF InvitesInit, Rounds
  <2>2. \A r \in Rounds : ~Clean(r) /\ ~Unclean(r) /\ r.pc # "registering"
    BY <1>1, <2>1
  <2> QED BY <2>2 DEF RoundsInv, Lasts, Recent, Older
<1>5. LoopsInv
  BY <1>2 DEF InvitesInit, LoopsInv, Sharing
<1>6. FadingInv
  BY <1>1, <1>2, LeaseIsLong DEF InvitesInit, FadingInv, Attended, Sharing
<1> QED BY <1>3, <1>4, <1>5, <1>6 DEF InvitesInv

\* In every state that the invariant allows, the car that is out is found and
\* those that are left alone fade.
LEMMA InvitesInvIsEnough ==
  InvitesInv => InvitesAreTrue
<1> SUFFICES ASSUME InvitesInv PROVE InvitesAreTrue
  OBVIOUS
<1>1. RunningCarIsFound
  <2> SUFFICES ASSUME NEW c \in InviteCar, Sharing(c), ~shaken, NEW code \in SeatCodes(c)
               PROVE  lease[code] > 0
    BY DEF RunningCarIsFound
  <2>1. PICK l \in Renewal : renewal[l].car = c
    BY DEF InvitesInv, LoopsInv, Looped
  <2>2. lease[code] > Need(renewal[l], strain)
    BY <2>1 DEF InvitesInv, LoopsInv, Timely
  <2>3. Need(renewal[l], strain) \in Nat
    <3>1. WellFormed(renewal[l]) /\ strain \in 0..Misses
      BY DEF InvitesInv, Typed
    <3> QED BY <3>1, NeedIsMet
  <2>4. lease[code] \in Nat
    BY LeaseIsLong DEF InvitesInv, Typed, AllCodes
  <2> QED BY <2>2, <2>3, <2>4
<1>2. AbandonedCarFades
  BY DEF AbandonedCarFades, InvitesInv, FadingInv
<1> QED BY <1>1, <1>2 DEF InvitesAreTrue

\* A car that is out can be looked up by all its codes as long as no more
\* renewals in a row fail than allowed for, and within one lease after nobody
\* looks after a car any more its codes are gone (commands.rs 692-780 and
\* 2208-2232, server.js 367-400): for all times that satisfy InvitesAssumption.
THEOREM InvitesHold == InvitesSpec => []InvitesAreTrue
<1>1. InvitesInv /\ [InvitesNext]_invitesVars => InvitesInv'
  BY TypedStays, RoundsStay, LoopsStay, FadingStays DEF InvitesInv
<1> QED BY <1>1, InvitesBegin, InvitesInvIsEnough, PTL DEF InvitesSpec

\* What the types say beyond the inductive invariant: the coordinator holds a number of
\* the owner's invites that its quota allows, and every car was begun before it went out.
Fitting ==
    /\ IsFiniteSet(Registered) /\ Cardinality(Registered) <= OwnerQuota
    /\ outCar \in begun \cup {NoInvites}
    /\ begun \subseteq InviteCar /\ timeUp \subseteq begun
    /\ starting.pc # "none" => starting.car \in begun

\* An invite that is not there takes the last place at most.
LEMMA QuotaIsKept ==
  ASSUME Typed, Fitting,
         \/ \A k \in AllCodes : lease'[k] > 0 => lease[k] > 0
         \/ \E r : WellFormed(r) /\ Registers(r) /\ Accepted(r)
  PROVE  IsFiniteSet(Registered') /\ Cardinality(Registered') <= OwnerQuota
<1>1. IsFiniteSet(Registered) /\ Cardinality(Registered) \in Nat /\ Cardinality(Registered) <= OwnerQuota
  BY FS_CardinalityType DEF Fitting
<1>2. OwnerQuota \in Nat
  BY InvitesAssumption
<1>3. ASSUME Registered' \subseteq Registered
      PROVE  IsFiniteSet(Registered') /\ Cardinality(Registered') <= OwnerQuota
  <2> DEFINE fewer == Registered'
  <2>1. fewer \subseteq Registered
    BY <1>3
  <2> HIDE DEF fewer
  <2>2. IsFiniteSet(fewer) /\ Cardinality(fewer) <= Cardinality(Registered) /\ Cardinality(fewer) \in Nat
    BY <1>1, <2>1, FS_Subset, FS_CardinalityType
  <2>3. IsFiniteSet(fewer) /\ Cardinality(fewer) <= OwnerQuota
    BY <1>1, <1>2, <2>2
  <2> QED BY <2>3 DEF fewer
<1>4. CASE \A k \in AllCodes : lease'[k] > 0 => lease[k] > 0
  BY <1>3, <1>4 DEF Registered
<1>5. ASSUME NEW r, WellFormed(r), Registers(r), Accepted(r)
      PROVE  IsFiniteSet(Registered') /\ Cardinality(Registered') <= OwnerQuota
  <2> DEFINE code == Head(r.left)
             more == Registered'
  <2>1. Takes(code) /\ lease' = [lease EXCEPT ![code] = Granted(r)]
    BY <1>5 DEF Accepted
  <2>2. \A k \in AllCodes : k # code => lease'[k] = lease[k]
    BY <2>1 DEF Typed
  <2> HIDE DEF code
  <2>3. CASE code \in Registered
    <3>1. Registered' \subseteq Registered
      BY <2>2, <2>3 DEF Registered
    <3> QED BY <1>3, <3>1
  <2>4. CASE code \notin Registered
    <3>1. more \subseteq Registered \cup {code}
      BY <2>2 DEF Registered
    <3>2. Cardinality(Registered) < OwnerQuota
      BY <2>1, <2>4 DEF Takes
    <3> HIDE DEF more
    <3>3. IsFiniteSet(Registered \cup {code}) /\ Cardinality(Registered \cup {code}) = Cardinality(Registered) + 1
      BY <1>1, <2>4, FS_AddElement
    <3>4. IsFiniteSet(more) /\ Cardinality(more) <= Cardinality(Registered \cup {code}) /\ Cardinality(more) \in Nat
      BY <3>1, <3>3, FS_Subset, FS_CardinalityType
    <3>5. IsFiniteSet(more) /\ Cardinality(more) <= OwnerQuota
      BY <1>1, <1>2, <3>2, <3>3, <3>4
    <3> QED BY <3>5 DEF more
  <2> QED BY <2>3, <2>4
<1> QED BY <1>4, <1>5

\* A step starts no car that was not begun.
LEMMA BegunStays ==
  ASSUME Typed, Fitting, [InvitesNext]_invitesVars
  PROVE  /\ outCar' \in begun' \cup {NoInvites}
         /\ begun' \subseteq InviteCar /\ timeUp' \subseteq begun'
         /\ starting'.pc # "none" => starting'.car \in begun'
<1>1. NoRound.pc = "none"
  BY NoRoundIsFine
<1>2. starting.pc # "none" => starting.car \in InviteCar
  BY DEF Typed, WellFormed, RoundType
<1>3. ASSUME NEW c \in InviteCar, BeginStart(c)
      PROVE  starting'.car = c /\ begun' = begun \cup {c} /\ UNCHANGED <<outCar, timeUp>>
  BY <1>3 DEF BeginStart, Round
<1>4. CASE StartRegisters
  <2>1. WellFormed(SeatDone(starting)) /\ SeatDone(starting).car = starting.car
        /\ starting.pc = "registering" /\ starting' = SeatDone(starting) /\ UNCHANGED <<outCar, begun, timeUp>>
    BY <1>4, SeatDoneIsFine DEF StartRegisters, Typed, Registers
  <2> QED BY <2>1 DEF Fitting
<1>5. CASE InviteTick
  <2>1. AgedRound(starting).car = starting.car /\ AgedRound(starting).pc = starting.pc
    BY <1>5, AgedRoundIsFine DEF InviteTick, Typed
  <2> QED BY <1>5, <2>1 DEF InviteTick, Fitting
<1>6. CASE CoordinatorRestarts
  <2>1. Shaken(starting).car = starting.car /\ Shaken(starting).pc = starting.pc
    BY ShakenIsFine DEF Typed
  <2> QED BY <1>6, <2>1 DEF CoordinatorRestarts, Fitting
<1>7. CASE StartFails \/ StopCar \/ HostDies
  <2>1. /\ outCar' \in {outCar, NoInvites} /\ starting' \in {starting, NoRound}
        /\ UNCHANGED <<begun, timeUp>>
    BY <1>7 DEF StartFails, StopCar, HostDies
  <2> QED BY <1>1, <2>1 DEF Fitting
<1>8. CASE CarIsOut
  <2>1. outCar' = starting.car /\ starting.pc # "none" /\ starting' = NoRound /\ UNCHANGED <<begun, timeUp>>
    BY <1>8 DEF CarIsOut
  <2> QED BY <1>1, <2>1 DEF Fitting
<1>9. CASE TimeIsUp
  <2>1. outCar \in InviteCar /\ timeUp' = timeUp \cup {outCar} /\ UNCHANGED <<begun, outCar, starting>>
    BY <1>9 DEF TimeIsUp
  <2> QED BY <2>1, InvitesAssumption DEF Fitting
<1>10. ASSUME NEW l \in Renewal, LoopWakes(l) \/ LoopRegisters(l) \/ LoopDone(l) \/ RenewalFails(l)
      PROVE  UNCHANGED <<outCar, begun, timeUp, starting>>
  BY <1>10 DEF LoopWakes, LoopRegisters, LoopDone, RenewalFails
<1>11. CASE UNCHANGED invitesVars
  BY <1>11 DEF invitesVars, Fitting
<1> QED BY <1>3, <1>4, <1>5, <1>6, <1>7, <1>8, <1>9, <1>10, <1>11 DEF InvitesNext, Fitting

\* A step registers at most one invite.
LEMMA OneInvite ==
  ASSUME Typed, [InvitesNext]_invitesVars
  PROVE  \/ \A k \in AllCodes : lease'[k] > 0 => lease[k] > 0
         \/ \E r : WellFormed(r) /\ Registers(r) /\ Accepted(r)
<1> DEFINE Held == \A k \in AllCodes : lease'[k] > 0 => lease[k] > 0
<1>1. CASE UNCHANGED lease
  BY <1>1
<1>2. WellFormed(starting) /\ \A l \in Renewal : WellFormed(renewal[l])
  BY DEF Typed
<1>3. CASE InviteTick
  <2>1. lease' = [code \in AllCodes |-> IF lease[code] > 0 THEN lease[code] - 1 ELSE 0]
    BY <1>3 DEF InviteTick
  <2>2. Held
    BY <2>1
  <2> QED BY <2>2
<1>4. CASE CoordinatorRestarts
  <2>1. lease' = [code \in AllCodes |-> 0]
    BY <1>4 DEF CoordinatorRestarts
  <2>2. Held
    BY <2>1
  <2> QED BY <2>2
<1>5. CASE StartRegisters
  BY <1>2, <1>5 DEF StartRegisters
<1>6. CASE StartFails
  <2>1. UNCHANGED lease \/ (Registers(starting) /\ Accepted(starting))
    BY <1>6 DEF StartFails, Refused, Unreached, Registers
  <2> QED BY <1>1, <1>2, <2>1
<1>7. ASSUME NEW l \in Renewal, LoopRegisters(l) \/ RenewalFails(l)
      PROVE  UNCHANGED lease \/ (Registers(renewal[l]) /\ Accepted(renewal[l]))
  BY <1>7 DEF LoopRegisters, RenewalFails, Refused, Unreached
<1>8. CASE \E l \in Renewal : LoopRegisters(l) \/ RenewalFails(l)
  <2>1. PICK l \in Renewal : LoopRegisters(l) \/ RenewalFails(l)
    BY <1>8
  <2>2. UNCHANGED lease \/ (Registers(renewal[l]) /\ Accepted(renewal[l]))
    BY <1>7, <2>1
  <2> QED BY <1>1, <1>2, <2>1, <2>2
<1>9. ASSUME \/ \E c \in InviteCar : BeginStart(c)
             \/ CarIsOut \/ StopCar \/ TimeIsUp \/ HostDies
             \/ \E l \in Renewal : LoopWakes(l) \/ LoopDone(l)
             \/ UNCHANGED invitesVars
      PROVE  UNCHANGED lease
  BY <1>9 DEF BeginStart, CarIsOut, StopCar, TimeIsUp, HostDies, LoopWakes, LoopDone, invitesVars
<1> HIDE DEF Held
<1> QED BY <1>1, <1>3, <1>4, <1>5, <1>6, <1>8, <1>9 DEF InvitesNext

\* The invites' types, and no owner has more of them than the coordinator allows
\* (MAX_INVITES_PER_OWNER), for any quota.
LEMMA InvitesStayTyped == InvitesSpec => []InvitesTypeOK
<1>1. InvitesInit => Typed /\ Fitting
  <2> SUFFICES ASSUME InvitesInit PROVE Typed /\ Fitting
    OBVIOUS
  <2>1. Typed
    BY InvitesBegin DEF InvitesInv
  <2>2. Registered = {} /\ NoRound.pc = "none"
    BY NoRoundIsFine DEF InvitesInit, Registered
  <2>3. IsFiniteSet(Registered) /\ Cardinality(Registered) = 0
    BY <2>2, FS_EmptySet
  <2> QED BY <2>1, <2>2, <2>3, InvitesAssumption DEF InvitesInit, Fitting
<1>2. Typed /\ Fitting /\ [InvitesNext]_invitesVars => (Typed /\ Fitting)'
  <2> SUFFICES ASSUME Typed, Fitting, [InvitesNext]_invitesVars PROVE Typed' /\ Fitting'
    OBVIOUS
  <2>1. IsFiniteSet(Registered') /\ Cardinality(Registered') <= OwnerQuota
    BY OneInvite, QuotaIsKept
  <2> QED BY <2>1, TypedStays, BegunStays DEF Fitting
<1>3. Typed /\ Fitting => InvitesTypeOK
  BY DEF Typed, Fitting, InvitesTypeOK
<1> QED BY <1>1, <1>2, <1>3, PTL DEF InvitesSpec

-----------------------------------------------------------------------------
(***************************************************************************)
(* Metering. The inductive invariant has two halves. Of the requests: one  *)
(* that was admitted, not before the time on its stamp, is too old by now  *)
(* or still remembered. Of the books: the summaries and the rolling        *)
(* windows are sums over the history, and the windows agree with it from   *)
(* any time on that the longest of them can still reach.                   *)
(***************************************************************************)

\* A request that was admitted cannot be admitted once more: a copy that is not
\* too old finds its id.
OnceOnly ==
  \A r \in Metered \ ahead :
    \/ served[r] = 0
    \/ /\ served[r] = 1 /\ stamp[r] # Never
       /\ \/ stamp[r] + Ttl < clock
          \/ seen[r] # Never /\ stamp[r] <= seen[r]

RequestsInv ==
  /\ clock \in 0 .. MaxTime
  /\ stamp \in [Metered -> 0 .. Never]
  /\ seen \in [Metered -> 0 .. Never]
  /\ flight \in [Metered -> 0 .. Never]
  /\ served \in [Metered -> Nat] /\ ahead \subseteq Metered
  /\ \A r \in Metered : flight[r] # Never => flight[r] <= clock /\ served[r] > 0
  /\ OnceOnly

\* The constants are numbers, and Never is no time of the clock.
LEMMA MeteringNumbers ==
  /\ Ttl \in Nat /\ Ahead \in Nat /\ Five \in Nat /\ Day \in Nat /\ Week \in Nat
  /\ Skew \in Nat /\ MaxTime \in Nat /\ LongContext \in Nat /\ Million \in Nat /\ Million # 0
  /\ Five <= Week /\ Day <= Week /\ Never \in Nat /\ Never > MaxTime + Skew
  BY MeteringAssumption DEF Never

\* At the start no request was admitted.
LEMMA RequestsInit == MeteringInit => RequestsInv
  BY MeteringNumbers DEF MeteringInit, RequestsInv, OnceOnly

\* Forgetting an id leaves a request that was admitted too old.
LEMMA ForgettingKeeps ==
  ASSUME RequestsInv
  PROVE  /\ Remembered \in [Metered -> 0 .. Never]
         /\ \A r \in Metered \ ahead :
              \/ served[r] = 0
              \/ /\ served[r] = 1 /\ stamp[r] # Never
                 /\ \/ stamp[r] + Ttl < clock
                    \/ Remembered[r] # Never /\ stamp[r] <= Remembered[r]
<1>1. \A r \in Metered : Remembered[r] = IF seen[r] + Ttl >= clock THEN seen[r] ELSE Never
  BY DEF Remembered
<1>2. Remembered \in [Metered -> 0 .. Never]
  BY MeteringNumbers DEF Remembered, RequestsInv
<1>3. ASSUME NEW r \in Metered \ ahead
      PROVE  \/ served[r] = 0
             \/ /\ served[r] = 1 /\ stamp[r] # Never
                /\ \/ stamp[r] + Ttl < clock
                   \/ Remembered[r] # Never /\ stamp[r] <= Remembered[r]
  <2>1. /\ stamp[r] \in Nat /\ seen[r] \in Nat /\ clock \in Nat /\ r \in Metered
    BY MeteringNumbers DEF RequestsInv
  <2>2. \/ served[r] = 0
        \/ /\ served[r] = 1 /\ stamp[r] # Never
           /\ \/ stamp[r] + Ttl < clock
              \/ seen[r] # Never /\ stamp[r] <= seen[r]
    BY DEF RequestsInv, OnceOnly
  <2>3. Remembered[r] = IF seen[r] + Ttl >= clock THEN seen[r] ELSE Never
    BY <1>1, <2>1
  <2> QED BY <2>1, <2>2, <2>3, MeteringNumbers
<1> QED BY <1>2, <1>3

\* What happens to the requests keeps their half of the invariant.
LEMMA RequestsStep == RequestsInv /\ [MeteringNext]_meteringVars => RequestsInv'
<1> SUFFICES ASSUME RequestsInv, [MeteringNext]_meteringVars PROVE RequestsInv'
  OBVIOUS
<1> DEFINE Aside == UNCHANGED <<clock, stamp, seen, flight, served, ahead>>
<1>1. CASE Aside
  BY <1>1 DEF RequestsInv, OnceOnly, Never
<1>2. CASE Tick
  <2>1. /\ clock' = clock + 1 /\ clock < MaxTime
        /\ UNCHANGED <<stamp, seen, flight, served, ahead>>
    BY <1>2 DEF Tick
  <2>2. clock' \in 0 .. MaxTime /\ clock \in Nat /\ clock' = clock + 1
    BY <2>1, MeteringNumbers DEF RequestsInv
  <2>3. \A r \in Metered : flight'[r] # Never => flight'[r] <= clock' /\ served'[r] > 0
    <3>1. \A r \in Metered : flight[r] \in Nat
      BY MeteringNumbers DEF RequestsInv
    <3> QED BY <3>1, <2>1, <2>2 DEF RequestsInv
  <2>4. OnceOnly'
    <3> SUFFICES ASSUME NEW r \in Metered \ ahead, served[r] # 0
                 PROVE  /\ served[r] = 1 /\ stamp[r] # Never
                        /\ \/ stamp[r] + Ttl < clock'
                           \/ seen[r] # Never /\ stamp[r] <= seen[r]
      BY <2>1 DEF OnceOnly, Never
    <3>1. stamp[r] \in Nat
      BY MeteringNumbers DEF RequestsInv
    <3> QED BY <3>1, <2>2, MeteringNumbers DEF RequestsInv, OnceOnly
  <2> QED BY <2>1, <2>2, <2>3, <2>4 DEF RequestsInv, Never
<1>3. ASSUME NEW r \in Metered, Make(r) PROVE RequestsInv'
  <2>1. PICK skew \in 0 .. Skew : stamp' = [stamp EXCEPT ![r] = clock + skew]
    BY <1>3 DEF Make
  <2>2. stamp[r] = Never /\ UNCHANGED <<clock, seen, flight, served, ahead>>
    BY <1>3 DEF Make
  <2>3. clock + skew \in 0 .. Never
    BY MeteringNumbers DEF RequestsInv
  <2>4. stamp' \in [Metered -> 0 .. Never] /\ \A q \in Metered : q # r => stamp'[q] = stamp[q]
    BY <2>1, <2>3 DEF RequestsInv
  <2>5. r \notin ahead => served[r] = 0
    BY <2>2 DEF RequestsInv, OnceOnly
  <2>6. OnceOnly'
    <3> SUFFICES ASSUME NEW q \in Metered \ ahead
                 PROVE  \/ served[q] = 0
                        \/ /\ served[q] = 1 /\ stamp'[q] # Never
                           /\ \/ stamp'[q] + Ttl < clock
                              \/ seen[q] # Never /\ stamp'[q] <= seen[q]
      BY <2>2 DEF OnceOnly, Never
    <3>1. CASE q = r
      BY <3>1, <2>5
    <3>2. CASE q # r
      BY <3>2, <2>4 DEF RequestsInv, OnceOnly
    <3> QED BY <3>1, <3>2
  <2> QED BY <2>2, <2>4, <2>6 DEF RequestsInv, Never
<1>4. ASSUME NEW r \in Metered, Arrive(r) PROVE RequestsInv'
  <2> DEFINE Forgets == seen' = Remembered /\ UNCHANGED <<clock, stamp, flight, served, ahead>>
             Admits == /\ seen' = [Remembered EXCEPT ![r] = clock]
                       /\ flight' = [flight EXCEPT ![r] = clock]
                       /\ served' = [served EXCEPT ![r] = @ + 1]
                       /\ ahead' = IF stamp[r] > clock THEN ahead \cup {r} ELSE ahead
                       /\ Remembered[r] = Never /\ UNCHANGED <<clock, stamp>>
  <2>1. stamp[r] # Never /\ clock <= stamp[r] + Ttl /\ (Forgets \/ Admits)
    BY <1>4 DEF Arrive
  <2>2. CASE Forgets
    <3>1. OnceOnly'
      BY <2>2, ForgettingKeeps DEF OnceOnly, Never
    <3> QED BY <2>2, <3>1, ForgettingKeeps DEF RequestsInv, Never
  <2>3. CASE Admits
    <3>1. /\ stamp[r] \in Nat /\ clock \in Nat /\ clock \in 0 .. Never /\ clock # Never
          /\ served[r] \in Nat
      BY MeteringNumbers DEF RequestsInv
    <3>2. r \notin ahead => served[r] = 0
      BY <2>1, <2>3, <3>1, ForgettingKeeps, MeteringNumbers
    <3>3. seen' \in [Metered -> 0 .. Never] /\ seen'[r] = clock
          /\ \A q \in Metered : q # r => seen'[q] = Remembered[q]
      BY <2>3, <3>1, ForgettingKeeps
    <3>4. flight' \in [Metered -> 0 .. Never] /\ flight'[r] = clock
          /\ \A q \in Metered : q # r => flight'[q] = flight[q]
      BY <2>3, <3>1 DEF RequestsInv
    <3>5. served' \in [Metered -> Nat] /\ served'[r] = served[r] + 1
          /\ \A q \in Metered : q # r => served'[q] = served[q]
      BY <2>3, <3>1 DEF RequestsInv
    <3>6. /\ ahead' \subseteq Metered /\ ahead \subseteq ahead'
          /\ r \notin ahead' => stamp[r] <= clock /\ r \notin ahead
      BY <2>3, <3>1 DEF RequestsInv
    <3>7. \A q \in Metered : flight'[q] # Never => flight'[q] <= clock /\ served'[q] > 0
      <4>1. ASSUME NEW q \in Metered, flight'[q] # Never
            PROVE  flight'[q] <= clock /\ served'[q] > 0
        <5>1. CASE q = r
          BY <5>1, <3>1, <3>4, <3>5
        <5>2. CASE q # r
          BY <5>2, <4>1, <3>4, <3>5 DEF RequestsInv
        <5> QED BY <5>1, <5>2
      <4> QED BY <4>1
    <3>8. OnceOnly'
      <4> SUFFICES ASSUME NEW q \in Metered \ ahead'
                   PROVE  \/ served'[q] = 0
                          \/ /\ served'[q] = 1 /\ stamp[q] # Never
                             /\ \/ stamp[q] + Ttl < clock
                                \/ seen'[q] # Never /\ stamp[q] <= seen'[q]
        BY <2>3 DEF OnceOnly, Never
      <4>1. CASE q = r
        BY <4>1, <2>1, <3>1, <3>2, <3>3, <3>5, <3>6
      <4>2. CASE q # r
        <5>1. q \in Metered \ ahead
          BY <3>6
        <5>2. seen'[q] = Remembered[q] /\ served'[q] = served[q]
          BY <4>2, <3>3, <3>5
        <5> QED BY <5>1, <5>2, ForgettingKeeps
      <4> QED BY <4>1, <4>2
    <3>9. clock' = clock /\ stamp' = stamp
      BY <2>3
    <3> QED BY <3>3, <3>4, <3>5, <3>6, <3>7, <3>8, <3>9 DEF RequestsInv, Never
  <2> QED BY <2>1, <2>2, <2>3
<1>5. ASSUME NEW r \in Metered, FinishRequest(r) PROVE RequestsInv'
  <2>1. /\ flight' = [flight EXCEPT ![r] = Never]
        /\ UNCHANGED <<clock, stamp, seen, served, ahead>>
    BY <1>5 DEF FinishRequest
  <2>2. Never \in 0 .. Never
    BY MeteringNumbers
  <2>3. flight' \in [Metered -> 0 .. Never]
        /\ \A q \in Metered : flight'[q] = IF q = r THEN Never ELSE flight[q]
    BY <2>1, <2>2 DEF RequestsInv
  <2>4. OnceOnly'
    BY <2>1 DEF RequestsInv, OnceOnly, Never
  <2> QED BY <2>1, <2>3, <2>4 DEF RequestsInv, Never
<1> QED BY <1>1, <1>2, <1>3, <1>4, <1>5 DEF MeteringNext, meteringVars, SetLimits

\* The requests' half holds always.
LEMMA RequestsInvariant == MeteringSpec => []RequestsInv
  BY RequestsInit, RequestsStep, PTL DEF MeteringSpec


-----------------------------------------------------------------------------
(***************************************************************************)
(* Metering: what is read from an answer.                                  *)
(***************************************************************************)

TokenCounts == [input : Nat, output : Nat, read : Nat, write5 : Nat, write1 : Nat]

\* The larger of two numbers.
LEMMA HigherIsOne ==
  ASSUME NEW x \in Nat, NEW y \in Nat
  PROVE  /\ Higher(x, y) \in Nat /\ Higher(x, y) >= x /\ Higher(x, y) >= y
         /\ Higher(x, y) = x \/ Higher(x, y) = y
  BY DEF Higher

\* What is read after one more record.
LEMMA ReadUsageFacts ==
  ASSUME NEW hour \in BOOLEAN, NEW t \in TokenCounts, NEW e \in Report, NEW u,
         u = ReadUsage(hour, t, e)
  PROVE  /\ u \in TokenCounts
         /\ u.input = Higher(t.input, e.input) /\ u.output = Higher(t.output, e.output)
         /\ u.read = Higher(t.read, e.read)
         /\ LET w5 == Higher(t.write5, e.write5)
                w1 == Higher(t.write1, e.write1)
            IN  /\ (w5 # 0 \/ w1 # 0 \/ e.write = 0) => u.write5 = w5 /\ u.write1 = w1
                /\ (w5 = 0 /\ w1 = 0) => u.write5 + u.write1 = e.write
<1> DEFINE w5 == Higher(t.write5, e.write5)
           w1 == Higher(t.write1, e.write1)
           total == IF w5 = 0 /\ w1 = 0 THEN e.write ELSE 0
           i == Higher(t.input, e.input)
           o == Higher(t.output, e.output)
           d == Higher(t.read, e.read)
           k5 == IF hour THEN w5 ELSE Higher(w5, total)
           k1 == IF hour THEN Higher(w1, total) ELSE w1
<1>1. u = [input |-> i, output |-> o, read |-> d, write5 |-> k5, write1 |-> k1]
  BY DEF ReadUsage
<1>2. /\ t.input \in Nat /\ t.output \in Nat /\ t.read \in Nat /\ t.write5 \in Nat
      /\ t.write1 \in Nat
  BY DEF TokenCounts
<1>3. /\ e.input \in Nat /\ e.output \in Nat /\ e.read \in Nat /\ e.write5 \in Nat
      /\ e.write1 \in Nat /\ e.write \in Nat
  BY DEF Report
<1>4. i \in Nat /\ o \in Nat /\ d \in Nat /\ w5 \in Nat /\ w1 \in Nat
  BY <1>2, <1>3, HigherIsOne
<1> HIDE DEF i, o, d, w5, w1
<1>5. k5 \in Nat /\ k1 \in Nat
  BY <1>3, <1>4 DEF Higher
<1>6. (w5 # 0 \/ w1 # 0 \/ e.write = 0) => k5 = w5 /\ k1 = w1
  BY <1>3, <1>4 DEF Higher
<1>7. (w5 = 0 /\ w1 = 0) => k5 + k1 = e.write
  BY <1>3, <1>4 DEF Higher
<1> HIDE DEF k5, k1
<1>8. u \in TokenCounts
  BY <1>1, <1>4, <1>5 DEF TokenCounts
<1>9. u.input = i /\ u.output = o /\ u.read = d /\ u.write5 = k5 /\ u.write1 = k1
  BY <1>1
<1> QED BY <1>6, <1>7, <1>8, <1>9 DEF i, o, d, w5, w1

\* What is read, record after record.
ReadRun(w, hour, es) ==
  /\ w[0] = NoTokens
  /\ \A i \in 0 .. Len(es) : w[i] \in TokenCounts
  /\ \A i \in 1 .. Len(es) : w[i] = ReadUsage(hour, w[i - 1], es[i])

ReadIn(w, answer) == ReadRun(w, answer.hour, answer.events)

\* An answer is read record after record; of Codex, what was cached is not
\* counted as input once more.
LEMMA ReadRuns ==
  ASSUME NEW answer \in Answer
  PROVE  \E w : /\ ReadIn(w, answer)
                /\ Extract(answer) =
                     LET t == w[Len(answer.events)]
                         cached == t.read + t.write5 + t.write1
                     IN  IF answer.tool = "Codex"
                         THEN [t EXCEPT !.input = IF @ > cached THEN @ - cached ELSE 0] ELSE t
<1> DEFINE es == answer.events
           Add(v, i) == ReadUsage(answer.hour, v, es[i])
           f == [i \in 1 .. Len(es) |-> [v \in TokenCounts |-> Add(v, i)]]
           Runs(w) == w = [i \in 0 .. Len(es) |-> IF i = 0 THEN NoTokens ELSE Add(w[i - 1], i)]
<1>1. /\ answer.hour \in BOOLEAN /\ es \in Seq(Report) /\ Len(es) \in Nat
      /\ \A i \in 1 .. Len(es) : es[i] \in Report
  <2>1. answer \in [tool : {"Claude", "Codex"}, model : DOMAIN Prices, hour : BOOLEAN,
                    accepted : BOOLEAN, events : Seq(Report)]
    BY AnswerAssumption
  <2>2. es \in Seq(Report) /\ answer.hour \in BOOLEAN
    BY <2>1
  <2> QED BY <2>2
<1>2. NoTokens \in TokenCounts
  BY DEF NoTokens, TokenCounts
<1>3. ASSUME NEW i \in 1 .. Len(es), NEW v \in TokenCounts PROVE Add(v, i) \in TokenCounts
  BY <1>1, ReadUsageFacts
<1> HIDE DEF Add
<1>4. f \in [1 .. Len(es) -> [TokenCounts -> TokenCounts]]
  BY <1>3
<1>5. \E w : Runs(w)
  <2> HIDE DEF f, Runs, es
  <2>1. PICK w \in [0 .. Len(es) -> TokenCounts] :
          w[0] = NoTokens /\ \A i \in 1 .. Len(es) : w[i] = f[i][w[i - 1]]
    <3>1. \E w : Leads(w, Len(es), TokenCounts, NoTokens, f)
      BY <1>1, <1>2, <1>4, StepsExist
    <3> QED BY <3>1 DEF Leads
  <2>2. ASSUME NEW i \in 1 .. Len(es) PROVE w[i] = Add(w[i - 1], i)
    <3>1. i - 1 \in 0 .. Len(es)
      BY <1>1
    <3>2. w[i - 1] \in TokenCounts
      BY <3>1
    <3> QED BY <2>1, <3>2 DEF f
  <2>3. Runs(w)
    BY <1>1, <2>1, <2>2 DEF Runs
  <2> QED BY <2>3
<1> DEFINE w == CHOOSE g : Runs(g)
<1>6. Runs(w)
  <2> HIDE DEF Runs
  <2> QED BY <1>5
<1>7. Extract(answer) =
        LET t == w[Len(es)]
            cached == t.read + t.write5 + t.write1
        IN  IF answer.tool = "Codex"
            THEN [t EXCEPT !.input = IF @ > cached THEN @ - cached ELSE 0] ELSE t
  BY DEF Extract, Add
<1> HIDE DEF w
<1>8. w[0] = NoTokens /\ \A i \in 1 .. Len(es) : w[i] = Add(w[i - 1], i)
  BY <1>1, <1>6
<1>9. \A i \in 0 .. Len(es) : w[i] \in TokenCounts
  <2> HIDE DEF es
  <2>1. ASSUME NEW i \in 1 .. Len(es), w[i - 1] \in TokenCounts PROVE w[i] \in TokenCounts
    <3>1. w[i] = Add(w[i - 1], i)
      BY <1>8
    <3> QED BY <1>3, <2>1, <3>1
  <2>2. w[0] \in TokenCounts
    BY <1>2, <1>8
  <2> QED BY <1>1, <2>1, <2>2, AllUpTo
<1>10. ReadIn(w, answer)
  BY <1>8, <1>9 DEF ReadIn, ReadRun, Add
<1> QED BY <1>7, <1>10

\* What an answer is charged for is counted in tokens.
LEMMA ExtractIsTyped ==
  ASSUME NEW answer \in Answer
  PROVE  Extract(answer) \in TokenCounts /\ Tokens(Extract(answer)) \in Nat
<1>1. PICK w : /\ ReadIn(w, answer)
               /\ Extract(answer) =
                     LET t == w[Len(answer.events)]
                         cached == t.read + t.write5 + t.write1
                     IN  IF answer.tool = "Codex"
                         THEN [t EXCEPT !.input = IF @ > cached THEN @ - cached ELSE 0] ELSE t
  BY ReadRuns
<1> DEFINE t == w[Len(answer.events)]
           cached == t.read + t.write5 + t.write1
           less == IF t.input > cached THEN t.input - cached ELSE 0
<1>2. t \in TokenCounts
  <2>1. answer.events \in Seq(Report)
    BY AnswerAssumption
  <2>2. Len(answer.events) \in 0 .. Len(answer.events)
    BY <2>1
  <2> QED BY <1>1, <2>2 DEF ReadIn, ReadRun
<1>3. Extract(answer) = IF answer.tool = "Codex" THEN [t EXCEPT !.input = less] ELSE t
  BY <1>1
<1> HIDE DEF t
<1>4. t.input \in Nat /\ cached \in Nat
  BY <1>2 DEF TokenCounts
<1>5. less \in Nat
  BY <1>4
<1> HIDE DEF less
<1>6. [t EXCEPT !.input = less] \in TokenCounts
  BY <1>2, <1>5 DEF TokenCounts
<1>7. Extract(answer) \in TokenCounts
  BY <1>2, <1>3, <1>6
<1> DEFINE x == Extract(answer)
<1> HIDE DEF x
<1>8. x \in TokenCounts
  BY <1>7 DEF x
<1>9. Tokens(x) \in Nat
  BY <1>8 DEF Tokens, TokenCounts
<1> QED BY <1>8, <1>9 DEF x

\* v is the largest of the first n numbers, or 0 before the first.
Tops(v, x, n) ==
  /\ v \in Nat /\ \A i \in 1 .. n : v >= x[i]
  /\ v = 0 \/ \E i \in 1 .. n : v = x[i]

\* The larger of the largest so far and the next one is the largest.
LEMMA TopsGoOn ==
  ASSUME NEW n \in Nat \ {0}, NEW x \in [1 .. n -> Nat], NEW i \in 1 .. n,
         NEW v, Tops(v, x, i - 1)
  PROVE  Tops(Higher(v, x[i]), x, i)
<1>1. x[i] \in Nat /\ i \in Nat /\ v \in Nat
  BY DEF Tops
<1> DEFINE h == Higher(v, x[i])
<1>2. h \in Nat /\ h >= v /\ h >= x[i] /\ (h = v \/ h = x[i])
  BY <1>1, HigherIsOne
<1> HIDE DEF h
<1>3. ASSUME NEW j \in 1 .. i PROVE h >= x[j]
  <2>1. CASE j = i
    BY <2>1, <1>2
  <2>2. CASE j # i
    <3>1. j \in 1 .. i - 1 /\ x[j] \in Nat
      BY <2>2, <1>1
    <3>2. v >= x[j]
      BY <3>1 DEF Tops
    <3> QED BY <3>1, <3>2, <1>1, <1>2
  <2> QED BY <2>1, <2>2
<1>4. h = 0 \/ \E j \in 1 .. i : h = x[j]
  <2>1. i \in 1 .. i /\ 1 .. i - 1 \subseteq 1 .. i
    BY <1>1
  <2>2. CASE h = x[i]
    BY <2>1, <2>2
  <2>3. CASE h = v
    BY <2>1, <2>3 DEF Tops
  <2> QED BY <2>2, <2>3, <1>2
<1> QED BY <1>2, <1>3, <1>4 DEF Tops, h

\* What keeps the larger value comes to the largest.
LEMMA HighestIsTop ==
  ASSUME NEW n \in Nat \ {0}, NEW x \in [1 .. n -> Nat], NEW m, m[0] = 0,
         \A i \in 1 .. n : m[i] = Higher(m[i - 1], x[i])
  PROVE  Tops(m[n], x, n)
<1> DEFINE T == {i \in 0 .. n : Tops(m[i], x, i)}
<1>1. 0 \in T
  BY DEF Tops
<1>2. ASSUME NEW i \in 1 .. n, i - 1 \in T PROVE i \in T
  <2>1. Tops(m[i - 1], x, i - 1) /\ m[i] = Higher(m[i - 1], x[i])
    BY <1>2
  <2>2. Tops(m[i], x, i)
    BY <2>1, TopsGoOn
  <2> QED BY <2>2
<1>3. n \in T
  <2> HIDE DEF T
  <2>1. \A i \in 0 .. n : i \in T
    BY <1>1, <1>2, NumbersUpTo
  <2> QED BY <2>1
<1> QED BY <1>3

Counts == {"input", "output", "read", "write", "write5", "write1"}

\* What an answer's records say of a count.
Series(answer, count) == [i \in 1 .. Len(answer.events) |-> answer.events[i][count]]

\* It says a number in each.
LEMMA SeriesIsTyped ==
  ASSUME NEW answer \in Answer, answer.events # <<>>, NEW count \in Counts
  PROVE  /\ Len(answer.events) \in Nat \ {0}
         /\ Series(answer, count) \in [1 .. Len(answer.events) -> Nat]
         /\ DOMAIN answer.events = 1 .. Len(answer.events)
<1>1. answer.events \in Seq(Report)
  BY AnswerAssumption
<1> DEFINE es == answer.events
<1>2. Len(es) \in Nat \ {0} /\ DOMAIN es = 1 .. Len(es) /\ \A i \in 1 .. Len(es) : es[i] \in Report
  BY <1>1
<1> HIDE DEF es
<1>3. ASSUME NEW i \in 1 .. Len(es) PROVE es[i][count] \in Nat
  <2>1. es[i] \in [input : Nat, output : Nat, read : Nat, write : Nat, write5 : Nat, write1 : Nat]
    BY <1>2 DEF Report
  <2> QED BY <2>1 DEF Counts
<1>4. [i \in 1 .. Len(es) |-> es[i][count]] \in [1 .. Len(es) -> Nat]
  BY <1>3
<1> QED BY <1>2, <1>4 DEF es, Series

\* The largest is what Most chooses.
LEMMA MostIsTop ==
  ASSUME NEW answer \in Answer, answer.events # <<>>, NEW count \in Counts,
         NEW v, Tops(v, Series(answer, count), Len(answer.events))
  PROVE  Most(answer, count) = v
<1> DEFINE n == Len(answer.events)
           x == Series(answer, count)
           S == {answer.events[i][count] : i \in DOMAIN answer.events}
<1>1. n \in Nat \ {0} /\ x \in [1 .. n -> Nat] /\ DOMAIN answer.events = 1 .. n
  BY SeriesIsTyped
<1>2. S = {x[i] : i \in 1 .. n}
  BY <1>1 DEF Series
<1>3. Most(answer, count) = CHOOSE a \in S : \A b \in S : a >= b
  BY DEF Most, Max
<1> HIDE DEF n, x, S
<1>4. v \in Nat /\ (\A i \in 1 .. n : v >= x[i]) /\ (v = 0 \/ \E i \in 1 .. n : v = x[i])
  BY DEF Tops, n, x
<1>5. v \in S
  <2>1. CASE v = 0
    <3>1. 1 \in 1 .. n /\ x[1] \in Nat /\ v >= x[1]
      BY <1>1, <1>4
    <3>2. x[1] = v
      BY <3>1, <2>1
    <3> QED BY <3>1, <3>2, <1>2
  <2>2. CASE \E i \in 1 .. n : v = x[i]
    BY <2>2, <1>2
  <2> QED BY <2>1, <2>2, <1>4
<1>6. \A b \in S : b \in Nat /\ v >= b
  BY <1>1, <1>2, <1>4
<1>7. \A a \in S : (\A b \in S : a >= b) => a = v
  <2>1. ASSUME NEW a \in S, \A b \in S : a >= b PROVE a = v
    <3>1. a >= v /\ v >= a /\ a \in Nat
      BY <1>5, <1>6, <2>1
    <3> QED BY <3>1, <1>4
  <2> QED BY <2>1
<1> DEFINE best == CHOOSE a \in S : \A b \in S : a >= b
<1>8. best \in S /\ \A b \in S : best >= b
  BY <1>5, <1>6
<1> HIDE DEF best
<1>9. best = v
  BY <1>7, <1>8
<1> QED BY <1>3, <1>9 DEF best

\* A count that keeps the larger value from record to record comes to what Most says.
LEMMA ReadIsMost ==
  ASSUME NEW answer \in Answer, answer.events # <<>>, NEW count \in Counts, NEW m, m[0] = 0,
         \A i \in 1 .. Len(answer.events) :
           m[i] = Higher(m[i - 1], answer.events[i][count])
  PROVE  m[Len(answer.events)] = Most(answer, count)
<1> DEFINE n == Len(answer.events)
           x == Series(answer, count)
<1>1. n \in Nat \ {0} /\ x \in [1 .. n -> Nat]
  BY SeriesIsTyped
<1>2. \A i \in 1 .. n : m[i] = Higher(m[i - 1], x[i])
  BY DEF Series
<1> HIDE DEF n, x
<1>3. Tops(m[n], x, n)
  BY <1>1, <1>2, HighestIsTop
<1> QED BY <1>3, MostIsTop DEF n, x

\* Everything but cache writes: the records' largest values.
LEMMA PlainCounts ==
  ASSUME NEW answer \in Answer, answer.events # <<>>, NEW w, ReadIn(w, answer)
  PROVE  LET t == w[Len(answer.events)] IN
         t.input = Most(answer, "input") /\ t.output = Most(answer, "output")
         /\ t.read = Most(answer, "read")
<1> DEFINE es == answer.events
           n == Len(es)
           mi == [i \in 0 .. n |-> w[i].input]
           mo == [i \in 0 .. n |-> w[i].output]
           mr == [i \in 0 .. n |-> w[i].read]
<1>1. n \in Nat \ {0} /\ es \in Seq(Report) /\ answer.hour \in BOOLEAN
  <2>1. answer \in [tool : {"Claude", "Codex"}, model : DOMAIN Prices, hour : BOOLEAN,
                    accepted : BOOLEAN, events : Seq(Report)]
    BY AnswerAssumption
  <2>2. answer.events \in Seq(Report) /\ answer.hour \in BOOLEAN
    BY <2>1
  <2> QED BY <2>2
<1> HIDE DEF n
<1>2. \A i \in 1 .. n : i \in 0 .. n /\ i - 1 \in 0 .. n /\ i \in 1 .. Len(es)
  BY <1>1 DEF n
<1>3. 0 \in 0 .. n /\ n \in 0 .. n
  BY <1>1
<1>4. ASSUME NEW i \in 1 .. n
      PROVE  /\ w[i].input = Higher(w[i - 1].input, es[i].input)
             /\ w[i].output = Higher(w[i - 1].output, es[i].output)
             /\ w[i].read = Higher(w[i - 1].read, es[i].read)
  <2>1. w[i] = ReadUsage(answer.hour, w[i - 1], es[i]) /\ w[i - 1] \in TokenCounts
    BY <1>2 DEF ReadIn, ReadRun, n
  <2>2. es[i] \in Report
    <3>1. i \in 1 .. Len(es)
      BY <1>2
    <3> HIDE DEF es
    <3> QED BY <3>1, <1>1
  <2> DEFINE t == w[i - 1]
             u == w[i]
             e == es[i]
             hour == answer.hour
  <2>3. hour \in BOOLEAN /\ t \in TokenCounts /\ e \in Report /\ u = ReadUsage(hour, t, e)
    BY <1>1, <2>1, <2>2
  <2> HIDE DEF t, u, e, hour
  <2>4. /\ u.input = Higher(t.input, e.input) /\ u.output = Higher(t.output, e.output)
        /\ u.read = Higher(t.read, e.read)
    BY <2>3, ReadUsageFacts
  <2> QED BY <2>4 DEF t, u, e
<1>5. w[0] = NoTokens
  BY DEF ReadIn, ReadRun
<1>6. mi[0] = 0 /\ mo[0] = 0 /\ mr[0] = 0
  BY <1>3, <1>5 DEF NoTokens
<1>7. \A i \in 1 .. n : mi[i] = Higher(mi[i - 1], es[i]["input"])
  BY <1>2, <1>4
<1>8. \A i \in 1 .. n : mo[i] = Higher(mo[i - 1], es[i]["output"])
  BY <1>2, <1>4
<1>9. \A i \in 1 .. n : mr[i] = Higher(mr[i - 1], es[i]["read"])
  BY <1>2, <1>4
<1>10. mi[n] = w[n].input /\ mo[n] = w[n].output /\ mr[n] = w[n].read
  BY <1>3
<1> HIDE DEF mi, mo, mr
<1>11. "input" \in Counts /\ "output" \in Counts /\ "read" \in Counts
  BY DEF Counts
<1>12. mi[n] = Most(answer, "input")
  BY <1>6, <1>7, <1>11, ReadIsMost DEF n
<1>13. mo[n] = Most(answer, "output")
  BY <1>6, <1>8, <1>11, ReadIsMost DEF n
<1>14. mr[n] = Most(answer, "read")
  BY <1>6, <1>9, <1>11, ReadIsMost DEF n
<1> QED BY <1>10, <1>12, <1>13, <1>14 DEF n

\* What a record says of cache writes, and what is read of them.
LEMMA WritesGoOn ==
  ASSUME NEW answer \in Answer, NEW w, ReadIn(w, answer), NEW i \in 1 .. Len(answer.events)
  PROVE  LET e == answer.events[i]
             t == w[i - 1]
             u == w[i]
             w5 == Higher(t.write5, e.write5)
             w1 == Higher(t.write1, e.write1) IN
         /\ e.write \in Nat /\ e.write5 \in Nat /\ e.write1 \in Nat
         /\ t.write5 \in Nat /\ t.write1 \in Nat /\ u.write5 \in Nat /\ u.write1 \in Nat
         /\ (w5 # 0 \/ w1 # 0 \/ e.write = 0) => u.write5 = w5 /\ u.write1 = w1
         /\ (w5 = 0 /\ w1 = 0) => u.write5 + u.write1 = e.write
<1> DEFINE es == answer.events
<1>1. es \in Seq(Report) /\ answer.hour \in BOOLEAN
  <2>1. answer \in [tool : {"Claude", "Codex"}, model : DOMAIN Prices, hour : BOOLEAN,
                    accepted : BOOLEAN, events : Seq(Report)]
    BY AnswerAssumption
  <2> QED BY <2>1
<1>2. es[i] \in Report /\ i \in 0 .. Len(es) /\ i - 1 \in 0 .. Len(es)
  BY <1>1
<1>3. w[i] = ReadUsage(answer.hour, w[i - 1], es[i]) /\ w[i - 1] \in TokenCounts
      /\ w[i] \in TokenCounts
  BY <1>2 DEF ReadIn, ReadRun
<1> HIDE DEF es
<1>4. /\ w[i - 1].write5 \in Nat /\ w[i - 1].write1 \in Nat
      /\ w[i].write5 \in Nat /\ w[i].write1 \in Nat
  BY <1>3 DEF TokenCounts
<1>5. es[i].write \in Nat /\ es[i].write5 \in Nat /\ es[i].write1 \in Nat
  BY <1>2 DEF Report
<1>6. LET w5 == Higher(w[i - 1].write5, es[i].write5)
          w1 == Higher(w[i - 1].write1, es[i].write1)
      IN  /\ (w5 # 0 \/ w1 # 0 \/ es[i].write = 0) => w[i].write5 = w5 /\ w[i].write1 = w1
          /\ (w5 = 0 /\ w1 = 0) => w[i].write5 + w[i].write1 = es[i].write
  <2> DEFINE t == w[i - 1]
             u == w[i]
             e == es[i]
             hour == answer.hour
  <2>1. hour \in BOOLEAN /\ t \in TokenCounts /\ e \in Report /\ u = ReadUsage(hour, t, e)
    BY <1>1, <1>2, <1>3
  <2> HIDE DEF t, u, e, hour
  <2>2. LET w5 == Higher(t.write5, e.write5)
            w1 == Higher(t.write1, e.write1)
        IN  /\ (w5 # 0 \/ w1 # 0 \/ e.write = 0) => u.write5 = w5 /\ u.write1 = w1
            /\ (w5 = 0 /\ w1 = 0) => u.write5 + u.write1 = e.write
    BY <2>1, ReadUsageFacts
  <2> QED BY <2>2 DEF t, u, e
<1> QED BY <1>4, <1>5, <1>6 DEF es

\* Cache writes that come as a total: it counts once.
LEMMA TotalOfWrites ==
  ASSUME NEW answer \in Answer, answer.events # <<>>, NEW w, ReadIn(w, answer),
         \A i \in 1 .. Len(answer.events) :
           answer.events[i].write5 = 0 /\ answer.events[i].write1 = 0,
         \A i, j \in 1 .. Len(answer.events) :
           answer.events[i].write > 0 /\ answer.events[j].write > 0
             => answer.events[i].write = answer.events[j].write
  PROVE  LET t == w[Len(answer.events)] IN t.write5 + t.write1 = Most(answer, "write")
<1> DEFINE n == Len(answer.events)
           x == Series(answer, "write")
           s(i) == w[i].write5 + w[i].write1
           T == {i \in 0 .. n : Tops(s(i), x, i)}
<1>1. n \in Nat \ {0} /\ x \in [1 .. n -> Nat] /\ "write" \in Counts
  BY SeriesIsTyped DEF Counts
<1>2. \A i \in 1 .. n : x[i] = answer.events[i].write
  BY DEF Series
<1> HIDE DEF x
<1>3. 0 \in T
  <2>1. s(0) = 0
    BY DEF ReadIn, ReadRun, NoTokens
  <2> HIDE DEF s
  <2> QED BY <1>1, <2>1 DEF Tops
<1>4. ASSUME NEW i \in 1 .. n, i - 1 \in T PROVE i \in T
  <2> DEFINE t == w[i - 1]
             u == w[i]
  <2>1. /\ t.write5 \in Nat /\ t.write1 \in Nat /\ u.write5 \in Nat /\ u.write1 \in Nat
        /\ x[i] \in Nat
        /\ (t.write5 # 0 \/ t.write1 # 0 \/ x[i] = 0)
             => u.write5 = t.write5 /\ u.write1 = t.write1
        /\ (t.write5 = 0 /\ t.write1 = 0) => u.write5 + u.write1 = x[i]
    <3> DEFINE e == answer.events[i]
               w5 == Higher(t.write5, e.write5)
               w1 == Higher(t.write1, e.write1)
    <3>1. /\ e.write \in Nat /\ t.write5 \in Nat /\ t.write1 \in Nat /\ u.write5 \in Nat /\ u.write1 \in Nat
          /\ (w5 # 0 \/ w1 # 0 \/ e.write = 0) => u.write5 = w5 /\ u.write1 = w1
          /\ (w5 = 0 /\ w1 = 0) => u.write5 + u.write1 = e.write
      BY WritesGoOn
    <3>2. e.write5 = 0 /\ e.write1 = 0 /\ x[i] = e.write
      BY <1>2
    <3>3. w5 = t.write5 /\ w1 = t.write1
      BY <3>1, <3>2 DEF Higher
    <3> HIDE DEF e, t, u, w5, w1
    <3> QED BY <3>1, <3>2, <3>3
  <2>2. s(i) = u.write5 + u.write1 /\ s(i - 1) = t.write5 + t.write1
    OBVIOUS
  <2>3. Tops(s(i - 1), x, i - 1) /\ i \in Nat /\ i \in 0 .. n
    BY <1>4, <1>1
  <2> HIDE DEF t, u, s, n
  <2>4. CASE s(i - 1) = 0
    <3>1. s(i) = x[i] /\ x[i] \in Nat
      BY <2>1, <2>2, <2>4
    <3>2. \A j \in 1 .. i - 1 : x[j] \in Nat /\ x[j] <= 0
      BY <2>3, <2>4, <1>1 DEF Tops
    <3>3. ASSUME NEW j \in 1 .. i PROVE s(i) >= x[j]
      <4>1. CASE j = i
        BY <4>1, <3>1
      <4>2. CASE j # i
        <5>1. j \in 1 .. i - 1
          BY <4>2, <2>3
        <5> QED BY <5>1, <3>1, <3>2
      <4> QED BY <4>1, <4>2
    <3>4. i \in 1 .. i
      BY <2>3
    <3>5. Tops(s(i), x, i)
      BY <3>1, <3>3, <3>4 DEF Tops
    <3> QED BY <3>5, <2>3
  <2>5. CASE s(i - 1) # 0
    <3>1. s(i) = s(i - 1)
      BY <2>1, <2>2, <2>5
    <3>2. PICK k \in 1 .. i - 1 : s(i - 1) = x[k]
      BY <2>3, <2>5 DEF Tops
    <3>3. k \in 1 .. n /\ i \in 1 .. n /\ k \in 1 .. i /\ x[k] \in Nat /\ x[k] # 0
      BY <3>2, <2>3, <2>5, <1>1
    <3>4. x[i] = 0 \/ x[i] = x[k]
      <4>1. x[i] > 0 /\ x[k] > 0 => x[i] = x[k]
        BY <1>2, <3>3 DEF n
      <4> QED BY <4>1, <3>3, <2>1
    <3>5. ASSUME NEW j \in 1 .. i PROVE s(i) >= x[j]
      <4>1. CASE j = i
        BY <4>1, <3>1, <3>2, <3>3, <3>4
      <4>2. CASE j # i
        <5>1. j \in 1 .. i - 1
          BY <4>2, <2>3
        <5> QED BY <5>1, <3>1, <2>3 DEF Tops
      <4> QED BY <4>1, <4>2
    <3>6. s(i) \in Nat /\ s(i) = x[k]
      BY <3>1, <3>2, <3>3
    <3>7. Tops(s(i), x, i)
      BY <3>3, <3>5, <3>6 DEF Tops
    <3> QED BY <3>7, <2>3
  <2> QED BY <2>4, <2>5
<1>5. n \in T
  <2> HIDE DEF T, n
  <2>1. \A i \in 0 .. n : i \in T
    BY <1>1, <1>3, <1>4, NumbersUpTo
  <2> QED BY <2>1, <1>1
<1>6. Tops(s(n), x, n)
  BY <1>5
<1> HIDE DEF s
<1>7. Most(answer, "write") = s(n)
  BY <1>1, <1>6, MostIsTop DEF x, n
<1> QED BY <1>7 DEF s

\* Cache writes that come by kind: the largest value of each kind.
LEMMA KindsOfWrites ==
  ASSUME NEW answer \in Answer, answer.events # <<>>, NEW w, ReadIn(w, answer),
         \A i \in 1 .. Len(answer.events) : answer.events[i].write > 0 =>
           \E j \in 1 .. i : answer.events[j].write5 + answer.events[j].write1 > 0
  PROVE  LET t == w[Len(answer.events)] IN
         /\ t.write5 = Most(answer, "write5") /\ t.write1 = Most(answer, "write1")
         /\ \A i \in 1 .. Len(answer.events) :
              t.write5 >= answer.events[i].write5 /\ t.write1 >= answer.events[i].write1
<1> DEFINE n == Len(answer.events)
           x5 == Series(answer, "write5")
           x1 == Series(answer, "write1")
           T == {i \in 0 .. n : Tops(w[i].write5, x5, i) /\ Tops(w[i].write1, x1, i)}
<1>1. /\ n \in Nat \ {0} /\ x5 \in [1 .. n -> Nat] /\ x1 \in [1 .. n -> Nat]
      /\ "write5" \in Counts /\ "write1" \in Counts
  BY SeriesIsTyped DEF Counts
<1>2. \A i \in 1 .. n : x5[i] = answer.events[i].write5 /\ x1[i] = answer.events[i].write1
  BY DEF Series
<1> HIDE DEF x5, x1
<1>3. 0 \in T
  <2>1. w[0].write5 = 0 /\ w[0].write1 = 0
    BY DEF ReadIn, ReadRun, NoTokens
  <2> QED BY <1>1, <2>1 DEF Tops
<1>4. ASSUME NEW i \in 1 .. n, i - 1 \in T PROVE i \in T
  <2> DEFINE t == w[i - 1]
             u == w[i]
             w5 == Higher(t.write5, x5[i])
             w1 == Higher(t.write1, x1[i])
  <2>1. /\ (w5 # 0 \/ w1 # 0 \/ answer.events[i].write = 0) => u.write5 = w5 /\ u.write1 = w1
        /\ answer.events[i].write \in Nat
    BY <1>2, WritesGoOn
  <2>2. Tops(t.write5, x5, i - 1) /\ Tops(t.write1, x1, i - 1) /\ i \in 0 .. n /\ i \in Nat
    BY <1>4, <1>1
  <2> HIDE DEF t, u
  <2>3. Tops(w5, x5, i) /\ Tops(w1, x1, i)
    BY <1>1, <2>2, TopsGoOn
  <2> HIDE DEF w5, w1
  <2>4. w5 = 0 /\ w1 = 0 => answer.events[i].write = 0
    <3> SUFFICES ASSUME w5 = 0, w1 = 0, answer.events[i].write # 0 PROVE FALSE
      OBVIOUS
    <3>1. answer.events[i].write > 0
      BY <2>1
    <3>2. PICK j \in 1 .. i : answer.events[j].write5 + answer.events[j].write1 > 0
      BY <3>1
    <3>3. j \in 1 .. n
      BY <1>1, <2>2
    <3>4. x5[j] \in Nat /\ x1[j] \in Nat /\ x5[j] <= 0 /\ x1[j] <= 0
      BY <1>1, <2>3, <3>3 DEF Tops
    <3> QED BY <1>2, <3>2, <3>3, <3>4
  <2>5. u.write5 = w5 /\ u.write1 = w1
    BY <2>1, <2>4
  <2> QED BY <2>2, <2>3, <2>5 DEF u
<1>5. n \in T
  <2> HIDE DEF T, n
  <2>1. \A i \in 0 .. n : i \in T
    BY <1>1, <1>3, <1>4, NumbersUpTo
  <2> QED BY <2>1, <1>1
<1>6. Tops(w[n].write5, x5, n) /\ Tops(w[n].write1, x1, n)
  BY <1>5
<1>7. Most(answer, "write5") = w[n].write5
  BY <1>1, <1>6, MostIsTop DEF x5, n
<1>8. Most(answer, "write1") = w[n].write1
  BY <1>1, <1>6, MostIsTop DEF x1, n
<1>9. \A i \in 1 .. n : w[n].write5 >= x5[i] /\ w[n].write1 >= x1[i]
  BY <1>6 DEF Tops
<1> QED BY <1>2, <1>7, <1>8, <1>9

\* What is read of cache writes is what the answer's records say of them.
LEMMA WritesAreWritten ==
  ASSUME NEW answer \in Answer, answer.events # <<>>, Consistent(answer),
         NEW w, ReadIn(w, answer)
  PROVE  LET t == w[Len(answer.events)] IN t.write5 + t.write1 = Written(answer)
<1> DEFINE es == answer.events
           n == Len(es)
           t == w[n]
           m5 == Most(answer, "write5")
           m1 == Most(answer, "write1")
<1>1. /\ n \in Nat \ {0} /\ DOMAIN es = 1 .. n
      /\ \A i \in 1 .. n : es[i].write5 \in Nat /\ es[i].write1 \in Nat /\ es[i].write \in Nat
  <2>1. es \in Seq(Report)
    BY AnswerAssumption
  <2>2. n \in Nat \ {0} /\ DOMAIN es = 1 .. n /\ \A i \in 1 .. n : es[i] \in Report
    BY <2>1
  <2> HIDE DEF es, n
  <2> QED BY <2>2 DEF Report
<1>2. t.write5 \in Nat /\ t.write1 \in Nat
  <2>1. n \in 0 .. n
    BY <1>1
  <2>2. t \in TokenCounts
    BY <2>1 DEF ReadIn, ReadRun
  <2> HIDE DEF t
  <2> QED BY <2>2 DEF TokenCounts
<1>3. Written(answer) = IF m5 + m1 > 0 THEN m5 + m1 ELSE Most(answer, "write")
  BY DEF Written
<1>4. Consistent(answer)
  OBVIOUS
<1>5. CASE \A i \in 1 .. n : es[i].write5 = 0 /\ es[i].write1 = 0
  <2>1. \A i, j \in 1 .. n : es[i].write > 0 /\ es[j].write > 0 => es[i].write = es[j].write
    <3>1. CASE \A i, j \in DOMAIN es : es[i].write > 0 /\ es[j].write > 0
                                        => es[i].write = es[j].write
      BY <3>1, <1>1
    <3>2. CASE \A i \in DOMAIN es : es[i].write > 0 =>
                 \E j \in 1 .. i : es[j].write5 + es[j].write1 > 0
      <4>1. ASSUME NEW i \in 1 .. n PROVE ~(es[i].write > 0)
        <5>1. ASSUME NEW j \in 1 .. i PROVE ~(es[j].write5 + es[j].write1 > 0)
          <6>1. j \in 1 .. n
            BY <1>1
          <6> QED BY <6>1, <1>5
        <5> QED BY <3>2, <5>1, <1>1
      <4> QED BY <4>1
    <3> QED BY <1>4, <3>1, <3>2 DEF Consistent
  <2>2. t.write5 + t.write1 = Most(answer, "write")
    BY <1>5, <2>1, TotalOfWrites
  <2>3. m5 = 0 /\ m1 = 0
    <3>1. "write5" \in Counts /\ "write1" \in Counts
      BY DEF Counts
    <3>2. Tops(0, Series(answer, "write5"), n) /\ Tops(0, Series(answer, "write1"), n)
      BY <1>5 DEF Tops, Series
    <3> QED BY <3>1, <3>2, MostIsTop
  <2> HIDE DEF m5, m1, t
  <2>4. Written(answer) = Most(answer, "write")
    BY <1>3, <2>3
  <2> QED BY <2>2, <2>4 DEF t
<1>6. CASE ~\A i \in 1 .. n : es[i].write5 = 0 /\ es[i].write1 = 0
  <2>1. PICK k \in 1 .. n : es[k].write5 + es[k].write1 > 0
    BY <1>1, <1>6
  <2>2. \A i \in 1 .. n : es[i].write > 0 =>
          \E j \in 1 .. i : es[j].write5 + es[j].write1 > 0
    BY <1>1, <1>4, <2>1 DEF Consistent
  <2>3. t.write5 = m5 /\ t.write1 = m1
    BY <2>2, KindsOfWrites
  <2>4. m5 >= es[k].write5 /\ m1 >= es[k].write1
    BY <2>2, <2>3, KindsOfWrites
  <2>5. m5 \in Nat /\ m1 \in Nat
    BY <1>2, <2>3
  <2> HIDE DEF m5, m1, t
  <2>6. m5 + m1 > 0
    BY <1>1, <2>1, <2>4, <2>5
  <2>7. Written(answer) = m5 + m1
    BY <1>3, <2>6
  <2> QED BY <2>3, <2>7 DEF t
<1> QED BY <1>5, <1>6

\* What is charged for an answer that is recorded.
LEMMA ChargeIsReported ==
  ASSUME NEW answer \in Answer, Reports(answer), Consistent(answer)
  PROVE  Tokens(Extract(answer)) = Most(answer, "input") + Most(answer, "output")
           + (IF answer.tool = "Codex" THEN 0 ELSE Most(answer, "read") + Written(answer))
<1>1. PICK w : /\ ReadIn(w, answer)
               /\ Extract(answer) =
                     LET t == w[Len(answer.events)]
                         cached == t.read + t.write5 + t.write1
                     IN  IF answer.tool = "Codex"
                         THEN [t EXCEPT !.input = IF @ > cached THEN @ - cached ELSE 0] ELSE t
  BY ReadRuns
<1> DEFINE n == Len(answer.events)
           t == w[n]
           cached == t.read + t.write5 + t.write1
           less == IF t.input > cached THEN t.input - cached ELSE 0
           x == Extract(answer)
<1>2. t \in TokenCounts
  <2>1. answer.events \in Seq(Report)
    BY AnswerAssumption
  <2>2. n \in 0 .. n
    BY <2>1
  <2> QED BY <1>1, <2>2 DEF ReadIn, ReadRun
<1>3. x = IF answer.tool = "Codex" THEN [t EXCEPT !.input = less] ELSE t
  BY <1>1
<1>4. answer.events # <<>>
  <2> SUFFICES ASSUME answer.events = <<>> PROVE FALSE
    OBVIOUS
  <2>1. Len(answer.events) = 0
    OBVIOUS
  <2>2. t = NoTokens
    BY <1>1, <2>1 DEF ReadIn, ReadRun
  <2>3. x = NoTokens
    <3>1. NoTokens.input = 0 /\ NoTokens.read = 0 /\ NoTokens.write5 = 0 /\ NoTokens.write1 = 0
      BY DEF NoTokens
    <3>2. less = 0
      BY <2>2, <3>1
    <3>3. [NoTokens EXCEPT !.input = 0] = NoTokens
      BY DEF NoTokens
    <3> HIDE DEF less, t, x
    <3> QED BY <1>3, <2>2, <3>2, <3>3
  <2>4. Tokens(NoTokens) = 0
    BY DEF Tokens, NoTokens
  <2> HIDE DEF x
  <2>5. Tokens(x) > 0
    BY DEF Reports, x
  <2> QED BY <2>3, <2>4, <2>5
<1>5. /\ t.input = Most(answer, "input") /\ t.output = Most(answer, "output")
      /\ t.read = Most(answer, "read")
  BY <1>1, <1>4, PlainCounts
<1>6. t.write5 + t.write1 = Written(answer)
  BY <1>1, <1>4, WritesAreWritten
<1>7. /\ t.input \in Nat /\ t.output \in Nat /\ t.read \in Nat /\ t.write5 \in Nat
      /\ t.write1 \in Nat
  <2> HIDE DEF t
  <2> QED BY <1>2 DEF TokenCounts
<1> HIDE DEF x
<1>8. CASE answer.tool # "Codex"
  <2>1. x = t
    BY <1>3, <1>8
  <2> HIDE DEF t
  <2>2. Tokens(x) = t.input + t.output + t.read + t.write5 + t.write1
    BY <2>1 DEF Tokens
  <2> QED BY <1>5, <1>6, <1>7, <1>8, <2>2 DEF x
<1>9. CASE answer.tool = "Codex"
  <2>1. Most(answer, "input") >= Most(answer, "read") + Written(answer)
    BY <1>4, <1>9 DEF Consistent
  <2>2. t.input >= cached
    <3> HIDE DEF t
    <3> QED BY <1>5, <1>6, <1>7, <2>1
  <2>3. x = [t EXCEPT !.input = less]
    BY <1>3, <1>9
  <2> HIDE DEF t
  <2>4. less = t.input - cached /\ less \in Nat
    BY <1>7, <2>2
  <2> HIDE DEF less
  <2>5. x.input = less /\ x.output = t.output /\ x.read = t.read /\ x.write5 = t.write5
        /\ x.write1 = t.write1
    BY <1>2, <2>3 DEF TokenCounts
  <2>6. Tokens(x) = less + t.output + t.read + t.write5 + t.write1
    BY <2>5 DEF Tokens
  <2>7. Tokens(x) = t.input + t.output
    BY <1>7, <2>4, <2>6
  <2> QED BY <1>5, <1>9, <2>7, <1>7 DEF x
<1> QED BY <1>8, <1>9

\* A price is a number.
LEMMA EstimateIsTyped ==
  ASSUME NEW model \in DOMAIN Prices, NEW t \in TokenCounts
  PROVE  Estimate(model, t) \in SUBSET Nat
<1>1. ASSUME NEW tokens \in Nat, NEW rate \in Nat PROVE Cost(tokens, rate) \in Nat
  <2>1. tokens * rate \in Nat
    OBVIOUS
  <2> DEFINE p == tokens * rate
  <2> HIDE DEF p
  <2>2. p \in Nat => p \div Million \in Nat
    BY MeteringNumbers
  <2> QED BY <2>1, <2>2 DEF Cost, p
<1> DEFINE Chosen(card) == IF t.input + t.read + t.write5 + t.write1 > LongContext
                              /\ card.long # {}
                           THEN Only(card.long) ELSE card.base
           Price(rates) ==
             IF \E kind \in Cached : t[kind] > 0 /\ rates[kind] = {} THEN {}
             ELSE {Cost(t.input, rates.input) + Cost(t.output, rates.output)
                   + CachedCost(t, rates, "read") + CachedCost(t, rates, "write5")
                   + CachedCost(t, rates, "write1")}
<1>2. ASSUME NEW card \in Prices[model] PROVE Chosen(card) \in Rates
  <2>1. card \in [base : Rates, long : SUBSET Rates]
    BY PricesAssumption
  <2>2. card.base \in Rates /\ card.long \in SUBSET Rates
    BY <2>1
  <2>3. card.long # {} => Only(card.long) \in Rates
    BY <2>2 DEF Only
  <2> QED BY <2>2, <2>3
<1>3. ASSUME NEW rates \in Rates PROVE Price(rates) \in SUBSET Nat
  <2>1. CASE \E kind \in Cached : t[kind] > 0 /\ rates[kind] = {}
    BY <2>1
  <2>2. CASE ~\E kind \in Cached : t[kind] > 0 /\ rates[kind] = {}
    <3>1. /\ t.input \in Nat /\ t.output \in Nat
          /\ \A kind \in Cached : t[kind] \in Nat
      BY DEF TokenCounts, Cached
    <3>2. /\ rates.input \in Nat /\ rates.output \in Nat
          /\ \A kind \in Cached : rates[kind] \in SUBSET Nat
      BY DEF Rates, Cached
    <3>3. ASSUME NEW kind \in Cached PROVE CachedCost(t, rates, kind) \in Nat
      <4>1. CASE t[kind] = 0
        BY <4>1 DEF CachedCost
      <4>2. CASE t[kind] # 0
        <5>1. rates[kind] # {} /\ rates[kind] \in SUBSET Nat
          BY <2>2, <3>1, <3>2, <4>2
        <5>2. Only(rates[kind]) \in Nat
          BY <5>1 DEF Only
        <5>3. Cost(t[kind], Only(rates[kind])) \in Nat
          BY <1>1, <3>1, <5>2
        <5> QED BY <5>3 DEF CachedCost
      <4> QED BY <4>1, <4>2
    <3>4. /\ CachedCost(t, rates, "read") \in Nat /\ CachedCost(t, rates, "write5") \in Nat
          /\ CachedCost(t, rates, "write1") \in Nat
      BY <3>3 DEF Cached
    <3>5. Cost(t.input, rates.input) \in Nat /\ Cost(t.output, rates.output) \in Nat
      BY <1>1, <3>1, <3>2
    <3>6. Cost(t.input, rates.input) + Cost(t.output, rates.output)
                   + CachedCost(t, rates, "read") + CachedCost(t, rates, "write5")
                   + CachedCost(t, rates, "write1") \in Nat
      BY <3>4, <3>5
    <3> QED BY <2>2, <3>6
  <2> QED BY <2>1, <2>2
<1>4. Estimate(model, t) = UNION {Price(Chosen(card)) : card \in Prices[model]}
  BY DEF Estimate
<1> HIDE DEF Price, Chosen
<1> QED BY <1>2, <1>3, <1>4

\* So is what it is worth, nothing where there is none.
LEMMA WorthIsTyped ==
  ASSUME NEW price \in SUBSET Nat
  PROVE  Worth(price) \in Nat
  BY DEF Worth, Only

-----------------------------------------------------------------------------
(***************************************************************************)
(* Metering: the books.                                                    *)
(***************************************************************************)

Usage == [at : Nat, tokens : Nat]
Entry == [answer : Answer, at : Nat, tokens : Nat, price : SUBSET Nat]
Summary == [requests : Nat, tokens : Nat, cost : Nat, unpriced : Nat]

\* What a line of the history adds to a summary, and an event or a line to a window.
OneOf(model) == [h \in Entry |-> IF h.answer.model = model THEN 1 ELSE 0]
TokensOf(model) == [h \in Entry |-> IF h.answer.model = model THEN h.tokens ELSE 0]
CostOf(model) == [h \in Entry |-> IF h.answer.model = model THEN Worth(h.price) ELSE 0]
UnpricedOf(model) == [h \in Entry |-> IF h.answer.model = model /\ h.price = {} THEN 1 ELSE 0]
InWindow(after, until) == [e \in Usage |-> Counted(e, after, until)]
ListedIn(after, until) == [h \in Entry |-> Counted(h, after, until)]

\* Each of these is a number for every entry.
LEMMA AmountsAreTyped ==
  /\ \A model : /\ OneOf(model) \in [Entry -> Nat] /\ TokensOf(model) \in [Entry -> Nat]
                /\ CostOf(model) \in [Entry -> Nat] /\ UnpricedOf(model) \in [Entry -> Nat]
  /\ \A a, b \in Int : InWindow(a, b) \in [Usage -> Nat] /\ ListedIn(a, b) \in [Entry -> Nat]
<1>1. \A h \in Entry : h.tokens \in Nat /\ Worth(h.price) \in Nat
  BY WorthIsTyped DEF Entry
<1>2. \A e \in Usage : e.tokens \in Nat
  BY DEF Usage
<1>3. ASSUME NEW model
      PROVE  /\ OneOf(model) \in [Entry -> Nat] /\ TokensOf(model) \in [Entry -> Nat]
             /\ CostOf(model) \in [Entry -> Nat] /\ UnpricedOf(model) \in [Entry -> Nat]
  <2> HIDE DEF Entry
  <2> QED BY <1>1 DEF OneOf, TokensOf, CostOf, UnpricedOf
<1>4. \A a, b \in Int : InWindow(a, b) \in [Usage -> Nat] /\ ListedIn(a, b) \in [Entry -> Nat]
  BY <1>1, <1>2 DEF InWindow, ListedIn, Counted
<1> QED BY <1>3, <1>4

\* The windows agree with the history from any time on that the longest can reach.
WindowsAgree ==
  \A a, b \in Int : a >= clock - Week =>
    Total(Amounts(events, InWindow(a, b))) = Total(Amounts(history, ListedIn(a, b)))

SummariesAgree ==
  \A model \in DOMAIN Prices :
    /\ usage[model].requests = Total(Amounts(history, OneOf(model)))
    /\ usage[model].tokens = Total(Amounts(history, TokensOf(model)))
    /\ usage[model].cost = Total(Amounts(history, CostOf(model)))
    /\ usage[model].unpriced = Total(Amounts(history, UnpricedOf(model)))

BooksInv ==
  /\ events \in Seq(Usage) /\ history \in Seq(Entry)
  /\ usage \in [DOMAIN Prices -> Summary]
  /\ limits \in TokenLimits \cup {NoLimits}
  /\ \A i \in DOMAIN events : events[i].at <= clock /\ events[i].tokens > 0
  /\ SummariesAgree
  /\ WindowsAgree
  /\ ChargedAsReported

\* Dropping what no window can reach any more changes no window.
LEMMA KeptIsEnough ==
  ASSUME NEW es \in Seq(Usage), NEW now \in Int
  PROVE  /\ Kept(es, now) \in Seq(Usage)
         /\ \A k \in DOMAIN Kept(es, now) : \E i \in DOMAIN es : Kept(es, now)[k] = es[i]
         /\ \A a, b \in Int : a >= now - Week =>
              Total(Amounts(Kept(es, now), InWindow(a, b))) = Total(Amounts(es, InWindow(a, b)))
<1> DEFINE some == {e \in ToSet(es) : e.at > now - Week}
           q == Those(es, some)
<1>1. Kept(es, now) = q
  BY DEF Kept
<1>2. \A i \in 1 .. Len(es) : es[i] \in Usage /\ (es[i] \notin some => ~(es[i].at > now - Week))
  BY DEF ToSet
<1> HIDE DEF some
<1>3. q \in Seq(Usage) /\ Picked(q, es, some, Len(es))
  BY ThoseAreThere
<1>4. ASSUME NEW a \in Int, NEW b \in Int, a >= now - Week
      PROVE  Total(Amounts(q, InWindow(a, b))) = Total(Amounts(es, InWindow(a, b)))
  <2> DEFINE g == InWindow(a, b)
  <2>1. g \in [Usage -> Nat]
    BY AmountsAreTyped
  <2>2. ASSUME NEW i \in 1 .. Len(es), es[i] \notin some PROVE g[es[i]] = 0
    <3>1. es[i] \in Usage /\ ~(es[i].at > now - Week)
      BY <1>2, <2>2
    <3>2. es[i].at \in Nat
      BY <3>1 DEF Usage
    <3>3. ~(es[i].at > a)
      BY <3>1, <3>2, <1>4, MeteringNumbers
    <3> QED BY <3>1, <3>3 DEF InWindow, Counted
  <2> HIDE DEF g
  <2>3. Total(Amounts(q, g)) = Total(Amounts(es, g))
    BY <2>1, <2>2, NothingIsMissed
  <2> QED BY <2>3 DEF g
<1> HIDE DEF q
<1>5. \A k \in DOMAIN q : \E i \in DOMAIN es : q[k] = es[i]
  <2>1. DOMAIN q = 1 .. Len(q) /\ DOMAIN es = 1 .. Len(es)
    BY <1>3
  <2>2. PICK at : Origin(q, es, some, Len(es), at)
    BY <1>3 DEF Picked
  <2> QED BY <2>1, <2>2 DEF Origin
<1> QED BY <1>1, <1>3, <1>4, <1>5

\* The books' half of the invariant holds when the application starts.
LEMMA BooksInit == MeteringInit => BooksInv
<1> SUFFICES ASSUME MeteringInit PROVE BooksInv
  OBVIOUS
<1>1. events = <<>> /\ history = <<>> /\ usage = [model \in DOMAIN Prices |-> Unused]
      /\ limits = NoLimits
  BY DEF MeteringInit
<1>2. \A g : Amounts(<<>>, g) = <<>>
  BY DEF Amounts
<1>3. Unused \in Summary /\ Unused.requests = 0 /\ Unused.tokens = 0 /\ Unused.cost = 0
      /\ Unused.unpriced = 0
  BY DEF Unused, Summary
<1>4. SummariesAgree
  BY <1>1, <1>2, <1>3, TotalOfNone DEF SummariesAgree
<1>5. WindowsAgree
  BY <1>1, <1>2 DEF WindowsAgree
<1>6. usage \in [DOMAIN Prices -> Summary]
  BY <1>1, <1>3
<1>7. ChargedAsReported
  BY <1>1 DEF ChargedAsReported
<1>8. events \in Seq(Usage) /\ history \in Seq(Entry) /\ DOMAIN events = {}
  BY <1>1
<1> QED BY <1>1, <1>4, <1>5, <1>6, <1>7, <1>8 DEF BooksInv

\* A step that only drops what no window can reach keeps it.
LEMMA RefreshKeeps ==
  ASSUME RequestsInv, BooksInv, events' = events \/ events' = Kept(events, clock),
         UNCHANGED <<clock, usage, history>>, limits' \in TokenLimits \cup {NoLimits}
  PROVE  BooksInv'
<1>1. clock \in Int /\ events \in Seq(Usage)
  BY MeteringNumbers DEF RequestsInv, BooksInv
<1>2. /\ events' \in Seq(Usage)
      /\ \A k \in DOMAIN events' : \E i \in DOMAIN events : events'[k] = events[i]
      /\ \A a, b \in Int : a >= clock - Week =>
           Total(Amounts(events', InWindow(a, b))) = Total(Amounts(events, InWindow(a, b)))
  <2>1. CASE events' = events
    BY <2>1, <1>1
  <2>2. CASE events' = Kept(events, clock)
    <3> DEFINE q == Kept(events, clock)
    <3>1. /\ q \in Seq(Usage)
          /\ \A k \in DOMAIN q : \E i \in DOMAIN events : q[k] = events[i]
          /\ \A a, b \in Int : a >= clock - Week =>
               Total(Amounts(q, InWindow(a, b))) = Total(Amounts(events, InWindow(a, b)))
      BY <1>1, KeptIsEnough
    <3> HIDE DEF q
    <3> QED BY <2>2, <3>1 DEF q
  <2> QED BY <2>1, <2>2
<1>3. WindowsAgree'
  <2> SUFFICES ASSUME NEW a \in Int, NEW b \in Int, a >= clock - Week
               PROVE  Total(Amounts(events', InWindow(a, b)))
                        = Total(Amounts(history, ListedIn(a, b)))
    BY DEF WindowsAgree, InWindow, ListedIn, Counted
  <2> QED BY <1>2 DEF BooksInv, WindowsAgree
<1>4. SummariesAgree'
  BY DEF BooksInv, SummariesAgree
<1>5. ChargedAsReported'
  BY DEF BooksInv, ChargedAsReported
<1>6. \A k \in DOMAIN events' : events'[k].at <= clock /\ events'[k].tokens > 0
  BY <1>2 DEF BooksInv
<1>7. history' = history /\ usage' = usage /\ clock' = clock
  OBVIOUS
<1> QED BY <1>2, <1>3, <1>4, <1>5, <1>6, <1>7 DEF BooksInv

\* An answer that is recorded goes into the seat's summary, the windows and the
\* history alike.
LEMMA RecordKeeps ==
  ASSUME RequestsInv, BooksInv, NEW r \in Metered, flight[r] # Never,
         NEW answer \in Answer, Reports(answer), RecordUsage(r, answer),
         UNCHANGED <<clock, limits>>
  PROVE  BooksInv'
<1> DEFINE x == Extract(answer)
           tokens == Tokens(x)
           price == Estimate(answer.model, x)
           at == flight[r]
           e == [at |-> at, tokens |-> tokens]
           h == HistoryRecord(answer, at, tokens, price)
           es == Append(events, e)
           model == answer.model
<1>1. /\ usage' = [usage EXCEPT ![model] = Applied(@, tokens, price)]
      /\ events' = Kept(es, at) /\ history' = Append(history, h)
  BY DEF RecordUsage
<1>2. model \in DOMAIN Prices
  <2>1. answer \in [tool : {"Claude", "Codex"}, model : DOMAIN Prices, hour : BOOLEAN,
                    accepted : BOOLEAN, events : Seq(Report)]
    BY AnswerAssumption
  <2> QED BY <2>1
<1>3. x \in TokenCounts /\ tokens \in Nat /\ tokens > 0
  BY ExtractIsTyped DEF Reports
<1>4. price \in SUBSET Nat
  BY <1>2, <1>3, EstimateIsTyped
<1>5. at \in Nat /\ at <= clock /\ clock \in Nat
  BY MeteringNumbers DEF RequestsInv
<1> HIDE DEF x, tokens, price, at, model
<1>6. e \in Usage /\ e.at = at /\ e.tokens = tokens
  BY <1>3, <1>5 DEF Usage
<1>7. h \in Entry /\ h.answer = answer /\ h.at = at /\ h.tokens = tokens /\ h.price = price
  BY <1>3, <1>4, <1>5 DEF HistoryRecord, Entry
<1> HIDE DEF e, h
<1>8. events \in Seq(Usage) /\ history \in Seq(Entry)
  BY DEF BooksInv
<1>9. /\ es \in Seq(Usage) /\ DOMAIN es = 1 .. Len(events) + 1 /\ Len(events) \in Nat
      /\ DOMAIN events = 1 .. Len(events)
      /\ \A i \in 1 .. Len(events) + 1 : es[i] = e \/ (i \in DOMAIN events /\ es[i] = events[i])
  BY <1>6, <1>8
<1>10. /\ Append(history, h) \in Seq(Entry) /\ DOMAIN history' = 1 .. Len(history) + 1
       /\ Len(history) \in Nat /\ DOMAIN history = 1 .. Len(history)
       /\ \A i \in DOMAIN history' :
            history'[i] = h \/ (i \in DOMAIN history /\ history'[i] = history[i])
  BY <1>1, <1>7, <1>8
<1>11. /\ events' \in Seq(Usage)
       /\ \A k \in DOMAIN events' : \E i \in DOMAIN es : events'[k] = es[i]
       /\ \A a, b \in Int : a >= at - Week =>
            Total(Amounts(events', InWindow(a, b))) = Total(Amounts(es, InWindow(a, b)))
  <2>3. at \in Int /\ es \in Seq(Usage)
    BY <1>5, <1>9
  <2> HIDE DEF es
  <2> DEFINE q == Kept(es, at)
  <2>1. /\ q \in Seq(Usage)
        /\ \A k \in DOMAIN q : \E i \in DOMAIN es : q[k] = es[i]
        /\ \A a, b \in Int : a >= at - Week =>
             Total(Amounts(q, InWindow(a, b))) = Total(Amounts(es, InWindow(a, b)))
    BY <2>3, KeptIsEnough
  <2> HIDE DEF q
  <2> QED BY <1>1, <2>1 DEF q
<1>12. \A k \in DOMAIN events' : events'[k].at <= clock /\ events'[k].tokens > 0
  <2>1. \A i \in DOMAIN es : es[i].at <= clock /\ es[i].tokens > 0
    <3> HIDE DEF es
    <3> QED BY <1>3, <1>5, <1>6, <1>9 DEF BooksInv
  <2> HIDE DEF es
  <2> QED BY <1>11, <2>1
<1>13. WindowsAgree'
  <2> SUFFICES ASSUME NEW a \in Int, NEW b \in Int, a >= clock - Week
               PROVE  Total(Amounts(events', InWindow(a, b)))
                        = Total(Amounts(history', ListedIn(a, b)))
    BY DEF WindowsAgree, InWindow, ListedIn, Counted
  <2> DEFINE g == InWindow(a, b)
             k == ListedIn(a, b)
  <2>1. g \in [Usage -> Nat] /\ k \in [Entry -> Nat]
    BY AmountsAreTyped
  <2>2. g[e] = k[h]
    BY <1>6, <1>7 DEF InWindow, ListedIn, Counted
  <2>3. Total(Amounts(events, g)) = Total(Amounts(history, k))
    BY DEF BooksInv, WindowsAgree
  <2>4. Total(Amounts(events', g)) = Total(Amounts(es, g))
    BY <1>5, <1>11, MeteringNumbers
  <2> HIDE DEF g, k
  <2>5. Total(Amounts(es, g)) = Total(Amounts(events, g)) + g[e]
    BY <1>6, <1>8, <2>1, AmountsGrow
  <2>6. Total(Amounts(Append(history, h), k)) = Total(Amounts(history, k)) + k[h]
    BY <1>7, <1>8, <2>1, AmountsGrow
  <2>7. Total(Amounts(events', g)) = Total(Amounts(history', k))
    BY <1>1, <2>2, <2>3, <2>4, <2>5, <2>6
  <2> QED BY <2>7 DEF g, k
<1>14. \A m : /\ Total(Amounts(history', OneOf(m)))
                   = Total(Amounts(history, OneOf(m))) + OneOf(m)[h]
              /\ Total(Amounts(history', TokensOf(m)))
                   = Total(Amounts(history, TokensOf(m))) + TokensOf(m)[h]
              /\ Total(Amounts(history', CostOf(m)))
                   = Total(Amounts(history, CostOf(m))) + CostOf(m)[h]
              /\ Total(Amounts(history', UnpricedOf(m)))
                   = Total(Amounts(history, UnpricedOf(m))) + UnpricedOf(m)[h]
  <2>1. \A g \in [Entry -> Nat] :
          Total(Amounts(history', g)) = Total(Amounts(history, g)) + g[h]
    BY <1>1, <1>7, <1>8, AmountsGrow
  <2> QED BY <2>1, AmountsAreTyped
<1>15. usage' \in [DOMAIN Prices -> Summary] /\ SummariesAgree'
  <2> DEFINE old == usage[model]
             new == Applied(old, tokens, price)
  <2>1. usage \in [DOMAIN Prices -> Summary] /\ old \in Summary
    BY <1>2 DEF BooksInv
  <2>2. Worth(price) \in Nat
    BY <1>4, WorthIsTyped
  <2>3. /\ new.requests = old.requests + 1 /\ new.tokens = old.tokens + tokens
        /\ new.cost = old.cost + Worth(price)
        /\ new.unpriced = old.unpriced + (IF price = {} THEN 1 ELSE 0)
    BY DEF Applied
  <2>4. new \in Summary
    <3>1. old.requests \in Nat /\ old.tokens \in Nat /\ old.cost \in Nat /\ old.unpriced \in Nat
      BY <2>1 DEF Summary
    <3>2. new = [requests |-> new.requests, tokens |-> new.tokens, cost |-> new.cost,
                 unpriced |-> new.unpriced]
      BY DEF Applied
    <3> HIDE DEF old, new
    <3>3. new.requests \in Nat /\ new.tokens \in Nat /\ new.cost \in Nat /\ new.unpriced \in Nat
      BY <1>3, <2>2, <2>3, <3>1
    <3> QED BY <3>2, <3>3 DEF Summary
  <2>5. usage' = [usage EXCEPT ![model] = new]
    BY <1>1, <2>1
  <2> HIDE DEF new
  <2>6. /\ usage' \in [DOMAIN Prices -> Summary] /\ usage'[model] = new
        /\ \A m \in DOMAIN Prices : m # model => usage'[m] = usage[m]
    BY <1>2, <2>1, <2>4, <2>5
  <2>7. /\ OneOf(model)[h] = 1 /\ TokensOf(model)[h] = tokens /\ CostOf(model)[h] = Worth(price)
        /\ UnpricedOf(model)[h] = IF price = {} THEN 1 ELSE 0
    BY <1>7 DEF OneOf, TokensOf, CostOf, UnpricedOf, model
  <2>8. ASSUME NEW m, m # model
        PROVE  OneOf(m)[h] = 0 /\ TokensOf(m)[h] = 0 /\ CostOf(m)[h] = 0 /\ UnpricedOf(m)[h] = 0
    BY <1>7, <2>8 DEF OneOf, TokensOf, CostOf, UnpricedOf, model
  <2>9. ASSUME NEW m \in DOMAIN Prices
        PROVE  /\ usage'[m].requests = Total(Amounts(history', OneOf(m)))
               /\ usage'[m].tokens = Total(Amounts(history', TokensOf(m)))
               /\ usage'[m].cost = Total(Amounts(history', CostOf(m)))
               /\ usage'[m].unpriced = Total(Amounts(history', UnpricedOf(m)))
    <3>1. /\ usage[m].requests = Total(Amounts(history, OneOf(m)))
          /\ usage[m].tokens = Total(Amounts(history, TokensOf(m)))
          /\ usage[m].cost = Total(Amounts(history, CostOf(m)))
          /\ usage[m].unpriced = Total(Amounts(history, UnpricedOf(m)))
      BY DEF BooksInv, SummariesAgree
    <3>2. CASE m = model
      BY <3>1, <3>2, <1>14, <2>3, <2>6, <2>7
    <3>3. CASE m # model
      <4>1. usage[m] \in Summary
        BY <2>1
      <4>2. /\ usage[m].requests \in Nat /\ usage[m].tokens \in Nat /\ usage[m].cost \in Nat
            /\ usage[m].unpriced \in Nat
        BY <4>1 DEF Summary
      <4> QED BY <3>1, <3>3, <4>2, <1>14, <2>6, <2>8
    <3> QED BY <3>2, <3>3
  <2> QED BY <2>6, <2>9 DEF SummariesAgree, OneOf, TokensOf, CostOf, UnpricedOf
<1>16. ChargedAsReported'
  <2>1. Consistent(answer) => tokens = Most(answer, "input") + Most(answer, "output")
           + (IF answer.tool = "Codex" THEN 0 ELSE Most(answer, "read") + Written(answer))
    BY ChargeIsReported DEF tokens, x
  <2>2. ChargedAsReported
    BY DEF BooksInv
  <2> QED BY <1>7, <1>10, <2>1, <2>2 DEF ChargedAsReported
<1>17. history' \in Seq(Entry) /\ clock' = clock /\ limits' \in TokenLimits \cup {NoLimits}
  BY <1>1, <1>10 DEF BooksInv
<1> QED BY <1>11, <1>12, <1>13, <1>15, <1>16, <1>17 DEF BooksInv

\* Every step keeps the books' half.
LEMMA BooksStep == RequestsInv /\ BooksInv /\ [MeteringNext]_meteringVars => BooksInv'
<1> SUFFICES ASSUME RequestsInv, BooksInv, [MeteringNext]_meteringVars PROVE BooksInv'
  OBVIOUS
<1>1. limits \in TokenLimits \cup {NoLimits}
  BY DEF BooksInv
<1>2. CASE UNCHANGED meteringVars
  BY <1>1, <1>2, RefreshKeeps DEF meteringVars
<1>3. CASE Tick
  <2>1. clock' = clock + 1 /\ UNCHANGED <<limits, events, usage, history>> /\ clock \in Nat
    BY <1>3, MeteringNumbers DEF Tick, RequestsInv
  <2>2. WindowsAgree'
    <3> SUFFICES ASSUME NEW a \in Int, NEW b \in Int, a >= clock' - Week
                 PROVE  Total(Amounts(events, InWindow(a, b)))
                          = Total(Amounts(history, ListedIn(a, b)))
      BY <2>1 DEF WindowsAgree, InWindow, ListedIn, Counted
    <3>1. a >= clock - Week
      BY <2>1, MeteringNumbers
    <3> QED BY <3>1 DEF BooksInv, WindowsAgree
  <2>3. ChargedAsReported'
    BY <2>1 DEF BooksInv, ChargedAsReported
  <2>4. SummariesAgree'
    BY <2>1 DEF BooksInv, SummariesAgree
  <2>5. \A i \in DOMAIN events' : events'[i].at <= clock' /\ events'[i].tokens > 0
    <3>1. \A i \in DOMAIN events : events[i].at \in Nat /\ events[i].at <= clock
                                   /\ events[i].tokens > 0
      <4>1. events \in Seq(Usage)
        BY DEF BooksInv
      <4>2. \A i \in DOMAIN events : events[i] \in Usage
        BY <4>1
      <4>3. \A e \in Usage : e.at \in Nat
        BY DEF Usage
      <4> QED BY <4>2, <4>3 DEF BooksInv
    <3> QED BY <2>1, <3>1
  <2> QED BY <2>1, <2>2, <2>3, <2>4, <2>5 DEF BooksInv
<1>4. CASE SetLimits
  BY <1>1, <1>4, RefreshKeeps DEF SetLimits
<1>5. ASSUME NEW r \in Metered, Make(r) PROVE BooksInv'
  BY <1>1, <1>5, RefreshKeeps DEF Make
<1>6. ASSUME NEW r \in Metered, Arrive(r) PROVE BooksInv'
  BY <1>1, <1>6, RefreshKeeps DEF Arrive
<1>7. ASSUME NEW r \in Metered, FinishRequest(r) PROVE BooksInv'
  <2>1. flight[r] # Never /\ UNCHANGED <<clock, limits>>
    BY <1>7 DEF FinishRequest
  <2>2. PICK answer \in Answer : IF Reports(answer) THEN RecordUsage(r, answer)
                                 ELSE UNCHANGED <<usage, events, history>>
    BY <1>7 DEF FinishRequest
  <2>3. CASE Reports(answer)
    BY <2>1, <2>2, <2>3, RecordKeeps
  <2>4. CASE ~Reports(answer)
    BY <1>1, <2>1, <2>2, <2>4, RefreshKeeps
  <2> QED BY <2>3, <2>4
<1> QED BY <1>2, <1>3, <1>4, <1>5, <1>6, <1>7 DEF MeteringNext

\* Both halves hold always.
LEMMA BooksInvariant == MeteringSpec => [](RequestsInv /\ BooksInv)
<1>1. MeteringInit => RequestsInv /\ BooksInv
  BY RequestsInit, BooksInit
<1>2. RequestsInv /\ BooksInv /\ [MeteringNext]_meteringVars => (RequestsInv /\ BooksInv)'
  BY RequestsStep, BooksStep
<1> QED BY <1>1, <1>2, PTL DEF MeteringSpec

\* However often a request is delivered, and although the host forgets the ids of old
\* ones (binding_for_request), it is executed once; what is charged is what the
\* answer's records report (extract_usage); and the seat's summaries, the durable
\* history and the rolling windows tell the same usage (apply_usage, record_tokens).
THEOREM RequestsStayAccounted == MeteringSpec => []RequestsAccounted
<1>1. RequestsInv /\ BooksInv => RequestsAccounted
  <2> SUFFICES ASSUME RequestsInv, BooksInv PROVE RequestsAccounted
    OBVIOUS
  <2>1. ServedOnce
    <3> SUFFICES ASSUME NEW r \in Metered, served[r] > 1 PROVE r \in ahead
      BY DEF ServedOnce
    <3> QED BY DEF RequestsInv, OnceOnly
  <2>2. events \in Seq(Usage) /\ history \in Seq(Entry)
    BY DEF BooksInv
  <2>3. DOMAIN events = 1 .. Len(events) /\ DOMAIN history = 1 .. Len(history)
        /\ (\A i \in DOMAIN events : events[i] \in Usage)
        /\ \A i \in DOMAIN history : history[i] \in Entry
    BY <2>2
  <2>4. ASSUME NEW model \in DOMAIN Prices
        PROVE  LET mine(i) == history[i].answer.model = model IN
               /\ usage[model].requests
                    = Total([i \in DOMAIN history |-> IF mine(i) THEN 1 ELSE 0])
               /\ usage[model].tokens
                    = Total([i \in DOMAIN history |-> IF mine(i) THEN history[i].tokens ELSE 0])
               /\ usage[model].cost
                    = Total([i \in DOMAIN history |->
                              IF mine(i) THEN Worth(history[i].price) ELSE 0])
               /\ usage[model].unpriced
                    = Total([i \in DOMAIN history |->
                              IF mine(i) /\ history[i].price = {} THEN 1 ELSE 0])
    <3>1. /\ usage[model].requests = Total(Amounts(history, OneOf(model)))
          /\ usage[model].tokens = Total(Amounts(history, TokensOf(model)))
          /\ usage[model].cost = Total(Amounts(history, CostOf(model)))
          /\ usage[model].unpriced = Total(Amounts(history, UnpricedOf(model)))
      BY DEF BooksInv, SummariesAgree
    <3>2. Amounts(history, OneOf(model))
            = [i \in DOMAIN history |-> IF history[i].answer.model = model THEN 1 ELSE 0]
      BY <2>3 DEF Amounts, OneOf
    <3>3. Amounts(history, TokensOf(model))
            = [i \in DOMAIN history |->
                IF history[i].answer.model = model THEN history[i].tokens ELSE 0]
      BY <2>3 DEF Amounts, TokensOf
    <3>4. Amounts(history, CostOf(model))
            = [i \in DOMAIN history |->
                IF history[i].answer.model = model THEN Worth(history[i].price) ELSE 0]
      BY <2>3 DEF Amounts, CostOf
    <3>5. Amounts(history, UnpricedOf(model))
            = [i \in DOMAIN history |->
                IF history[i].answer.model = model /\ history[i].price = {} THEN 1 ELSE 0]
      BY <2>3 DEF Amounts, UnpricedOf
    <3> QED BY <3>1, <3>2, <3>3, <3>4, <3>5
  <2>5. ASSUME NEW length \in {Five, Day, Week}
        PROVE  UsedIn(events, length, clock) = UsedIn(history, length, clock)
    <3> DEFINE a == clock - length
    <3>1. a \in Int /\ a >= clock - Week /\ clock \in Int
      BY MeteringNumbers DEF RequestsInv
    <3> HIDE DEF a
    <3>2. Total(Amounts(events, InWindow(a, clock))) = Total(Amounts(history, ListedIn(a, clock)))
      BY <3>1 DEF BooksInv, WindowsAgree
    <3>3. Amounts(events, InWindow(a, clock))
            = [i \in DOMAIN events |-> Counted(events[i], a, clock)]
      BY <2>3 DEF Amounts, InWindow
    <3>4. Amounts(history, ListedIn(a, clock))
            = [i \in DOMAIN history |-> Counted(history[i], a, clock)]
      BY <2>3 DEF Amounts, ListedIn
    <3> QED BY <3>2, <3>3, <3>4 DEF UsedIn, a
  <2>6. BooksAgree
    BY <2>4, <2>5 DEF BooksAgree
  <2> QED BY <2>1, <2>6 DEF BooksInv, RequestsAccounted
<1> QED BY <1>1, BooksInvariant, PTL

\* Types; a request in flight was admitted, and nothing lies in the future.
THEOREM MeteringStaysTyped == MeteringSpec => []MeteringTypeOK
<1>1. RequestsInv /\ BooksInv => MeteringTypeOK
  <2> SUFFICES ASSUME RequestsInv, BooksInv PROVE MeteringTypeOK
    OBVIOUS
  <2>1. events \in Seq(Usage) /\ clock \in Nat
    BY MeteringNumbers DEF RequestsInv, BooksInv
  <2>2. \A i \in DOMAIN events : events[i].at \in Nat
    <3>1. \A i \in DOMAIN events : events[i] \in Usage
      BY <2>1
    <3> QED BY <3>1 DEF Usage
  <2>3. \A i \in DOMAIN events : events[i].at \in 0 .. clock /\ events[i].tokens > 0
    BY <2>1, <2>2 DEF BooksInv
  <2> QED BY <2>3 DEF RequestsInv, BooksInv, MeteringTypeOK
<1> QED BY <1>1, BooksInvariant, PTL

-----------------------------------------------------------------------------
(***************************************************************************)
(* RideHistory. The inductive invariant: the file, and every copy in the   *)
(* hands of a command, names each ride once and offers one car at most;    *)
(* on Unix a file that was written once is there and can be read.          *)
(***************************************************************************)

EachOnce(list) == \A i, j \in DOMAIN list : list[i].of = list[j].of => i = j
OneCar(list) == \A i, j \in DOMAIN list : Resumable(list[i]) /\ Resumable(list[j]) => i = j
SoundRecords(list) == list \in Lists /\ EachOnce(list) /\ OneCar(list)

AnyCommand == [pc : {"rest", "write", "found none", "gap", "gap, none"}, list : Lists,
               goal : {"none", "start", "resume", "stop", "join", "list"},
               arg : HCar \cup HSeat \cup {"none"}]

\* A command starts a car and joins a seat.
FitsGoal(goal, x) == (goal = "start" => x \in HCar) /\ (goal = "join" => x \in HSeat)

HistoryInv ==
    /\ hbuild \in HBuild
    /\ hfile \in {NoFile, Damaged} \/ SoundRecords(hfile)
    /\ cmd \in [Command -> AnyCommand]
    /\ \A c \in Command : SoundRecords(cmd[c].list) /\ FitsGoal(cmd[c].goal, cmd[c].arg)
    /\ written \in BOOLEAN
    /\ (hbuild = "unix" /\ written) => hfile \notin {NoFile, Damaged}

\* A list of the file is a sequence of records, of that length at most.
LEMMA ListsAreSequences ==
  ASSUME NEW list
  PROVE  list \in Lists <=> (list \in Seq(Record) /\ Len(list) <= MaxRecords)
<1>1. MaxRecords \in Nat
  BY HistoryAssumption
<1>2. ASSUME list \in Lists PROVE list \in Seq(Record) /\ Len(list) <= MaxRecords
  <2>1. PICK n \in 0 .. MaxRecords : list \in [1 .. n -> Record]
    BY <1>2 DEF Lists
  <2>2. n \in Nat
    BY <1>1
  <2>3. list \in Seq(Record) /\ Len(list) = n
    BY <2>1, <2>2
  <2> QED BY <1>1, <2>3
<1>3. ASSUME list \in Seq(Record), Len(list) <= MaxRecords PROVE list \in Lists
  <2>1. Len(list) \in 0 .. MaxRecords /\ list \in [1 .. Len(list) -> Record]
    BY <1>1, <1>3
  <2> QED BY <2>1 DEF Lists
<1> QED BY <1>2, <1>3

\* A sound list is a sequence of records.
LEMMA SoundIsTyped ==
  ASSUME NEW list, SoundRecords(list)
  PROVE  /\ list \in Seq(Record) /\ Len(list) <= MaxRecords /\ Len(list) \in Nat
         /\ DOMAIN list = 1 .. Len(list)
         /\ \A i \in DOMAIN list : list[i] \in Record
<1>1. list \in Seq(Record) /\ Len(list) <= MaxRecords
  BY ListsAreSequences DEF SoundRecords
<1> QED BY <1>1

\* Where the elements of a list that are among some stand in it.
LEMMA ThoseComeFrom ==
  ASSUME NEW list \in Seq(Record), NEW some
  PROVE  /\ Those(list, some) \in Seq(Record)
         /\ \E at \in [DOMAIN Those(list, some) -> DOMAIN list] :
              \A j, k \in DOMAIN Those(list, some) :
                /\ list[at[k]] = Those(list, some)[k] /\ Those(list, some)[k] \in some
                /\ at[j] = at[k] => j = k
<1> DEFINE q == Those(list, some)
<1>1. q \in Seq(Record) /\ Picked(q, list, some, Len(list))
  BY ThoseAreThere
<1> HIDE DEF q
<1>2. DOMAIN q = 1 .. Len(q) /\ DOMAIN list = 1 .. Len(list) /\ Len(q) \in Nat
      /\ Len(list) \in Nat
  BY <1>1
<1>3. PICK at : Origin(q, list, some, Len(list), at)
  BY <1>1 DEF Picked
<1>4. at \in [DOMAIN q -> DOMAIN list]
  BY <1>2, <1>3 DEF Origin
<1>5. ASSUME NEW j \in DOMAIN q, NEW k \in DOMAIN q, at[j] = at[k] PROVE j = k
  <2>1. at[j] \in Nat /\ at[k] \in Nat /\ j \in Nat /\ k \in Nat
    BY <1>2, <1>4
  <2>2. (j < k => at[j] < at[k]) /\ (k < j => at[k] < at[j])
    BY <1>2, <1>3 DEF Origin
  <2> QED BY <2>1, <2>2, <1>5
<1>6. \A k \in DOMAIN q : list[at[k]] = q[k] /\ q[k] \in some
  BY <1>2, <1>3 DEF Origin
<1>7. \E to \in [DOMAIN q -> DOMAIN list] :
         \A j, k \in DOMAIN q : list[to[k]] = q[k] /\ q[k] \in some /\ (to[j] = to[k] => j = k)
  BY <1>4, <1>5, <1>6
<1> QED BY <1>1, <1>7 DEF q

\* Some of the records of a list name each ride once if all do, and stand for records of it.
LEMMA ThoseAreSound ==
  ASSUME NEW list \in Seq(Record), EachOnce(list), NEW some
  PROVE  /\ Those(list, some) \in Seq(Record) /\ EachOnce(Those(list, some))
         /\ OneCar(list) => OneCar(Those(list, some))
         /\ \A k \in DOMAIN Those(list, some) :
              /\ Those(list, some)[k] \in some
              /\ \E i \in DOMAIN list : Those(list, some)[k] = list[i]
<1> DEFINE q == Those(list, some)
<1>1. PICK at \in [DOMAIN q -> DOMAIN list] :
        \A j, k \in DOMAIN q : list[at[k]] = q[k] /\ q[k] \in some /\ (at[j] = at[k] => j = k)
  BY ThoseComeFrom
<1>2. q \in Seq(Record)
  BY ThoseComeFrom
<1> HIDE DEF q
<1>3. EachOnce(q)
  <2> SUFFICES ASSUME NEW j \in DOMAIN q, NEW k \in DOMAIN q, q[j].of = q[k].of PROVE j = k
    BY DEF EachOnce
  <2>1. at[j] \in DOMAIN list /\ at[k] \in DOMAIN list /\ list[at[j]].of = list[at[k]].of
    BY <1>1
  <2>2. at[j] = at[k]
    BY <2>1 DEF EachOnce
  <2> QED BY <1>1, <2>2
<1>4. ASSUME OneCar(list) PROVE OneCar(q)
  <2> SUFFICES ASSUME NEW j \in DOMAIN q, NEW k \in DOMAIN q, Resumable(q[j]), Resumable(q[k])
               PROVE  j = k
    BY DEF OneCar
  <2>1. at[j] \in DOMAIN list /\ at[k] \in DOMAIN list
        /\ list[at[j]] = q[j] /\ list[at[k]] = q[k]
    BY <1>1
  <2>2. at[j] = at[k]
    BY <2>1, <1>4 DEF OneCar
  <2> QED BY <1>1, <2>2
<1>5. \A k \in DOMAIN q : q[k] \in some /\ \E i \in DOMAIN list : q[k] = list[i]
  BY <1>1
<1> QED BY <1>2, <1>3, <1>4, <1>5 DEF q

\* A record put in front of a list replaces the one of the same ride; the oldest go.
LEMMA FrontIsSound ==
  ASSUME NEW list \in Seq(Record), EachOnce(list), OneCar(list), NEW r \in Record,
         Resumable(r) => \A i \in DOMAIN list : Resumable(list[i]) => list[i].of = r.of
  PROVE  SoundRecords(ToFront(list, r))
<1> DEFINE q == OtherRecords(list, r.of)
           f == <<r>> \o q
           n == IF Len(f) < MaxRecords THEN Len(f) ELSE MaxRecords
           s == SubSeq(f, 1, n)
<1>1. /\ q \in Seq(Record) /\ EachOnce(q) /\ OneCar(q)
      /\ \A k \in DOMAIN q : q[k] \in {v \in Record : v.of # r.of}
                             /\ \E i \in DOMAIN list : q[k] = list[i]
  <2> DEFINE some == {v \in Record : v.of # r.of}
  <2>1. q = Those(list, some)
    BY DEF OtherRecords
  <2> HIDE DEF some, q
  <2>2. /\ q \in Seq(Record) /\ EachOnce(q) /\ OneCar(q)
        /\ \A k \in DOMAIN q : q[k] \in some /\ \E i \in DOMAIN list : q[k] = list[i]
    BY <2>1, ThoseAreSound
  <2> QED BY <2>2 DEF some
<1>2. ToFront(list, r) = s
  BY DEF ToFront, Shortened
<1> HIDE DEF q
<1>3. f \in Seq(Record) /\ Len(f) = Len(q) + 1 /\ Len(q) \in Nat /\ f[1] = r
      /\ \A i \in 2 .. Len(f) : f[i] = q[i - 1]
  BY <1>1
<1> HIDE DEF f
<1>4. MaxRecords \in Nat /\ n \in Nat /\ n <= Len(f) /\ n <= MaxRecords
  BY <1>3, HistoryAssumption
<1> HIDE DEF n
<1>5. s \in Seq(Record) /\ Len(s) = n /\ \A i \in 1 .. n : s[i] = f[i]
  BY <1>3, <1>4
<1> HIDE DEF s
<1>6. DOMAIN s = 1 .. n /\ DOMAIN q = 1 .. Len(q)
  BY <1>1, <1>5
<1>7. ASSUME NEW i \in DOMAIN s
      PROVE  \/ i = 1 /\ s[i] = r
             \/ i # 1 /\ i - 1 \in DOMAIN q /\ s[i] = q[i - 1]
  <2>1. s[i] = f[i] /\ i \in Nat /\ i >= 1 /\ i <= Len(f)
    BY <1>3, <1>4, <1>5, <1>6
  <2>2. CASE i = 1
    BY <2>1, <2>2, <1>3
  <2>3. CASE i # 1
    <3>1. i \in 2 .. Len(f) /\ i - 1 \in 1 .. Len(q)
      BY <2>1, <2>3, <1>3
    <3> QED BY <2>1, <2>3, <3>1, <1>3, <1>6
  <2> QED BY <2>2, <2>3
<1>8. \A k \in DOMAIN q : q[k].of # r.of
  BY <1>1
<1>9. EachOnce(s)
  <2> SUFFICES ASSUME NEW i \in DOMAIN s, NEW j \in DOMAIN s, s[i].of = s[j].of PROVE i = j
    BY DEF EachOnce
  <2>1. CASE i = 1 \/ j = 1
    BY <2>1, <1>7, <1>8
  <2>2. CASE i # 1 /\ j # 1
    <3>1. i - 1 \in DOMAIN q /\ j - 1 \in DOMAIN q /\ s[i] = q[i - 1] /\ s[j] = q[j - 1]
      BY <2>2, <1>7
    <3>2. i - 1 = j - 1
      BY <3>1, <1>1 DEF EachOnce
    <3>3. i \in Nat /\ j \in Nat
      BY <1>6
    <3> QED BY <3>2, <3>3
  <2> QED BY <2>1, <2>2
<1>10. ASSUME NEW k \in DOMAIN q PROVE ~(Resumable(r) /\ Resumable(q[k]))
  <2>1. PICK i \in DOMAIN list : q[k] = list[i]
    BY <1>1
  <2> QED BY <2>1, <1>8
<1>11. OneCar(s)
  <2> SUFFICES ASSUME NEW i \in DOMAIN s, NEW j \in DOMAIN s, Resumable(s[i]), Resumable(s[j])
               PROVE  i = j
    BY DEF OneCar
  <2>1. CASE i = 1 \/ j = 1
    BY <2>1, <1>7, <1>10
  <2>2. CASE i # 1 /\ j # 1
    <3>1. i - 1 \in DOMAIN q /\ j - 1 \in DOMAIN q /\ s[i] = q[i - 1] /\ s[j] = q[j - 1]
      BY <2>2, <1>7
    <3>2. i - 1 = j - 1
      BY <3>1, <1>1 DEF OneCar
    <3>3. i \in Nat /\ j \in Nat
      BY <1>6
    <3> QED BY <3>2, <3>3
  <2> QED BY <2>1, <2>2
<1>12. s \in Lists
  BY <1>4, <1>5, ListsAreSequences
<1> QED BY <1>2, <1>9, <1>11, <1>12 DEF SoundRecords

\* The list of a command that started a car is sound.
LEMMA StartedIsSound ==
  ASSUME NEW list, SoundRecords(list), NEW x \in HCar
  PROVE  SoundRecords(HostStarted(list, x))
<1> DEFINE live == {r \in Record : Resumable(r)}
           over == {r \in Record : ~Resumable(r)}
           stopping == Those(list, live)
           rest == Those(list, over)
           stopped == [i \in DOMAIN stopping |-> Stopping(stopping[i])]
           all == stopped \o rest
           new == [of |-> x, stopped |-> FALSE]
<1>1. HostStarted(list, x) = ToFront(all, new)
  BY DEF HostStarted
<1>2. list \in Seq(Record) /\ EachOnce(list) /\ DOMAIN list = 1 .. Len(list)
  BY SoundIsTyped DEF SoundRecords
<1>3. \A r : (r \in live => r \in Record /\ Resumable(r))
             /\ (r \in over => r \in Record /\ ~Resumable(r))
  OBVIOUS
<1> HIDE DEF live, over
<1>4. /\ stopping \in Seq(Record) /\ EachOnce(stopping)
      /\ \A k \in DOMAIN stopping : stopping[k] \in live
                                    /\ \E i \in DOMAIN list : stopping[k] = list[i]
  BY <1>2, ThoseAreSound
<1>5. /\ rest \in Seq(Record) /\ EachOnce(rest)
      /\ \A k \in DOMAIN rest : rest[k] \in over /\ \E i \in DOMAIN list : rest[k] = list[i]
  BY <1>2, ThoseAreSound
<1> HIDE DEF stopping, rest
<1>6. /\ stopped \in Seq(Record) /\ Len(stopped) = Len(stopping) /\ Len(stopping) \in Nat
      /\ \A k \in 1 .. Len(stopping) : stopped[k] = Stopping(stopping[k])
  <2>1. \A r \in Record : Stopping(r) \in Record
    BY DEF Stopping, Record
  <2>2. DOMAIN stopping = 1 .. Len(stopping) /\ Len(stopping) \in Nat
        /\ \A k \in 1 .. Len(stopping) : stopping[k] \in Record
    BY <1>4
  <2>3. stopped \in [1 .. Len(stopping) -> Record]
    BY <2>1, <2>2
  <2> QED BY <2>2, <2>3
<1>7. \A k \in 1 .. Len(stopping) :
        stopped[k].of = stopping[k].of /\ ~Resumable(stopped[k])
  <2> SUFFICES ASSUME NEW k \in 1 .. Len(stopping)
               PROVE  stopped[k].of = stopping[k].of /\ ~Resumable(stopped[k])
    OBVIOUS
  <2>1. stopping[k] \in [of : HCar \cup HSeat, stopped : BOOLEAN]
    <3>1. stopping[k] \in Record
      BY <1>4
    <3> QED BY <3>1 DEF Record
  <2>2. stopped[k] = [stopping[k] EXCEPT !.stopped = TRUE]
    BY <1>6 DEF Stopping
  <2> HIDE DEF stopped
  <2> QED BY <2>1, <2>2 DEF Resumable
<1> HIDE DEF stopped
<1>8. /\ all \in Seq(Record) /\ Len(all) = Len(stopping) + Len(rest) /\ Len(rest) \in Nat
      /\ \A k \in 1 .. Len(stopping) : all[k] = stopped[k]
      /\ \A k \in 1 .. Len(all) : k > Len(stopping) => all[k] = rest[k - Len(stopping)]
  BY <1>5, <1>6
<1> HIDE DEF all
<1>9. /\ DOMAIN all = 1 .. Len(all) /\ DOMAIN stopping = 1 .. Len(stopping)
      /\ DOMAIN rest = 1 .. Len(rest)
  BY <1>4, <1>5, <1>8
<1>10. ASSUME NEW k \in DOMAIN all
       PROVE  /\ k \in Nat /\ ~Resumable(all[k])
              /\ \/ k \in DOMAIN stopping /\ all[k].of = stopping[k].of
                 \/ /\ k > Len(stopping) /\ k - Len(stopping) \in DOMAIN rest
                    /\ all[k] = rest[k - Len(stopping)]
  <2>1. k \in Nat /\ k >= 1 /\ k <= Len(stopping) + Len(rest)
    BY <1>6, <1>8, <1>9
  <2>2. CASE k <= Len(stopping)
    <3>1. k \in 1 .. Len(stopping)
      BY <2>1, <2>2, <1>6
    <3>2. all[k] = stopped[k] /\ stopped[k].of = stopping[k].of /\ ~Resumable(stopped[k])
      BY <3>1, <1>7, <1>8
    <3> QED BY <3>1, <3>2, <2>1, <1>9
  <2>3. CASE k > Len(stopping)
    <3>1. k - Len(stopping) \in 1 .. Len(rest)
      BY <2>1, <2>3, <1>6, <1>8
    <3>2. all[k] = rest[k - Len(stopping)]
      BY <2>3, <1>8, <1>9
    <3>3. ~Resumable(rest[k - Len(stopping)])
      BY <3>1, <1>9, <1>5, <1>3
    <3> QED BY <3>1, <3>2, <3>3, <2>1, <2>3, <1>9
  <2> QED BY <2>1, <2>2, <2>3, <1>6
<1>11. ASSUME NEW j \in DOMAIN stopping, NEW k \in DOMAIN rest PROVE stopping[j].of # rest[k].of
  <2>1. PICK a \in DOMAIN list : stopping[j] = list[a]
    BY <1>4
  <2>2. PICK b \in DOMAIN list : rest[k] = list[b]
    BY <1>5
  <2>3. Resumable(list[a]) /\ ~Resumable(list[b])
    BY <2>1, <2>2, <1>3, <1>4, <1>5
  <2>4. a # b
    BY <2>3
  <2> QED BY <2>1, <2>2, <2>4, <1>2 DEF EachOnce
<1>12. EachOnce(all)
  <2> SUFFICES ASSUME NEW j \in DOMAIN all, NEW k \in DOMAIN all, all[j].of = all[k].of
               PROVE  j = k
    BY DEF EachOnce
  <2>1. CASE j \in DOMAIN stopping /\ k \in DOMAIN stopping
    <3>1. all[j].of = stopping[j].of /\ all[k].of = stopping[k].of
      BY <2>1, <1>6, <1>7, <1>8, <1>9
    <3> QED BY <3>1, <2>1, <1>4 DEF EachOnce
  <2>2. CASE j \notin DOMAIN stopping /\ k \notin DOMAIN stopping
    <3>1. /\ j - Len(stopping) \in DOMAIN rest /\ k - Len(stopping) \in DOMAIN rest
          /\ all[j] = rest[j - Len(stopping)] /\ all[k] = rest[k - Len(stopping)]
      BY <2>2, <1>10
    <3>2. j - Len(stopping) = k - Len(stopping)
      BY <3>1, <1>5 DEF EachOnce
    <3>3. j \in Nat /\ k \in Nat
      BY <1>10
    <3> QED BY <3>2, <3>3, <1>6
  <2>3. CASE j \in DOMAIN stopping /\ k \notin DOMAIN stopping
    <3>1. all[j].of = stopping[j].of
      BY <2>3, <1>6, <1>7, <1>8, <1>9
    <3>2. k - Len(stopping) \in DOMAIN rest /\ all[k] = rest[k - Len(stopping)]
      BY <2>3, <1>10
    <3> QED BY <3>1, <3>2, <2>3, <1>11
  <2>4. CASE j \notin DOMAIN stopping /\ k \in DOMAIN stopping
    <3>1. all[k].of = stopping[k].of
      BY <2>4, <1>6, <1>7, <1>8, <1>9
    <3>2. j - Len(stopping) \in DOMAIN rest /\ all[j] = rest[j - Len(stopping)]
      BY <2>4, <1>10
    <3> QED BY <3>1, <3>2, <2>4, <1>11
  <2> QED BY <2>1, <2>2, <2>3, <2>4
<1>13. OneCar(all)
  BY <1>10 DEF OneCar
<1>14. new \in Record
  BY DEF Record
<1> HIDE DEF new
<1>15. SoundRecords(ToFront(all, new))
  BY <1>8, <1>10, <1>12, <1>13, <1>14, FrontIsSound
<1> QED BY <1>1, <1>15

\* The list of a command that resumed or stopped the car that is offered is sound.
LEMMA FoundIsSound ==
  ASSUME NEW list, SoundRecords(list), NEW x, MayResume(list, x)
  PROVE  SoundRecords(HostResumed(list, x)) /\ SoundRecords(HostStopped(list, x))
<1> DEFINE p == Position(list, x)
<1>1. list \in Seq(Record) /\ \A i \in DOMAIN list : list[i] \in Record
  BY SoundIsTyped
<1>2. EachOnce(list) /\ OneCar(list)
  BY DEF SoundRecords
<1>3. p \in DOMAIN list /\ Resumable(list[p])
  BY DEF MayResume, Has, Position
<1>4. HostResumed(list, x) = ToFront(list, list[p])
      /\ HostStopped(list, x) = ToFront(list, Stopping(list[p]))
  BY DEF HostResumed, HostStopped
<1> HIDE DEF p
<1>5. list[p] \in Record
  BY <1>1, <1>3
<1>6. Stopping(list[p]) \in Record /\ Stopping(list[p]).of = list[p].of
  BY <1>5 DEF Stopping, Record
<1>7. \A i \in DOMAIN list : Resumable(list[i]) => list[i].of = list[p].of
  BY <1>2, <1>3 DEF OneCar
<1>8. SoundRecords(ToFront(list, list[p]))
  BY <1>1, <1>2, <1>5, <1>7, FrontIsSound
<1>9. SoundRecords(ToFront(list, Stopping(list[p])))
  BY <1>1, <1>2, <1>6, <1>7, FrontIsSound
<1> QED BY <1>4, <1>8, <1>9

\* The list of a command that joined a seat is sound.
LEMMA JoinedIsSound ==
  ASSUME NEW list, SoundRecords(list), NEW x \in HSeat
  PROVE  SoundRecords(PassengerJoined(list, x))
<1> DEFINE new == [of |-> x, stopped |-> FALSE]
<1>1. list \in Seq(Record) /\ EachOnce(list) /\ OneCar(list)
  BY SoundIsTyped DEF SoundRecords
<1>2. new \in Record /\ ~Resumable(new)
  BY HistoryAssumption DEF Record, Resumable, IsHost
<1>3. PassengerJoined(list, x) = ToFront(list, new)
  BY DEF PassengerJoined
<1> HIDE DEF new
<1>4. SoundRecords(ToFront(list, new))
  BY <1>1, <1>2, FrontIsSound
<1> QED BY <1>3, <1>4

\* An empty list is sound.
LEMMA NothingIsSound == SoundRecords(<<>>)
<1>1. <<>> \in Seq(Record) /\ Len(<<>>) = 0 /\ 0 <= MaxRecords /\ DOMAIN <<>> = {}
  BY HistoryAssumption
<1> QED BY <1>1, ListsAreSequences DEF SoundRecords, EachOnce, OneCar

Goals == {"none", "start", "resume", "stop", "join", "list"}
Args == HCar \cup HSeat \cup {"none"}
SoundCommand(d) == d \in AnyCommand /\ SoundRecords(d.list) /\ FitsGoal(d.goal, d.arg)

\* A command at rest is sound.
LEMMA RestIsSound == SoundCommand(Rest)
<1>1. <<>> \in Lists
  BY NothingIsSound DEF SoundRecords
<1> QED BY <1>1, NothingIsSound DEF SoundCommand, Rest, AnyCommand, FitsGoal

\* What a command makes of the list it read is sound.
LEMMA WorkIsSound ==
  ASSUME NEW list, SoundRecords(list), NEW goal \in Goals, NEW x \in Args, FitsGoal(goal, x)
  PROVE  SoundCommand(Worked(list, goal, x))
<1>1. SoundRecords(Edited(list, goal, x))
  <2>1. CASE goal = "start"
    BY <2>1, StartedIsSound DEF Edited, FitsGoal
  <2>2. CASE goal = "join"
    BY <2>2, JoinedIsSound DEF Edited, FitsGoal
  <2>3. CASE goal \in {"resume", "stop"} /\ MayResume(list, x)
    BY <2>3, FoundIsSound DEF Edited
  <2>4. CASE goal \notin {"start", "join"} /\ ~(goal \in {"resume", "stop"} /\ MayResume(list, x))
    BY <2>4 DEF Edited
  <2> QED BY <2>1, <2>2, <2>3, <2>4
<1>2. CASE Changes(list, goal, x)
  <2> DEFINE e == Edited(list, goal, x)
             d == [pc |-> "write", list |-> e, goal |-> goal, arg |-> x]
  <2>1. e \in Lists
    BY <1>1 DEF SoundRecords
  <2>2. Worked(list, goal, x) = d
    BY <1>2 DEF Worked
  <2> HIDE DEF e
  <2>3. d \in AnyCommand /\ d.list = e /\ d.goal = goal /\ d.arg = x
    BY <2>1 DEF AnyCommand, Goals, Args
  <2> HIDE DEF d
  <2>4. SoundRecords(d.list)
    BY <1>1, <2>3 DEF e
  <2> QED BY <2>2, <2>3, <2>4 DEF SoundCommand
<1>3. CASE ~Changes(list, goal, x)
  BY <1>3, RestIsSound DEF Worked
<1> QED BY <1>2, <1>3

\* The invariant holds before anything is written (RideHistoryStore::new).
LEMMA HistoryInvInit == HistoryInit => HistoryInv
<1> SUFFICES ASSUME HistoryInit PROVE HistoryInv
  OBVIOUS
<1> USE RestIsSound DEF HistoryInit, SoundCommand
<1>1. cmd \in [Command -> AnyCommand]
  OBVIOUS
<1>2. \A c \in Command : SoundRecords(cmd[c].list) /\ FitsGoal(cmd[c].goal, cmd[c].arg)
  OBVIOUS
<1> QED BY <1>1, <1>2 DEF HistoryInv

\* A step that gives one command a sound state keeps what is said of commands.
LEMMA CommandKeeps ==
  ASSUME HistoryInv, NEW c \in Command, NEW d, SoundCommand(d),
         cmd' = [cmd EXCEPT ![c] = d]
  PROVE  /\ cmd' \in [Command -> AnyCommand]
         /\ \A b \in Command :
              SoundRecords(cmd'[b].list) /\ FitsGoal(cmd'[b].goal, cmd'[b].arg)
<1>1. cmd \in [Command -> AnyCommand] /\ d \in AnyCommand
  BY DEF HistoryInv, SoundCommand
<1>2. \A b \in Command : cmd'[b] = IF b = c THEN d ELSE cmd[b]
  BY <1>1
<1>3. \A b \in Command : SoundRecords(cmd[b].list) /\ FitsGoal(cmd[b].goal, cmd[b].arg)
  BY DEF HistoryInv
<1>4. SoundRecords(d.list) /\ FitsGoal(d.goal, d.arg)
  BY DEF SoundCommand
<1>5. cmd' \in [Command -> AnyCommand]
  BY <1>1
<1> QED BY <1>2, <1>3, <1>4, <1>5

\* What a command does keeps the invariant.
LEMMA BeginsKeeps ==
  ASSUME HistoryInv, NEW c \in Command, NEW goal \in Goals, NEW x \in Args,
         FitsGoal(goal, x), Begins(c, goal, x)
  PROVE  HistoryInv'
<1>1. CASE ReadFile(c, goal, x)
  <2>1. SoundRecords(hfile)
    BY <1>1 DEF HistoryInv, ReadFile
  <2>2. SoundCommand(Worked(hfile, goal, x))
    BY <2>1, WorkIsSound
  <2>3. cmd' = [cmd EXCEPT ![c] = Worked(hfile, goal, x)]
        /\ UNCHANGED <<hbuild, hfile, written>>
    BY <1>1 DEF ReadFile, Same
  <2>4. /\ cmd' \in [Command -> AnyCommand]
        /\ \A b \in Command :
             SoundRecords(cmd'[b].list) /\ FitsGoal(cmd'[b].goal, cmd'[b].arg)
    BY <2>2, <2>3, CommandKeeps
  <2> QED BY <2>3, <2>4 DEF HistoryInv
<1>2. CASE StartAnew(c, goal, x)
  <2> DEFINE d == [pc |-> "found none", list |-> <<>>, goal |-> goal, arg |-> x]
  <2>1. /\ hfile \in {NoFile, Damaged} /\ hfile' = NoFile
        /\ cmd' = [cmd EXCEPT ![c] = d] /\ UNCHANGED <<hbuild, written>>
    BY <1>2 DEF StartAnew
  <2>2. SoundCommand(d)
    <3>1. <<>> \in Lists
      BY NothingIsSound DEF SoundRecords
    <3>2. d \in AnyCommand /\ d.list = <<>> /\ d.goal = goal /\ d.arg = x
      BY <3>1 DEF AnyCommand, Goals, Args
    <3> HIDE DEF d
    <3> QED BY <3>2, NothingIsSound DEF SoundCommand
  <2> HIDE DEF d
  <2>3. /\ cmd' \in [Command -> AnyCommand]
        /\ \A b \in Command :
             SoundRecords(cmd'[b].list) /\ FitsGoal(cmd'[b].goal, cmd'[b].arg)
    BY <2>1, <2>2, CommandKeeps
  <2> QED BY <2>1, <2>3 DEF HistoryInv
<1> QED BY <1>1, <1>2 DEF Begins

\* So does a step of a command on the file: a rename, a removal or giving up.
LEMMA FileStepsKeep ==
  ASSUME HistoryInv, NEW c \in Command,
         RenameOver(c) \/ RemoveOld(c) \/ RenameAfter(c) \/ GiveUp(c)
  PROVE  HistoryInv'
<1>1. cmd[c] \in AnyCommand /\ SoundRecords(cmd[c].list) /\ FitsGoal(cmd[c].goal, cmd[c].arg)
  BY DEF HistoryInv
<1>2. CASE Rename(c)
  <2>1. SoundCommand(Then(c))
    <3>1. CASE CmdAt(c, "found none") \/ CmdAt(c, "gap, none")
      <4>1. Then(c) = Worked(<<>>, cmd[c].goal, cmd[c].arg)
        BY <3>1 DEF Then
      <4>2. cmd[c].goal \in Goals /\ cmd[c].arg \in Args
        BY <1>1 DEF AnyCommand, Goals, Args
      <4> QED BY <4>1, <4>2, <1>1, NothingIsSound, WorkIsSound
    <3>2. CASE ~(CmdAt(c, "found none") \/ CmdAt(c, "gap, none"))
      BY <3>2, RestIsSound DEF Then
    <3> QED BY <3>1, <3>2
  <2>2. /\ hfile' = cmd[c].list /\ written' = TRUE /\ hbuild' = hbuild
        /\ cmd' = [cmd EXCEPT ![c] = Then(c)]
    BY <1>2 DEF Rename
  <2>3. /\ cmd' \in [Command -> AnyCommand]
        /\ \A b \in Command :
             SoundRecords(cmd'[b].list) /\ FitsGoal(cmd'[b].goal, cmd'[b].arg)
    BY <2>1, <2>2, CommandKeeps
  <2>4. hfile' \notin {NoFile, Damaged} /\ SoundRecords(hfile')
    BY <1>1, <2>2, FilesAreLists DEF SoundRecords
  <2> QED BY <2>2, <2>3, <2>4 DEF HistoryInv
<1>3. CASE RemoveOld(c)
  <2> DEFINE d == [cmd[c] EXCEPT !.pc = IF CmdAt(c, "write") THEN "gap" ELSE "gap, none"]
  <2>1. /\ hbuild = "windows" /\ hfile' = NoFile /\ UNCHANGED <<hbuild, written>>
        /\ cmd' = [cmd EXCEPT ![c].pc = IF CmdAt(c, "write") THEN "gap" ELSE "gap, none"]
    BY <1>3 DEF RemoveOld, CmdGoes
  <2>2. SoundCommand(d)
    <3>1. d \in AnyCommand /\ d.list = cmd[c].list /\ d.goal = cmd[c].goal
          /\ d.arg = cmd[c].arg
      BY <1>1 DEF AnyCommand
    <3> HIDE DEF d
    <3> QED BY <1>1, <3>1 DEF SoundCommand
  <2>3. cmd' = [cmd EXCEPT ![c] = d]
    BY <2>1
  <2> HIDE DEF d
  <2>4. /\ cmd' \in [Command -> AnyCommand]
        /\ \A b \in Command :
             SoundRecords(cmd'[b].list) /\ FitsGoal(cmd'[b].goal, cmd'[b].arg)
    BY <2>2, <2>3, CommandKeeps
  <2> QED BY <2>1, <2>4 DEF HistoryInv
<1>4. CASE GiveUp(c)
  <2>1. cmd' = [cmd EXCEPT ![c] = Rest] /\ UNCHANGED <<hbuild, hfile, written>>
    BY <1>4 DEF GiveUp, Same
  <2>2. /\ cmd' \in [Command -> AnyCommand]
        /\ \A b \in Command :
             SoundRecords(cmd'[b].list) /\ FitsGoal(cmd'[b].goal, cmd'[b].arg)
    BY <2>1, RestIsSound, CommandKeeps
  <2> QED BY <2>1, <2>2 DEF HistoryInv
<1> QED BY <1>2, <1>3, <1>4 DEF RenameOver, RenameAfter

\* Every step does, and the process may die at any of them.
LEMMA HistoryInvStep == HistoryInv /\ [HistoryNext]_historyVars => HistoryInv'
<1> SUFFICES ASSUME HistoryInv, [HistoryNext]_historyVars PROVE HistoryInv'
  OBVIOUS
<1>1. CASE UNCHANGED historyVars
  BY <1>1 DEF historyVars, HistoryInv
<1>2. CASE HistoryDies
  <2>1. cmd' = [c \in Command |-> Rest] /\ UNCHANGED <<hbuild, hfile, written>>
    BY <1>2 DEF HistoryDies, Same
  <2>2. Rest \in AnyCommand /\ SoundRecords(Rest.list) /\ FitsGoal(Rest.goal, Rest.arg)
    BY RestIsSound DEF SoundCommand
  <2>3. \A c \in Command : cmd'[c] = Rest
    BY <2>1
  <2>4. cmd' \in [Command -> AnyCommand]
    BY <2>1, <2>2
  <2> QED BY <2>1, <2>2, <2>3, <2>4 DEF HistoryInv
<1>3. ASSUME NEW c \in Command, NEW x \in HCar, NEW goal \in {"start", "resume", "stop"},
             Begins(c, goal, x)
      PROVE  HistoryInv'
  <2>1. goal \in Goals /\ x \in Args /\ FitsGoal(goal, x)
    BY DEF Goals, Args, FitsGoal
  <2> QED BY <1>3, <2>1, BeginsKeeps
<1>4. ASSUME NEW c \in Command, NEW x \in HSeat, Begins(c, "join", x) PROVE HistoryInv'
  <2>1. "join" \in Goals /\ x \in Args /\ FitsGoal("join", x)
    BY DEF Goals, Args, FitsGoal
  <2> QED BY <1>4, <2>1, BeginsKeeps
<1>5. ASSUME NEW c \in Command, Begins(c, "list", "none") PROVE HistoryInv'
  <2>1. "list" \in Goals /\ "none" \in Args /\ FitsGoal("list", "none")
    BY DEF Goals, Args, FitsGoal
  <2> QED BY <1>5, <2>1, BeginsKeeps
<1> QED BY <1>1, <1>2, <1>3, <1>4, <1>5, FileStepsKeep DEF HistoryNext

\* The invariant holds always.
LEMMA HistoryInvariant == HistorySpec => []HistoryInv
  BY HistoryInvInit, HistoryInvStep, PTL DEF HistorySpec

\* However commands overlap, fail and die with the process, each with a copy of its
\* own of the history (RideHistoryStore), the file offers one car at most for
\* resumption, and each car and seat once; and where it is replaced by one rename
\* (atomic_write_private on Unix) it never goes missing once it was written.
THEOREM HistoryStaysSound == HistorySpec => []HistoryIsSound
<1>1. HistoryInv => HistoryIsSound
  <2> SUFFICES ASSUME HistoryInv PROVE HistoryIsSound
    OBVIOUS
  <2>1. HistoryStaysOnUnix
    BY DEF HistoryInv, HistoryStaysOnUnix, HistoryStays
  <2>2. OneResumableCar
    <3> SUFFICES ASSUME hfile \notin {NoFile, Damaged}
                 PROVE  /\ Cardinality({i \in DOMAIN hfile : Resumable(hfile[i])}) <= 1
                        /\ EachOnce(hfile)
      BY DEF OneResumableCar, EachOnce
    <3> DEFINE live == {i \in DOMAIN hfile : Resumable(hfile[i])}
    <3>1. EachOnce(hfile) /\ OneCar(hfile)
      BY DEF HistoryInv, SoundRecords
    <3>2. \A i, j \in live : i = j
      BY <3>1 DEF OneCar
    <3> HIDE DEF live
    <3>3. Cardinality(live) <= 1
      <4>1. CASE live = {}
        BY <4>1, FS_EmptySet
      <4>2. ASSUME NEW i \in live PROVE Cardinality(live) <= 1
        <5>1. live = {i}
          BY <3>2, <4>2
        <5>2. Cardinality({i}) = 1
          BY FS_Singleton
        <5> QED BY <5>1, <5>2
      <4> QED BY <4>1, <4>2
    <3> QED BY <3>1, <3>3 DEF live
  <2> QED BY <2>1, <2>2 DEF HistoryIsSound
<1> QED BY <1>1, HistoryInvariant, PTL

\* No list, on disk or in a command's hands, is longer than MAX_RECORDS.
THEOREM HistoryStaysTyped == HistorySpec => []HistoryTypeOK
<1>1. HistoryInv => HistoryTypeOK
  BY DEF HistoryInv, HistoryTypeOK, SoundRecords
<1> QED BY <1>1, HistoryInvariant, PTL
=============================================================================
