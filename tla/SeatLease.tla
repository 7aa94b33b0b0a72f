----------------------------- MODULE SeatLease -----------------------------
(***************************************************************************)
(* What the host of a shared car promises about its seats, with no loops,  *)
(* messages, awaits or commands: each seat is leased to at most one        *)
(* passenger device at a time; a lease is identified by an access id that  *)
(* is never used again; a lease ends when its own seat is released, or     *)
(* with the whole session, and never turns into another lease.             *)
(***************************************************************************)
CONSTANTS Code,     \* seats
          Peer,     \* passenger devices
          Access    \* access ids

VARIABLES holder,   \* holder[c]: the lease on seat c, {} when it is free
          spent     \* access ids that have identified a lease

Lease == [peer : Peer, access : Access]

TypeOK ==
  /\ holder \in [Code -> SUBSET Lease]
  /\ spent \subseteq Access

Init ==
  /\ holder = [c \in Code |-> {}]
  /\ spent = {}

Grant(c, p, a) ==
  /\ holder[c] = {}
  /\ a \notin spent
  /\ holder' = [holder EXCEPT ![c] = {[peer |-> p, access |-> a]}]
  /\ spent' = spent \cup {a}

Release(c) ==
  /\ holder' = [holder EXCEPT ![c] = {}]
  /\ UNCHANGED spent

EndSession ==
  /\ holder' = [c \in Code |-> {}]
  /\ UNCHANGED spent

Next ==
  \/ \E c \in Code, p \in Peer, a \in Access : Grant(c, p, a)
  \/ \E c \in Code : Release(c)
  \/ EndSession

Spec == Init /\ [][Next]_<<holder, spent>>
=============================================================================
