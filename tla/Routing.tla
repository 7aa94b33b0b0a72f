------------------------------ MODULE Routing ------------------------------
(***************************************************************************)
(* How the host spends its official accounts on the passengers' requests   *)
(* (relay.rs, account_router.rs).  Requests run concurrently and share the *)
(* router's cool-downs and last-use order; the owner edits the account     *)
(* pool meanwhile.  A request reads the pool, reserves an order of         *)
(* accounts, sends itself upstream and moves on to the next account when   *)
(* the failure allows.  Streamed requests show events to the passenger as  *)
(* they come; buffered ones show one answer at the end.                    *)
(***************************************************************************)
EXTENDS Naturals, Sequences, FiniteSets

CONSTANTS Account,      \* the ids of the accounts
          Priority,     \* the owner's priority of each account, low is first
          MaxAttempts,  \* MAX_ROUTE_ATTEMPTS
          Request,      \* the requests, each of them sent once
          Buffered,     \* those of execute_host_request; the others stream
          Replayable,   \* GET or carrying an idempotency key
          Metered,      \* those whose answer record_usage charges
          MaxEdits      \* bound: how often the owner edits the pool

ASSUME RoutingAssumption ==
    /\ Account \subseteq Nat
    /\ IsFiniteSet(Account)
    /\ Priority \in [Account -> Nat]
    /\ MaxAttempts \in Nat \ {0}
    /\ Buffered \subseteq Request
    /\ Replayable \subseteq Request
    /\ Metered \subseteq Request
    /\ MaxEdits \in Nat

VARIABLES pool,      \* the enabled accounts of the store
          edited,    \* edits whose route state is still to be cleared
          edits,     \* how many edits the owner made
          cooling,   \* accounts whose cooldown_until_ms lies ahead
          lastUsed,  \* last_used_sequence, 0 for an account without one
          nextSeq,   \* next_sequence
          req,       \* what each request is doing
          passed     \* history: passed[a][b] counts the decisions for a while
                     \* b, of the same priority, was free and waiting

vars == <<pool, edited, edits, cooling, lastUsed, nextSeq, req, passed>>

(***************************************************************************)
(* A request.  The route is what is left of the reserved order, its head   *)
(* the account in use.  "copies" is history: how often an account may have *)
(* executed the request, that is every send except one refused outright.   *)
(***************************************************************************)
Stage == {"idle", "read", "sending", "failed", "streaming", "settled", "done"}

RequestRecord ==
    [pc : Stage, snap : SUBSET Account, route : Seq(Account), good : BOOLEAN,
     copies : Nat, shown : Seq({"start", "end", "error"}), charged : Nat]

Fresh == [pc |-> "idle", snap |-> {}, route |-> <<>>, good |-> FALSE,
          copies |-> 0, shown |-> <<>>, charged |-> 0]

Route(r) == req[r].route
Current(r) == Head(Route(r))

RouterVars == <<cooling, lastUsed, nextSeq, passed>>
StoreVars == <<pool, edited, edits>>

Init ==
    /\ pool \in SUBSET Account
    /\ edited = {}
    /\ edits = 0
    /\ cooling = {}
    /\ lastUsed = [a \in Account |-> 0]
    /\ nextSeq = 0
    /\ req = [r \in Request |-> Fresh]
    /\ passed = [a \in Account |-> [b \in Account |-> 0]]

-----------------------------------------------------------------------------
\* The request q ends, having shown the passenger an answer or an error.
Over(q, last) ==
    [pc |-> "done", snap |-> {}, route |-> <<>>, good |-> q.good,
     copies |-> q.copies, shown |-> Append(q.shown, last), charged |-> q.charged]
Failed(r) == Over(req[r], "error")

\* route_candidates: the enabled accounts, read before the router is asked.
ReadPool(r) ==
    /\ req[r].pc = "idle"
    /\ req' = [req EXCEPT ![r] =
                 IF pool = {} THEN Failed(r)
                 ELSE [@ EXCEPT !.pc = "read", !.snap = pool]]
    /\ UNCHANGED <<StoreVars, RouterVars>>

\* prepare_host_request refuses: no binding, no ride, no quota, a repetition.
Refuse(r) ==
    /\ req[r].pc = "read"
    /\ req' = [req EXCEPT ![r] = Failed(r)]
    /\ UNCHANGED <<StoreVars, RouterVars>>

\* The order of order_candidates: priority, then least recent use, then id.
Before(a, b) ==
    \/ Priority[a] < Priority[b]
    \/ /\ Priority[a] = Priority[b]
       /\ \/ lastUsed[a] < lastUsed[b]
          \/ lastUsed[a] = lastUsed[b] /\ a < b

Shorter(m, n) == IF m < n THEN m ELSE n

\* Fault: every account is a candidate, the cut is forgotten.
OrdersUncut(S) ==
    {s \in [1 .. Cardinality(S) -> S] :
        \A i, j \in DOMAIN s : i < j => Before(s[i], s[j])}

\* The accounts of S in that order, cut off at MaxAttempts.
Orders(S) ==
    {s \in [1 .. Shorter(MaxAttempts, Cardinality(S)) -> S] :
        /\ \A i, j \in DOMAIN s : i < j => Before(s[i], s[j])
        /\ \A a \in S : \/ \E i \in DOMAIN s : s[i] = a
                        \/ \A i \in DOMAIN s : Before(s[i], a)}

\* mark_attempt: the account becomes the most recently used one.
Mark(a) ==
    /\ nextSeq' = nextSeq + 1
    /\ lastUsed' = [lastUsed EXCEPT ![a] = nextSeq + 1]

\* The decision for a at a reservation over the free accounts S.
Decide(a, S) ==
    passed' = [p \in Account |-> [b \in Account |->
                 IF b = a THEN 0
                 ELSE IF p = a /\ b \in S /\ Priority[b] = Priority[a]
                      THEN passed[p][b] + 1
                 ELSE passed[p][b]]]

\* A failover to a is no decision between equals, but a has had its turn.
Served(a) ==
    passed' = [p \in Account |-> [passed[p] EXCEPT ![a] = 0]]

\* Fault: the first account is marked only when its answer is in.
ReserveUnmarked(r) ==
    LET free == req[r].snap \ cooling IN
    /\ req[r].pc = "read"
    /\ free # {}
    /\ \E s \in Orders(free) :
          /\ req' = [req EXCEPT ![r] = [@ EXCEPT !.pc = "sending", !.snap = {}, !.route = s]]
          /\ Decide(s[1], free)
    /\ UNCHANGED <<StoreVars, cooling, lastUsed, nextSeq>>

\* reserve_route_candidates: ordering and the first mark under one lock.
Reserve(r) ==
    LET free == req[r].snap \ cooling IN
    /\ req[r].pc = "read"
    /\ free # {}
    /\ \E s \in Orders(free) :
          /\ req' = [req EXCEPT ![r] = [@ EXCEPT !.pc = "sending", !.snap = {}, !.route = s]]
          /\ Mark(s[1])
          /\ Decide(s[1], free)
    /\ UNCHANGED <<StoreVars, cooling>>

\* Fault: a request without a free account starts over until there is one.
AllCoolingRetried(r) ==
    /\ req[r].pc = "read"
    /\ req[r].snap \subseteq cooling
    /\ req' = [req EXCEPT ![r] = Fresh]
    /\ UNCHANGED <<StoreVars, RouterVars>>

AllCooling(r) ==
    /\ req[r].pc = "read"
    /\ req[r].snap \subseteq cooling
    /\ req' = [req EXCEPT ![r] = Failed(r)]
    /\ UNCHANGED <<StoreVars, RouterVars>>

-----------------------------------------------------------------------------
(***************************************************************************)
(* One attempt.  A failure cools the account down; then the request takes  *)
(* the next account of its route or ends.                                  *)
(***************************************************************************)
Tried(r) == [req[r] EXCEPT !.copies = @ + 1]

\* The loop goes on: q is the request after the attempt just made.  The next
\* account is marked under a lock of its own (TakeNext).
NextAccount(r, q) ==
    /\ Len(Route(r)) > 1
    /\ req' = [req EXCEPT ![r] = [q EXCEPT !.pc = "failed", !.route = Tail(@)]]
    /\ UNCHANGED <<lastUsed, nextSeq, passed>>

\* mark_route_attempt at the head of the loop, for all but the first account.
TakeNext(r) ==
    /\ req[r].pc = "failed"
    /\ req' = [req EXCEPT ![r].pc = "sending"]
    /\ Mark(Current(r))
    /\ Served(Current(r))
    /\ UNCHANGED <<StoreVars, cooling>>

\* The loop ends with an error.
GiveUp(r, q) ==
    /\ req' = [req EXCEPT ![r] = Over(q, "error")]
    /\ UNCHANGED <<lastUsed, nextSeq, passed>>

\* The answer is passed on: a stream starts, a buffered one is complete.
PassOn(r, q, good) ==
    /\ req' = [req EXCEPT ![r] =
                 IF r \in Buffered
                 THEN [q EXCEPT !.pc = "settled", !.good = good]
                 ELSE [q EXCEPT !.pc = "streaming", !.good = good,
                                !.shown = Append(@, "start")]]
    /\ UNCHANGED <<lastUsed, nextSeq, passed>>

CoolDown(r) == cooling' = cooling \union {Current(r)}

\* Fault: the streaming loop lacks the break, too.
NetworkFailureNoBreak(r) ==
    /\ req[r].pc = "sending"
    /\ CoolDown(r)
    /\ IF Len(Route(r)) > 1 THEN NextAccount(r, Tried(r)) ELSE GiveUp(r, Tried(r))
    /\ UNCHANGED StoreVars

\* The send or, for a buffered request, the read of the answer fails.  The
\* streaming loop breaks unless the request may be repeated; the buffered
\* loop has no break and goes on with the next account in any case.
NetworkFailure(r) ==
    /\ req[r].pc = "sending"
    /\ CoolDown(r)
    /\ IF Len(Route(r)) > 1 /\ (r \in Replayable \/ r \in Buffered)
       THEN NextAccount(r, Tried(r))
       ELSE GiveUp(r, Tried(r))
    /\ UNCHANGED StoreVars

\* The budget for starting a route expires; nothing else is tried.
BudgetExpires(r) ==
    /\ req[r].pc = "sending"
    /\ CoolDown(r)
    /\ GiveUp(r, Tried(r))
    /\ UNCHANGED StoreVars

\* 401, 403 or 429: the account refused, so the next one may be asked.
RefusedOutright(r) ==
    /\ req[r].pc = "sending"
    /\ CoolDown(r)
    /\ IF Len(Route(r)) > 1 THEN NextAccount(r, req[r]) ELSE PassOn(r, req[r], FALSE)
    /\ UNCHANGED StoreVars

\* Fault: the usage of a failed answer is recorded before the failure shows.
FailedUpstreamCharged(r) ==
    /\ req[r].pc = "sending"
    /\ CoolDown(r)
    /\ LET q == [Tried(r) EXCEPT !.charged = @ + 1] IN
       IF Len(Route(r)) > 1 /\ r \in Replayable
       THEN NextAccount(r, q)
       ELSE PassOn(r, q, FALSE)
    /\ UNCHANGED StoreVars

\* 408 or 5xx: the request may have been executed all the same.
FailedUpstream(r) ==
    /\ req[r].pc = "sending"
    /\ CoolDown(r)
    /\ IF Len(Route(r)) > 1 /\ r \in Replayable
       THEN NextAccount(r, Tried(r))
       ELSE PassOn(r, Tried(r), FALSE)
    /\ UNCHANGED StoreVars

\* Any other status.  A buffered request clears the account's failures now,
\* a streamed one when its stream is over.
Accepted(r) ==
    /\ req[r].pc = "sending"
    /\ PassOn(r, Tried(r), TRUE)
    /\ cooling' = IF r \in Buffered THEN cooling \ {Current(r)} ELSE cooling
    /\ UNCHANGED StoreVars

\* Fault: a stream that breaks is retried on the next account.
StreamBreaksRetried(r) ==
    /\ req[r].pc = "streaming"
    /\ CoolDown(r)
    /\ IF Len(Route(r)) > 1
       THEN NextAccount(r, req[r])
       ELSE GiveUp(r, req[r])
    /\ UNCHANGED StoreVars

\* The stream breaks after its start: no other account is tried, and the
\* account cools down unless its status did that already.
StreamBreaks(r) ==
    /\ req[r].pc = "streaming"
    /\ IF req[r].good THEN CoolDown(r) ELSE UNCHANGED cooling
    /\ req' = [req EXCEPT ![r] = Failed(r)]
    /\ UNCHANGED <<StoreVars, lastUsed, nextSeq, passed>>

\* A fault of the host's own (no request can be made of what was asked for, an
\* answer too large, an event not emitted, a seat that is gone): the account is
\* not to blame.
LocalFailure(r) ==
    /\ req[r].pc \in {"sending", "streaming", "settled"}
    /\ req' = [req EXCEPT ![r] = Failed(r)]
    /\ UNCHANGED <<StoreVars, RouterVars>>

\* record_usage; the usage may be unreadable or the ride over, which charges
\* nothing.  Only good answers of metered requests are charged.
Charges(r) == IF r \in Metered /\ req[r].good THEN {0, 1} ELSE {0}
Charged(r, n) == [req[r] EXCEPT !.charged = @ + n]

\* The stream is complete and charged.
RecordStream(r) ==
    /\ req[r].pc = "streaming"
    /\ \E n \in Charges(r) :
          req' = [req EXCEPT ![r] = [Charged(r, n) EXCEPT !.pc = "settled"]]
    /\ UNCHANGED <<StoreVars, RouterVars>>

\* End is emitted and a good account forgets its failures.
FinishStream(r) ==
    /\ r \notin Buffered
    /\ req[r].pc = "settled"
    /\ req' = [req EXCEPT ![r] = Over(@, "end")]
    /\ cooling' = IF req[r].good THEN cooling \ {Current(r)} ELSE cooling
    /\ UNCHANGED <<StoreVars, lastUsed, nextSeq, passed>>

\* The buffered answer is charged and returned.
ReturnAnswer(r) ==
    /\ r \in Buffered
    /\ req[r].pc = "settled"
    /\ \E n \in Charges(r) :
          req' = [req EXCEPT ![r] = Over(Charged(r, n), "end")]
    /\ UNCHANGED <<StoreVars, RouterVars>>

RequestStep(r) ==
    \/ ReadPool(r) \/ Refuse(r) \/ Reserve(r) \/ AllCooling(r)
    \/ NetworkFailure(r) \/ BudgetExpires(r) \/ RefusedOutright(r)
    \/ FailedUpstream(r) \/ Accepted(r) \/ TakeNext(r)
    \/ StreamBreaks(r) \/ LocalFailure(r) \/ RecordStream(r)
    \/ FinishStream(r) \/ ReturnAnswer(r)

-----------------------------------------------------------------------------
\* The owner enables, disables, imports or deletes an account: the store is
\* written first, the route state cleared under the runtime lock afterwards.
EditPool(a) ==
    /\ edits < MaxEdits
    /\ a \notin edited
    /\ pool' = IF a \in pool THEN pool \ {a} ELSE pool \union {a}
    /\ edited' = edited \union {a}
    /\ edits' = edits + 1
    /\ UNCHANGED <<RouterVars, req>>

\* AccountRouterState::remove; the account starts over as never used.
ClearRoute(a) ==
    /\ a \in edited
    /\ edited' = edited \ {a}
    /\ cooling' = cooling \ {a}
    /\ lastUsed' = [lastUsed EXCEPT ![a] = 0]
    /\ passed' = [passed EXCEPT ![a] = [b \in Account |-> 0]]
    /\ UNCHANGED <<pool, edits, nextSeq, req>>

\* The cool-down runs out, or the owner presses retry (retry_now).
Recover(a) ==
    /\ a \in cooling
    /\ cooling' = cooling \ {a}
    /\ UNCHANGED <<StoreVars, lastUsed, nextSeq, passed, req>>

AllDone ==
    /\ \A r \in Request : req[r].pc = "done"
    /\ UNCHANGED vars

Next ==
    \/ \E r \in Request : RequestStep(r)
    \/ \E a \in Account : EditPool(a) \/ ClearRoute(a) \/ Recover(a)
    \/ AllDone

Spec == Init /\ [][Next]_vars

\* Every send ends in an answer, an error or a timeout, and the spawned task
\* that runs a request is scheduled.
FairSpec == Spec /\ \A r \in Request : WF_vars(RequestStep(r))

-----------------------------------------------------------------------------
RoutingTypeOK ==
    /\ pool \subseteq Account
    /\ edited \subseteq Account
    /\ edits \in 0 .. MaxEdits
    /\ cooling \subseteq Account
    /\ lastUsed \in [Account -> Nat]
    /\ nextSeq \in Nat
    /\ req \in [Request -> RequestRecord]
    /\ \A r \in Request : Len(Route(r)) <= MaxAttempts
    /\ passed \in [Account -> [Account -> Nat]]

\* A streamed POST without an idempotency key is executed by at most one
\* account, however its attempts fail and whatever other requests do to the
\* router (execute_host_request_stream_routed_before).
StreamsNotReplayed ==
    \A r \in Request \ (Buffered \union Replayable) : req[r].copies <= 1

\* The same of a buffered POST (execute_host_request_routed_before), as its
\* test buffered_post_does_not_replay_ambiguous_failures_without_idempotency
\* has it.
BufferedNotReplayed ==
    \A r \in Buffered \ Replayable : req[r].copies <= 1

\* What the passenger is shown is one complete story: a stream starts once,
\* ends or fails once, and no failed account shows before the one that serves.
OneStory ==
    \A r \in Request :
        /\ req[r].shown \in {<<>>, <<"start">>, <<"start", "end">>,
                             <<"start", "error">>, <<"error">>, <<"end">>}
        /\ req[r].pc = "done" <=> req[r].shown \notin {<<>>, <<"start">>}
        /\ r \in Buffered => req[r].shown \in {<<>>, <<"end">>, <<"error">>}

\* A request is charged at most once however many accounts it went through,
\* and only when an account accepted it.
ChargedOnce ==
    \A r \in Request : req[r].charged <= 1 /\ (req[r].charged = 1 => req[r].good)

\* Accounts of one priority share the load: no account is decided for twice
\* while an equal one is free and waits (order_and_reserve_candidates).
FairShare == \A a, b \in Account : passed[a][b] <= 1

\* Every request the host takes is answered or refused in the end.
Answered == \A r \in Request : <>(req[r].pc = "done")
=============================================================================
