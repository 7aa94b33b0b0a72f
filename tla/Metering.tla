------------------------------ MODULE Metering ------------------------------
(***************************************************************************)
(* What a host does about the usage of one seat: it admits a member's        *)
(* request once and below the seat's token limits (relay.rs,                 *)
(* binding_for_request; quota.rs), reads the usage of the answer (usage.rs), *)
(* prices it (pricing.rs), adds it to the seat and to the rolling windows,    *)
(* and appends it to the usage history (usage_history.rs).                   *)
(*                                                                         *)
(* Time is a small natural and the clock never goes back.  Tokens and prices *)
(* are small numbers; the price list is a constant.  What an answer reports   *)
(* is a sequence of usage records, as a streamed answer repeats it.          *)
(***************************************************************************)
EXTENDS Integers, Sequences, FiniteSets, FiniteSetsExt, SequencesExt, Lists

CONSTANTS
  Metered,      \* requests of the seat's member
  Answer,       \* answers: [tool, model, hour, events], see Extract
  Prices,       \* model -> the set of its rate card, empty without a price
  LongContext,  \* input tokens above which the long-context rates apply
  Million,      \* tokens a rate is for
  TokenLimits,  \* limits the host sets: [five, day, week], 0 for none
  Ttl, Ahead,   \* how old, and how far ahead, a request's stamp may be
  Five, Day, Week,  \* lengths of the three windows
  Skew,         \* how far ahead the passenger's clock may be
  MaxTime       \* bound: the clock

ASSUME MeteringAssumption ==
  /\ {Ttl, Ahead, Five, Day, Week, Skew, MaxTime, LongContext} \subseteq Nat
  /\ Five <= Day /\ Day <= Week /\ Million \in Nat \ {0}

\* A usage record: what was used so far of every count, 0 where it says
\* nothing.  "write" is the total of cache writes, the other two are its kinds.
Report == [input : Nat, output : Nat, read : Nat, write : Nat, write5 : Nat, write1 : Nat]

\* The most that any record of an answer says of a count.
Most(answer, count) == Max({answer.events[i][count] : i \in DOMAIN answer.events})
Written(answer) == LET kinds == Most(answer, "write5") + Most(answer, "write1")
                   IN  IF kinds > 0 THEN kinds ELSE Most(answer, "write")

\* What the providers' formats promise: the cache writes are known when the
\* answer begins, so that every record that gives their total gives the same,
\* and none gives it before one that gives the kinds; and the input that Codex
\* reports contains what was read from and written to the cache.
Consistent(answer) ==
  LET e == answer.events
      HasKinds(i) == e[i].write5 + e[i].write1 > 0 IN
  /\ \/ /\ \A i \in DOMAIN e : ~HasKinds(i)
        /\ \A i, j \in DOMAIN e : e[i].write > 0 /\ e[j].write > 0 => e[i].write = e[j].write
     \/ \A i \in DOMAIN e : e[i].write > 0 => \E j \in 1 .. i : HasKinds(j)
  /\ answer.tool = "Codex" /\ e # <<>> =>
        Most(answer, "input") >= Most(answer, "read") + Written(answer)

ASSUME AnswerAssumption ==
  Answer \subseteq [tool : {"Claude", "Codex"}, model : DOMAIN Prices, hour : BOOLEAN,
                    accepted : BOOLEAN, events : Seq(Report)]

\* A rate card: base rates, and those for long contexts if there are any.  A
\* rate for cached tokens is a set, empty if the card has none.
Rates == [input : Nat, output : Nat, read : SUBSET Nat, write5 : SUBSET Nat, write1 : SUBSET Nat]
ASSUME PricesAssumption ==
  \A model \in DOMAIN Prices : Prices[model] \subseteq [base : Rates, long : SUBSET Rates]

VARIABLES
  clock,
  stamp,    \* when each request was made by its sender, or Never
  seen,     \* relay_request_seen_at, or Never
  flight,   \* when each request that has no answer yet was admitted, or Never
  served,   \* how often each request was admitted
  ahead,    \* requests that were admitted before the time on their stamp
  limits,   \* the seat's token limits
  events,   \* token_usage_events of the seat
  usage,    \* the seat's summary, model by model
  history   \* what was given to the usage history to append, in order

meteringVars == <<clock, stamp, seen, flight, served, ahead, limits, events, usage, history>>

Never == MaxTime + Skew + 1
NoLimits == [five |-> 0, day |-> 0, week |-> 0]
Unused == [requests |-> 0, tokens |-> 0, cost |-> 0, unpriced |-> 0]

MeteringInit ==
  /\ clock = 0
  /\ stamp = [r \in Metered |-> Never]
  /\ seen = [r \in Metered |-> Never]
  /\ flight = [r \in Metered |-> Never]
  /\ served = [r \in Metered |-> 0]
  /\ ahead = {}
  /\ limits = NoLimits
  /\ events = <<>>
  /\ usage = [model \in DOMAIN Prices |-> Unused]
  /\ history = <<>>

\* The element of a set with one element.
Only(set) == CHOOSE x \in set : TRUE

-----------------------------------------------------------------------------
(***************************************************************************)
(* usage.rs: what an answer reports                                          *)
(***************************************************************************)

\* Fault: the records of a streamed answer are added up.
HigherSum(x, y) == x + y

Higher(x, y) == IF x > y THEN x ELSE y

\* One usage record e after those already read: every count keeps the larger
\* value.  A total of cache writes counts only while neither kind of write has
\* a value, and as the kind the request asked for.
ReadUsage(hour, t, e) ==
  LET w5 == Higher(t.write5, e.write5)
      w1 == Higher(t.write1, e.write1)
      total == IF w5 = 0 /\ w1 = 0 THEN e.write ELSE 0
  IN [input |-> Higher(t.input, e.input), output |-> Higher(t.output, e.output),
      read |-> Higher(t.read, e.read),
      write5 |-> IF hour THEN w5 ELSE Higher(w5, total),
      write1 |-> IF hour THEN Higher(w1, total) ELSE w1]

NoTokens == [input |-> 0, output |-> 0, read |-> 0, write5 |-> 0, write1 |-> 0]

\* extract_usage.  Codex counts what came from and went to the cache as input
\* as well.
Extract(answer) ==
  LET read[i \in 0 .. Len(answer.events)] ==
        IF i = 0 THEN NoTokens ELSE ReadUsage(answer.hour, read[i - 1], answer.events[i])
      t == read[Len(answer.events)]
      cached == t.read + t.write5 + t.write1
  IN IF answer.tool = "Codex"
     THEN [t EXCEPT !.input = IF @ > cached THEN @ - cached ELSE 0] ELSE t

Tokens(t) == t.input + t.output + t.read + t.write5 + t.write1

\* Only an accepted answer that reports something is recorded.
Reports(answer) == answer.accepted /\ Tokens(Extract(answer)) > 0

(***************************************************************************)
(* pricing.rs                                                               *)
(***************************************************************************)

\* component_cost rounds every component down.
Cost(tokens, rate) == (tokens * rate) \div Million

Cached == {"read", "write5", "write1"}

\* What the tokens of a cached kind cost, nothing if there are none.
CachedCost(t, rates, kind) == IF t[kind] = 0 THEN 0 ELSE Cost(t[kind], Only(rates[kind]))

\* estimate: the set of the price, empty when the model has no card or the
\* card has no rate for a kind of token the answer used.
Estimate(model, t) ==
  LET Chosen(card) == IF t.input + t.read + t.write5 + t.write1 > LongContext /\ card.long # {}
                      THEN Only(card.long) ELSE card.base
      Price(rates) ==
        IF \E kind \in Cached : t[kind] > 0 /\ rates[kind] = {} THEN {}
        ELSE {Cost(t.input, rates.input) + Cost(t.output, rates.output)
              + CachedCost(t, rates, "read") + CachedCost(t, rates, "write5")
              + CachedCost(t, rates, "write1")}
  IN UNION {Price(Chosen(card)) : card \in Prices[model]}

-----------------------------------------------------------------------------
(***************************************************************************)
(* quota.rs                                                                 *)
(***************************************************************************)

\* refresh_seat: events older than the longest window are dropped.
Kept(recorded, now) == Those(recorded, {e \in ToSet(recorded) : e.at > now - Week})

\* window_status: the tokens of the events in the window that ends now.
Counted(e, after, until) == IF e.at > after /\ e.at <= until THEN e.tokens ELSE 0
UsedIn(recorded, length, now) ==
  Total([i \in DOMAIN recorded |-> Counted(recorded[i], now - length, now)])

\* ensure_available: no window with a limit is used up.
Available(recorded, now) ==
  \A w \in {<<Five, limits.five>>, <<Day, limits.day>>, <<Week, limits.week>>} :
    w[2] > 0 => UsedIn(recorded, w[1], now) < w[2]

-----------------------------------------------------------------------------
(***************************************************************************)
(* The host                                                                 *)
(***************************************************************************)

Tick ==
  /\ clock < MaxTime
  /\ clock' = clock + 1
  /\ UNCHANGED <<stamp, seen, flight, served, ahead, limits, events, usage, history>>

\* The member's proxy makes a request and stamps it by its own clock.
Make(r) ==
  /\ stamp[r] = Never
  /\ \E skew \in 0 .. Skew : stamp' = [stamp EXCEPT ![r] = clock + skew]
  /\ UNCHANGED <<clock, seen, flight, served, ahead, limits, events, usage, history>>

\* Ids seen longer ago than the time to live are forgotten.
Remembered == [r \in Metered |-> IF seen[r] + Ttl >= clock THEN seen[r] ELSE Never]

\* binding_for_request: a request arrives, perhaps not for the first time.
\* One whose stamp is out of range changes nothing; a fresh one makes the old
\* ids forgotten; a new one looks at the limits, and is admitted.
Arrive(r) ==
  /\ stamp[r] # Never
  /\ stamp[r] <= clock + Ahead /\ clock <= stamp[r] + Ttl
  /\ \/ /\ Remembered[r] # Never
        /\ seen' = Remembered
        /\ UNCHANGED <<flight, served, ahead, events>>
     \/ /\ Remembered[r] = Never
        /\ events' = Kept(events, clock)
        /\ IF Available(events', clock)
           THEN /\ seen' = [Remembered EXCEPT ![r] = clock]
                /\ flight' = [flight EXCEPT ![r] = clock]
                /\ served' = [served EXCEPT ![r] = @ + 1]
                /\ ahead' = IF stamp[r] > clock THEN ahead \cup {r} ELSE ahead
           ELSE seen' = Remembered /\ UNCHANGED <<flight, served, ahead>>
  /\ UNCHANGED <<clock, stamp, limits, usage, history>>

\* official_cost_microusd of a price, nothing for none.
Worth(price) == IF price = {} THEN 0 ELSE Only(price)

\* apply_usage on the summary of the answer's model.
Applied(summary, tokens, price) ==
  [requests |-> summary.requests + 1, tokens |-> summary.tokens + tokens,
   cost |-> summary.cost + Worth(price),
   unpriced |-> summary.unpriced + (IF price = {} THEN 1 ELSE 0)]

\* The line usage_history.rs appends: what was reported and what it was worth.
HistoryRecord(answer, at, tokens, price) ==
  [answer |-> answer, at |-> at, tokens |-> tokens, price |-> price]

\* record_usage for the answer to a request: the seat, the windows and the
\* history, all of them at the time the request was admitted.  An append that
\* fails is reported in the diagnostics only.
RecordUsage(r, answer) ==
  LET t == Extract(answer)
      price == Estimate(answer.model, t)
      at == flight[r] IN
  /\ usage' = [usage EXCEPT ![answer.model] = Applied(@, Tokens(t), price)]
  /\ events' = Kept(Append(events, [at |-> at, tokens |-> Tokens(t)]), at)
  /\ history' = Append(history, HistoryRecord(answer, at, Tokens(t), price))

FinishRequest(r) ==
  /\ flight[r] # Never
  /\ flight' = [flight EXCEPT ![r] = Never]
  /\ \E answer \in Answer :
       IF Reports(answer) THEN RecordUsage(r, answer)
       ELSE UNCHANGED <<usage, events, history>>
  /\ UNCHANGED <<clock, stamp, seen, served, ahead, limits>>

\* update_member_token_limits, and get_shared_car_status, which refreshes too.
SetLimits ==
  /\ \E l \in TokenLimits \cup {NoLimits, limits} : limits' = l
  /\ events' = Kept(events, clock)
  /\ UNCHANGED <<clock, stamp, seen, flight, served, ahead, usage, history>>

MeteringNext ==
  \/ Tick \/ SetLimits
  \/ \E r \in Metered : Make(r) \/ Arrive(r) \/ FinishRequest(r)

MeteringSpec == MeteringInit /\ [][MeteringNext]_meteringVars

-----------------------------------------------------------------------------
(***************************************************************************)
(* Properties                                                               *)
(***************************************************************************)

\* Types; a request in flight was admitted, and is still remembered while a
\* copy of it would be fresh.
MeteringTypeOK ==
  /\ clock \in 0 .. MaxTime
  /\ \A r \in Metered : flight[r] # Never => flight[r] <= clock /\ served[r] > 0
  /\ \A i \in DOMAIN events : events[i].at \in 0 .. clock /\ events[i].tokens > 0
  /\ limits \in TokenLimits \cup {NoLimits}

\* A request is executed once however often it is delivered, although the host
\* forgets its id: by then it is too old.  The exception is a request that
\* was admitted before the time on its stamp (relay.rs, binding_for_request).
ServedOnce == \A r \in Metered : served[r] > 1 => r \in ahead

\* The seat's summary, the durable history and the rolling windows tell the
\* same usage: request counts, tokens, prices and requests without a price,
\* model by model; and no event still inside the longest window is missing.
BooksAgree ==
  /\ \A model \in DOMAIN Prices :
       LET mine(i) == history[i].answer.model = model IN
       /\ usage[model].requests = Total([i \in DOMAIN history |-> IF mine(i) THEN 1 ELSE 0])
       /\ usage[model].tokens =
            Total([i \in DOMAIN history |-> IF mine(i) THEN history[i].tokens ELSE 0])
       /\ usage[model].cost =
            Total([i \in DOMAIN history |-> IF mine(i) THEN Worth(history[i].price) ELSE 0])
       /\ usage[model].unpriced =
            Total([i \in DOMAIN history |-> IF mine(i) /\ history[i].price = {} THEN 1 ELSE 0])
  /\ \A length \in {Five, Day, Week} :
       UsedIn(events, length, clock) = UsedIn(history, length, clock)

\* What an answer's records say it used at most, input, output and cache
\* together, is what is charged: running totals are not added up, and tokens
\* that Codex reports twice, as input and as cached, count once (extract_usage).
\* It is about answers as the providers' formats promise them.
ChargedAsReported ==
  \A i \in DOMAIN history :
    LET answer == history[i].answer IN
    Consistent(answer) => history[i].tokens = Most(answer, "input") + Most(answer, "output")
         + (IF answer.tool = "Codex" THEN 0 ELSE Most(answer, "read") + Written(answer))

\* Each request is served once and charged for what its answer reported.
RequestsAccounted == ServedOnce /\ BooksAgree /\ ChargedAsReported
=============================================================================
