--------------------------- MODULE RoutingProofs ---------------------------
(***************************************************************************)
(* What holds of Routing for any accounts, priorities, requests and        *)
(* limits: streamed requests are not replayed, each request tells one      *)
(* story and is charged once, and equal accounts share the load.           *)
(*                                                                         *)
(* The invariant says of each request what its stage implies (RequestOK)   *)
(* and of the router that an account which was preferred to a waiting      *)
(* equal has been used more recently than that one (ShareOK).              *)
(***************************************************************************)
EXTENDS Routing, FiniteSetTheorems, SequenceTheorems, TLAPS

Single(r) == r \notin Buffered /\ r \notin Replayable

\* What the stage of request r implies of its record q.
RequestOK(r, q) ==
    /\ q \in RequestRecord
    /\ Len(q.route) <= MaxAttempts
    /\ q.pc \in {"idle", "read"} => q.shown = <<>> /\ q.charged = 0 /\ q.copies = 0
    /\ q.pc \in {"sending", "failed"} =>
          /\ q.shown = <<>> /\ q.charged = 0 /\ q.route # <<>>
          /\ Single(r) => q.copies = 0
    /\ q.pc = "streaming" =>
          /\ r \notin Buffered
          /\ q.shown = <<"start">> /\ q.charged = 0 /\ q.route # <<>>
    /\ q.pc = "settled" =>
          /\ q.shown = IF r \in Buffered THEN <<>> ELSE <<"start">>
          /\ r \in Buffered => q.charged = 0
          /\ q.route # <<>>
    /\ q.pc = "done" =>
          \/ q.shown = <<"error">>
          \/ r \in Buffered /\ q.shown = <<"end">>
          \/ r \notin Buffered /\ q.shown \in {<<"start", "end">>, <<"start", "error">>}
    /\ Single(r) => q.copies <= 1
    /\ q.charged <= 1
    /\ q.charged = 1 => q.good

RequestsOK ==
    /\ DOMAIN req = Request
    /\ req = [r \in Request |-> req[r]]
    /\ \A r \in Request : RequestOK(r, req[r])

RouterTypeOK ==
    /\ cooling \subseteq Account
    /\ lastUsed \in [Account -> Nat]
    /\ nextSeq \in Nat
    /\ passed \in [Account -> [Account -> Nat]]

StoreTypeOK ==
    /\ pool \subseteq Account
    /\ edited \subseteq Account
    /\ edits \in 0 .. MaxEdits

ShareOK ==
    /\ \A a \in Account : lastUsed[a] <= nextSeq
    /\ \A a, b \in Account :
          /\ passed[a][b] <= 1
          /\ passed[a][b] = 1 => lastUsed[a] > lastUsed[b]

RouterOK == RouterTypeOK /\ ShareOK

RoutingInv == StoreTypeOK /\ RouterOK /\ RequestsOK

-----------------------------------------------------------------------------
\* Two events in a row.
LEMMA TwoEvents ==
    ASSUME NEW S, NEW x \in S, NEW y \in S
    PROVE  Append(<<x>>, y) = <<x, y>>
  <1>1. <<x>> \in Seq(S) /\ Len(<<x>>) = 1
    OBVIOUS
  <1>2. Append(<<x>>, y) \in Seq(S) /\ Len(Append(<<x>>, y)) = 2
    BY <1>1
  <1>3. Append(<<x>>, y)[1] = x /\ Append(<<x>>, y)[2] = y
    BY <1>1
  <1>4. <<x, y>> \in Seq(S) /\ Len(<<x, y>>) = 2 /\ <<x, y>>[1] = x /\ <<x, y>>[2] = y
    OBVIOUS
  <1>5. \A i \in 1 .. 2 : Append(<<x>>, y)[i] = <<x, y>>[i]
    BY <1>3, <1>4
  <1> QED
    BY <1>2, <1>4, <1>5, SeqEqual

\* A request whose story was open is over, and charged at most for a good answer.
LEMMA OverOK ==
    ASSUME NEW r \in Request, NEW q \in RequestRecord, NEW last \in {"end", "error"},
           q.shown = <<>> \/ (r \notin Buffered /\ q.shown = <<"start">>),
           last = "end" /\ q.shown = <<>> => r \in Buffered,
           Single(r) => q.copies <= 1,
           q.charged <= 1, q.charged = 1 => q.good
    PROVE  RequestOK(r, Over(q, last))
  <1> DEFINE o == [pc |-> "done", snap |-> {}, route |-> <<>>, good |-> q.good,
               copies |-> q.copies, shown |-> Append(q.shown, last), charged |-> q.charged]
  <1>1. Over(q, last) = o
    BY DEF Over
  <1>2. o \in RequestRecord /\ Len(o.route) <= MaxAttempts
    BY RoutingAssumption DEF RequestRecord, Stage
  <1>3. \/ o.shown = <<"error">>
        \/ r \in Buffered /\ o.shown = <<"end">>
        \/ r \notin Buffered /\ o.shown \in {<<"start", "end">>, <<"start", "error">>}
    <2>1. CASE q.shown = <<>>
      <3>1. o.shown = <<last>>
        BY <2>1
      <3> QED
        BY <2>1, <3>1
    <2>2. CASE r \notin Buffered /\ q.shown = <<"start">>
      <3>1. Append(<<"start">>, last) = <<"start", last>>
        BY TwoEvents, "start" \in {"start", "end", "error"}, last \in {"start", "end", "error"}
      <3>2. o.shown = <<"start", last>>
        BY <2>2, <3>1
      <3> QED
        BY <2>2, <3>2
    <2> QED
      BY <2>1, <2>2
  <1>4. RequestOK(r, o)
    BY <1>2, <1>3 DEF RequestOK
  <1> QED
    BY <1>1, <1>4

\* The route reserved over S begins with the account before all others of S.
LEMMA OrderFirst ==
    ASSUME NEW S \in SUBSET Account, S # {}, NEW s \in Orders(S)
    PROVE  /\ s \in Seq(Account) /\ Len(s) <= MaxAttempts /\ s # <<>>
           /\ s[1] \in S
           /\ \A b \in S : b = s[1] \/ Before(s[1], b)
  <1> DEFINE n == Shorter(MaxAttempts, Cardinality(S))
  <1>1. IsFiniteSet(S)
    BY RoutingAssumption, FS_Subset
  <1>2. Cardinality(S) \in Nat /\ Cardinality(S) # 0
    BY <1>1, FS_EmptySet, FS_CardinalityType
  <1>3. n \in Nat /\ n >= 1 /\ n <= MaxAttempts
    BY <1>2, RoutingAssumption DEF Shorter
  <1>4. s \in [1 .. n -> S]
    BY DEF Orders
  <1>5. s \in Seq(S) /\ Len(s) = n /\ 1 \in DOMAIN s
    BY <1>3, <1>4
  <1>6. \A b \in S : b = s[1] \/ Before(s[1], b)
    <2> SUFFICES ASSUME NEW b \in S PROVE b = s[1] \/ Before(s[1], b)
      OBVIOUS
    <2>1. CASE \A i \in DOMAIN s : Before(s[i], b)
      BY <2>1, <1>5
    <2>2. CASE \E i \in DOMAIN s : s[i] = b
      <3>1. PICK i \in DOMAIN s : s[i] = b
        BY <2>2
      <3>2. i = 1 \/ 1 < i
        BY <1>3, <1>4
      <3>3. \A i1, j \in DOMAIN s : i1 < j => Before(s[i1], s[j])
        BY DEF Orders
      <3> QED
        BY <3>1, <3>2, <3>3, <1>5
    <2> QED
      BY <2>1, <2>2 DEF Orders
  <1> QED
    BY <1>3, <1>4, <1>5, <1>6

-----------------------------------------------------------------------------
\* The router: deciding for the first account of an order keeps the shares.
LEMMA DecideOK ==
    ASSUME RouterOK, cooling' \subseteq Account,
           NEW S \in SUBSET Account, NEW a \in S,
           \A b \in S : b = a \/ Before(a, b),
           Mark(a), Decide(a, S)
    PROVE  RouterOK'
  <1>1. /\ lastUsed' \in [Account -> Nat] /\ nextSeq' \in Nat
        /\ \A b \in Account : lastUsed'[b] = IF b = a THEN nextSeq + 1 ELSE lastUsed[b]
        /\ nextSeq' = nextSeq + 1
    BY DEF Mark, RouterOK, RouterTypeOK
  <1>2. \A p, b \in Account : passed[p][b] \in Nat
    BY DEF RouterOK, RouterTypeOK
  <1>3. \A p, b \in Account :
           passed'[p][b] = IF b = a THEN 0
                           ELSE IF p = a /\ b \in S /\ Priority[b] = Priority[a]
                                THEN passed[p][b] + 1
                           ELSE passed[p][b]
    BY DEF Decide
  <1>4. passed' \in [Account -> [Account -> Nat]]
    BY <1>2 DEF Decide
  <1>5. \A b \in S : b # a /\ Priority[b] = Priority[a] => passed[a][b] = 0
    <2> SUFFICES ASSUME NEW b \in S, b # a, Priority[b] = Priority[a]
                 PROVE  passed[a][b] = 0
      OBVIOUS
    <2>1. ~(lastUsed[a] > lastUsed[b])
      <3>1. Before(a, b)
        OBVIOUS
      <3>2. Priority[a] \in Nat
        BY RoutingAssumption
      <3> QED
        BY <3>1, <3>2 DEF Before, RouterOK, RouterTypeOK
    <2> QED
      BY <2>1, <1>2 DEF RouterOK, ShareOK
  <1>6. \A b \in Account : lastUsed[b] \in Nat /\ lastUsed[b] <= nextSeq /\ nextSeq \in Nat
    BY DEF RouterOK, RouterTypeOK, ShareOK
  <1>7. ShareOK'
    <2>1. \A b \in Account : lastUsed'[b] <= nextSeq'
      BY <1>1, <1>6
    <2>2. ASSUME NEW p \in Account, NEW b \in Account
          PROVE  passed'[p][b] <= 1 /\ (passed'[p][b] = 1 => lastUsed'[p] > lastUsed'[b])
      <3>1. CASE b = a
        BY <3>1, <1>3
      <3>2. CASE b # a /\ p = a /\ b \in S /\ Priority[b] = Priority[a]
        BY <3>2, <1>1, <1>3, <1>5, <1>6
      <3>3. CASE b # a /\ ~(p = a /\ b \in S /\ Priority[b] = Priority[a])
        <4>1. passed'[p][b] = passed[p][b]
          BY <3>3, <1>3
        <4>2. passed[p][b] <= 1 /\ (passed[p][b] = 1 => lastUsed[p] > lastUsed[b])
          BY DEF RouterOK, ShareOK
        <4>3. lastUsed'[b] = lastUsed[b] /\ lastUsed'[p] >= lastUsed[p]
          BY <3>3, <1>1, <1>6
        <4> QED
          BY <4>1, <4>2, <4>3, <1>1, <1>6
      <3> QED
        BY <3>1, <3>2, <3>3
    <2> QED
      BY <2>1, <2>2 DEF ShareOK
  <1> QED
    BY <1>1, <1>4, <1>7 DEF RouterOK, RouterTypeOK

\* A failover only makes the account it turns to the most recent one.
LEMMA ServedOK ==
    ASSUME RouterOK, cooling' \subseteq Account, NEW a \in Account, Mark(a), Served(a)
    PROVE  RouterOK'
  <1>1. /\ lastUsed' \in [Account -> Nat] /\ nextSeq' \in Nat
        /\ \A b \in Account : lastUsed'[b] = IF b = a THEN nextSeq + 1 ELSE lastUsed[b]
        /\ nextSeq' = nextSeq + 1
    BY DEF Mark, RouterOK, RouterTypeOK
  <1>2. /\ passed' \in [Account -> [Account -> Nat]]
        /\ \A p, b \in Account : passed'[p][b] = IF b = a THEN 0 ELSE passed[p][b]
    BY DEF Served, RouterOK, RouterTypeOK
  <1>3. \A b \in Account : lastUsed[b] \in Nat /\ lastUsed[b] <= nextSeq /\ nextSeq \in Nat
    BY DEF RouterOK, RouterTypeOK, ShareOK
  <1>4. \A p, b \in Account :
           passed[p][b] <= 1 /\ (passed[p][b] = 1 => lastUsed[p] > lastUsed[b])
    BY DEF RouterOK, ShareOK
  <1>5. ShareOK'
    <2>1. \A b \in Account : lastUsed'[b] <= nextSeq'
      BY <1>1, <1>3
    <2>2. ASSUME NEW p \in Account, NEW b \in Account
          PROVE  passed'[p][b] <= 1 /\ (passed'[p][b] = 1 => lastUsed'[p] > lastUsed'[b])
      <3>1. CASE b = a
        BY <3>1, <1>2
      <3>2. CASE b # a
        <4>1. passed'[p][b] = passed[p][b]
          BY <3>2, <1>2
        <4>2. lastUsed'[b] = lastUsed[b] /\ lastUsed'[p] >= lastUsed[p]
          BY <3>2, <1>1, <1>3
        <4> QED
          BY <4>1, <4>2, <1>1, <1>3, <1>4
      <3> QED
        BY <3>1, <3>2
    <2> QED
      BY <2>1, <2>2 DEF ShareOK
  <1> QED
    BY <1>1, <1>2, <1>5 DEF RouterOK, RouterTypeOK

\* The router's order does not depend on the cool-downs.
LEMMA CooledOK ==
    ASSUME RouterOK, cooling' \subseteq Account, UNCHANGED <<lastUsed, nextSeq, passed>>
    PROVE  RouterOK'
  BY DEF RouterOK, RouterTypeOK, ShareOK

\* An edited account starts over as never used and never preferred.
LEMMA ClearedOK ==
    ASSUME RoutingInv, NEW a \in Account, ClearRoute(a)
    PROVE  RouterOK'
  <1>1. /\ cooling' \subseteq Account /\ nextSeq' = nextSeq /\ nextSeq \in Nat
        /\ lastUsed' \in [Account -> Nat]
        /\ \A b \in Account : lastUsed'[b] = IF b = a THEN 0 ELSE lastUsed[b]
    BY DEF ClearRoute, RoutingInv, RouterOK, RouterTypeOK
  <1>2. /\ passed' \in [Account -> [Account -> Nat]]
        /\ \A p, b \in Account : passed'[p][b] = IF p = a THEN 0 ELSE passed[p][b]
    BY DEF ClearRoute, RoutingInv, RouterOK, RouterTypeOK
  <1>3. \A b \in Account : lastUsed[b] \in Nat /\ lastUsed[b] <= nextSeq
    BY DEF RoutingInv, RouterOK, RouterTypeOK, ShareOK
  <1>4. \A p, b \in Account :
           passed[p][b] <= 1 /\ (passed[p][b] = 1 => lastUsed[p] > lastUsed[b])
    BY DEF RoutingInv, RouterOK, ShareOK
  <1>5. ShareOK'
    BY <1>1, <1>2, <1>3, <1>4 DEF ShareOK
  <1> QED
    BY <1>1, <1>2, <1>5 DEF RouterOK, RouterTypeOK

-----------------------------------------------------------------------------
\* The requests: a step of r that leaves its record in order leaves all so.
LEMMA OneRequest ==
    ASSUME RequestsOK, NEW r \in Request, NEW q, RequestOK(r, q),
           req' = [req EXCEPT ![r] = q]
    PROVE  RequestsOK'
  <1>1. /\ DOMAIN req' = Request
        /\ \A x \in Request : req'[x] = IF x = r THEN q ELSE req[x]
        /\ req' = [x \in Request |-> req'[x]]
    BY DEF RequestsOK
  <1>2. \A x \in Request : RequestOK(x, req'[x])
    BY <1>1 DEF RequestsOK
  <1> QED
    BY <1>1, <1>2 DEF RequestsOK

\* The rest of a route is a route.
LEMMA RouteTail ==
    ASSUME NEW s \in Seq(Account), Len(s) > 1, Len(s) <= MaxAttempts
    PROVE  /\ Tail(s) \in Seq(Account) /\ Tail(s) # <<>> /\ Len(Tail(s)) <= MaxAttempts
           /\ s[2] \in Account
  <1>1. Len(s) \in Nat /\ s # <<>> /\ MaxAttempts \in Nat
    BY RoutingAssumption
  <1>2. Tail(s) \in Seq(Account) /\ Len(Tail(s)) = Len(s) - 1
    BY <1>1
  <1>3. Tail(s) # <<>>
    <2>1. Len(Tail(s)) # 0
      BY <1>1, <1>2
    <2>2. Len(<<>>) = 0
      BY EmptySeq
    <2> QED
      BY <2>1, <2>2, Zenon
  <1>4. s[2] \in Account
    BY <1>1
  <1> QED
    BY <1>1, <1>2, <1>3, <1>4

\* A request in an attempt whose record q differs from its own at most in
\* "copies", which grew by no more than one.
Attempted(r, q) ==
    /\ req[r].pc = "sending"
    /\ q \in {req[r], Tried(r)}

\* A request that was attempted keeps its route and has shown and been charged nothing.
LEMMA AttemptedFields ==
    ASSUME RequestsOK, NEW r \in Request, NEW q, Attempted(r, q)
    PROVE  /\ q \in RequestRecord
           /\ q.pc = "sending" /\ q.shown = <<>> /\ q.charged = 0
           /\ q.route = Route(r) /\ q.route # <<>> /\ q.route \in Seq(Account)
           /\ Len(q.route) <= MaxAttempts
           /\ Single(r) => q.copies <= 1
           /\ q = req[r] => (Single(r) => q.copies = 0)
  <1>1. req[r] \in RequestRecord /\ RequestOK(r, req[r])
    BY DEF RequestsOK, RequestOK
  <1>2. Tried(r) \in RequestRecord
    BY <1>1 DEF Tried, RequestRecord
  <1>3. /\ Tried(r).pc = req[r].pc /\ Tried(r).shown = req[r].shown
        /\ Tried(r).charged = req[r].charged /\ Tried(r).route = req[r].route
        /\ Tried(r).copies = req[r].copies + 1
    BY <1>1 DEF Tried, RequestRecord
  <1>4. req[r].route \in Seq(Account) /\ req[r].copies \in Nat
    BY <1>1 DEF RequestRecord
  <1> QED
    BY <1>1, <1>2, <1>3, <1>4 DEF Attempted, RequestOK, Route

\* Passing a request on to the next account of its route keeps the requests sound.
LEMMA NextAccountOK ==
    ASSUME RequestsOK, NEW r \in Request, NEW q, Attempted(r, q), NextAccount(r, q),
           q = req[r] \/ ~Single(r)
    PROVE  RequestsOK'
  <1> DEFINE n == [q EXCEPT !.pc = "failed", !.route = Tail(@)]
  <1>1. /\ q \in RequestRecord
        /\ q.pc = "sending" /\ q.shown = <<>> /\ q.charged = 0
        /\ q.route = Route(r) /\ q.route \in Seq(Account)
        /\ Len(q.route) <= MaxAttempts
        /\ Single(r) => q.copies = 0
    BY AttemptedFields
  <1>2. Len(q.route) > 1
    BY <1>1 DEF NextAccount
  <1>3. /\ Tail(q.route) \in Seq(Account) /\ Tail(q.route) # <<>>
        /\ Len(Tail(q.route)) <= MaxAttempts /\ q.route[2] \in Account
    BY <1>1, <1>2, RouteTail
  <1>4. n \in RequestRecord
    BY <1>1, <1>3 DEF RequestRecord, Stage
  <1>5. /\ n.pc = "failed" /\ n.shown = <<>> /\ n.charged = 0
        /\ n.route = Tail(q.route) /\ n.copies = q.copies
    BY <1>1 DEF RequestRecord
  <1>6. q.copies \in Nat
    BY <1>1 DEF RequestRecord
  <1>7. RequestOK(r, n)
    BY <1>1, <1>3, <1>4, <1>5, <1>6 DEF RequestOK
  <1>8. req' = [req EXCEPT ![r] = n]
    BY DEF NextAccount
  <1> QED
    BY <1>1, <1>3, <1>7, <1>8, OneRequest

\* Giving a request up keeps them sound.
LEMMA GiveUpOK ==
    ASSUME RequestsOK, NEW r \in Request, NEW q, Attempted(r, q), GiveUp(r, q)
    PROVE  RequestsOK'
  <1>1. /\ q \in RequestRecord /\ q.shown = <<>> /\ q.charged = 0
        /\ Single(r) => q.copies <= 1
    BY AttemptedFields
  <1>2. RequestOK(r, Over(q, "error"))
    BY <1>1, OverOK
  <1> QED
    BY <1>2, OneRequest DEF GiveUp

\* Passing an upstream answer on keeps them sound.
LEMMA PassOnOK ==
    ASSUME RequestsOK, NEW r \in Request, NEW q, Attempted(r, q),
           NEW good \in BOOLEAN, PassOn(r, q, good)
    PROVE  RequestsOK'
  <1> DEFINE whole == [q EXCEPT !.pc = "settled", !.good = good]
             start == [q EXCEPT !.pc = "streaming", !.good = good,
                                !.shown = Append(@, "start")]
  <1>1. /\ q \in RequestRecord /\ q.shown = <<>> /\ q.charged = 0
        /\ q.route # <<>> /\ Len(q.route) <= MaxAttempts
        /\ Single(r) => q.copies <= 1
    BY AttemptedFields
  <1>2. CASE r \in Buffered
    <2>1. whole \in RequestRecord
      BY <1>1 DEF RequestRecord, Stage
    <2>2. /\ whole.pc = "settled" /\ whole.shown = <<>> /\ whole.charged = 0
          /\ whole.route = q.route /\ whole.copies = q.copies
      BY <1>1 DEF RequestRecord
    <2>3. RequestOK(r, whole)
      BY <1>1, <1>2, <2>1, <2>2 DEF RequestOK
    <2>4. req' = [req EXCEPT ![r] = whole]
      BY <1>2 DEF PassOn
    <2> QED
      BY <2>3, <2>4, OneRequest
  <1>3. CASE r \notin Buffered
    <2>1. Append(q.shown, "start") = <<"start">>
      BY <1>1
    <2>2. start = [q EXCEPT !.pc = "streaming", !.good = good, !.shown = <<"start">>]
      BY <2>1
    <2>3. start \in RequestRecord
      <3>1. <<"start">> \in Seq({"start", "end", "error"})
        OBVIOUS
      <3> QED
        BY <1>1, <2>2, <3>1 DEF RequestRecord, Stage
    <2>4. /\ start.pc = "streaming" /\ start.shown = <<"start">> /\ start.charged = 0
          /\ start.route = q.route /\ start.copies = q.copies
      BY <1>1, <2>2 DEF RequestRecord
    <2>5. RequestOK(r, start)
      BY <1>1, <1>3, <2>3, <2>4 DEF RequestOK
    <2>6. req' = [req EXCEPT ![r] = start]
      BY <1>3 DEF PassOn
    <2> QED
      BY <2>5, <2>6, OneRequest
  <1> QED
    BY <1>2, <1>3

\* The step of a request whose record becomes q, where the router may change.
LEMMA StoryEnds ==
    ASSUME RequestsOK, NEW r \in Request,
           req[r].pc \in {"idle", "read", "sending", "streaming", "settled"},
           req' = [req EXCEPT ![r] = Failed(r)]
    PROVE  RequestsOK'
  <1>1. RequestOK(r, req[r])
    BY DEF RequestsOK
  <1>2. req[r] \in RequestRecord /\ req[r].charged <= 1 /\ (req[r].charged = 1 => req[r].good)
        /\ (Single(r) => req[r].copies <= 1)
    BY <1>1 DEF RequestOK
  <1>3. req[r].shown = <<>> \/ (r \notin Buffered /\ req[r].shown = <<"start">>)
    BY <1>1 DEF RequestOK
  <1>4. RequestOK(r, Over(req[r], "error"))
    BY <1>2, <1>3, OverOK
  <1> QED
    BY <1>4, OneRequest DEF Failed

\* Reading the pool, reserving a route, and what may go wrong before a send.
LEMMA AdmissionOK ==
    ASSUME RoutingInv, NEW r \in Request,
           ReadPool(r) \/ Refuse(r) \/ AllCooling(r) \/ Reserve(r)
    PROVE  RouterOK' /\ RequestsOK' /\ UNCHANGED StoreVars
  <1> USE DEF RoutingInv
  <1>0. RequestOK(r, req[r]) /\ req[r] \in RequestRecord
    BY DEF RequestsOK, RequestOK
  <1>1. CASE ReadPool(r)
    <2>1. RouterOK'
      BY <1>1, CooledOK DEF ReadPool, RouterVars, RouterOK, RouterTypeOK
    <2>2. CASE pool = {}
      BY <1>1, <2>1, <2>2, StoryEnds DEF ReadPool
    <2>3. CASE pool # {}
      <3> DEFINE q == [req[r] EXCEPT !.pc = "read", !.snap = pool]
      <3>1. q \in RequestRecord
        BY <1>0 DEF RequestRecord, Stage, StoreTypeOK
      <3>2. /\ q.pc = "read" /\ q.shown = req[r].shown /\ q.charged = req[r].charged
            /\ q.copies = req[r].copies /\ q.route = req[r].route
        BY <1>0 DEF RequestRecord
      <3>3. RequestOK(r, q)
        BY <1>0, <1>1, <3>1, <3>2 DEF RequestOK, ReadPool
      <3>4. req' = [req EXCEPT ![r] = q]
        BY <1>1, <2>3 DEF ReadPool
      <3> QED
        BY <1>1, <2>1, <3>3, <3>4, OneRequest DEF ReadPool
    <2> QED
      BY <2>2, <2>3
  <1>2. CASE Refuse(r) \/ AllCooling(r)
    <2>1. RouterOK'
      BY <1>2, CooledOK DEF Refuse, AllCooling, RouterVars, RouterOK, RouterTypeOK
    <2>2. RequestsOK'
      BY <1>2, StoryEnds DEF Refuse, AllCooling
    <2> QED
      BY <1>2, <2>1, <2>2 DEF Refuse, AllCooling
  <1>3. CASE Reserve(r)
    <2> DEFINE free == req[r].snap \ cooling
    <2>1. free \in SUBSET Account /\ free # {} /\ req[r].pc = "read"
      BY <1>0, <1>3 DEF Reserve, RequestRecord
    <2>2. PICK s \in Orders(free) :
             /\ req' = [req EXCEPT ![r] = [@ EXCEPT !.pc = "sending", !.snap = {}, !.route = s]]
             /\ Mark(s[1])
             /\ Decide(s[1], free)
      BY <1>3 DEF Reserve
    <2>3. /\ s \in Seq(Account) /\ Len(s) <= MaxAttempts /\ s # <<>>
          /\ s[1] \in free
          /\ \A b \in free : b = s[1] \/ Before(s[1], b)
      BY <2>1, OrderFirst
    <2>4. RouterOK'
      <3>1. cooling' \subseteq Account
        BY <1>3 DEF Reserve, RouterOK, RouterTypeOK
      <3> HIDE DEF free
      <3> QED
        BY <2>1, <2>2, <2>3, <3>1, DecideOK
    <2> DEFINE q == [req[r] EXCEPT !.pc = "sending", !.snap = {}, !.route = s]
    <2>5. q \in RequestRecord
      BY <1>0, <2>3 DEF RequestRecord, Stage
    <2>6. /\ q.pc = "sending" /\ q.shown = req[r].shown /\ q.charged = req[r].charged
          /\ q.copies = req[r].copies /\ q.route = s
      BY <1>0 DEF RequestRecord
    <2>7. RequestOK(r, q)
      BY <1>0, <2>1, <2>3, <2>5, <2>6 DEF RequestOK
    <2>8. req' = [req EXCEPT ![r] = q]
      BY <2>2
    <2> QED
      BY <1>3, <2>4, <2>7, <2>8, OneRequest DEF Reserve
  <1> QED
    BY <1>1, <1>2, <1>3

\* The outcome of an attempt: the next account, an error, or an answer.
LEMMA AttemptOK ==
    ASSUME RoutingInv, NEW r \in Request, NEW q, Attempted(r, q),
           cooling' \subseteq Account,
           \/ NextAccount(r, q) /\ (q = req[r] \/ ~Single(r))
           \/ GiveUp(r, q)
           \/ PassOn(r, q, TRUE)
           \/ PassOn(r, q, FALSE)
    PROVE  RouterOK' /\ RequestsOK'
  <1>0. RequestsOK /\ RouterOK
    BY DEF RoutingInv
  <1>1. CASE NextAccount(r, q) /\ (q = req[r] \/ ~Single(r))
    BY <1>0, <1>1, NextAccountOK, CooledOK DEF NextAccount
  <1>2. CASE GiveUp(r, q)
    BY <1>0, <1>2, GiveUpOK, CooledOK DEF GiveUp
  <1>3. CASE PassOn(r, q, TRUE)
    BY <1>0, <1>3, PassOnOK, CooledOK DEF PassOn
  <1>4. CASE PassOn(r, q, FALSE)
    BY <1>0, <1>4, PassOnOK, CooledOK DEF PassOn
  <1> QED
    BY <1>1, <1>2, <1>3, <1>4

\* An account of a route is an account.
LEMMA CurrentAccount ==
    ASSUME RequestsOK, NEW r \in Request, req[r].pc \in {"sending", "failed", "streaming", "settled"}
    PROVE  Current(r) \in Account
  <1>1. RequestOK(r, req[r])
    BY DEF RequestsOK
  <1>2. req[r].route \in Seq(Account) /\ req[r].route # <<>>
    BY <1>1 DEF RequestOK, RequestRecord
  <1> QED
    BY <1>2 DEF Current, Route

\* Sending: every outcome of an attempt.
LEMMA SendOK ==
    ASSUME RoutingInv, NEW r \in Request,
           \/ NetworkFailure(r) \/ BudgetExpires(r) \/ RefusedOutright(r)
           \/ FailedUpstream(r) \/ Accepted(r)
    PROVE  RouterOK' /\ RequestsOK' /\ UNCHANGED StoreVars
  <1>0. RequestsOK /\ cooling \subseteq Account
    BY DEF RoutingInv, RouterOK, RouterTypeOK
  <1>1. req[r].pc = "sending" /\ UNCHANGED StoreVars
    BY DEF NetworkFailure, BudgetExpires, RefusedOutright, FailedUpstream, Accepted
  <1>2. cooling' \subseteq Account
    <2>1. Current(r) \in Account
      BY <1>0, <1>1, CurrentAccount
    <2> QED
      BY <1>0, <2>1 DEF NetworkFailure, BudgetExpires, RefusedOutright, FailedUpstream,
                        Accepted, CoolDown
  <1>3. Attempted(r, req[r]) /\ Attempted(r, Tried(r))
    BY <1>1 DEF Attempted
  <1>4. CASE NetworkFailure(r)
    <2>1. (NextAccount(r, Tried(r)) /\ ~Single(r)) \/ GiveUp(r, Tried(r))
      BY <1>4 DEF NetworkFailure, Single
    <2> QED
      BY <1>1, <1>2, <1>3, <2>1, AttemptOK
  <1>5. CASE BudgetExpires(r)
    <2>1. GiveUp(r, Tried(r))
      BY <1>5 DEF BudgetExpires
    <2> QED
      BY <1>1, <1>2, <1>3, <2>1, AttemptOK
  <1>6. CASE RefusedOutright(r)
    <2>1. NextAccount(r, req[r]) \/ PassOn(r, req[r], FALSE)
      BY <1>6 DEF RefusedOutright
    <2> QED
      BY <1>1, <1>2, <1>3, <2>1, AttemptOK
  <1>7. CASE FailedUpstream(r)
    <2>1. (NextAccount(r, Tried(r)) /\ ~Single(r)) \/ PassOn(r, Tried(r), FALSE)
      BY <1>7 DEF FailedUpstream, Single
    <2> QED
      BY <1>1, <1>2, <1>3, <2>1, AttemptOK
  <1>8. CASE Accepted(r)
    <2>1. PassOn(r, Tried(r), TRUE)
      BY <1>8 DEF Accepted
    <2> QED
      BY <1>1, <1>2, <1>3, <2>1, AttemptOK
  <1> QED
    BY <1>4, <1>5, <1>6, <1>7, <1>8

\* Turning to the next account of the route.
LEMMA TakeNextOK ==
    ASSUME RoutingInv, NEW r \in Request, TakeNext(r)
    PROVE  RouterOK' /\ RequestsOK' /\ UNCHANGED StoreVars
  <1>0. RequestsOK /\ RouterOK
    BY DEF RoutingInv
  <1>1. RequestOK(r, req[r]) /\ req[r] \in RequestRecord /\ req[r].pc = "failed"
    BY <1>0 DEF TakeNext, RequestsOK, RequestOK
  <1>2. RouterOK'
    <2>1. Current(r) \in Account
      BY <1>0, <1>1, CurrentAccount
    <2>2. cooling' \subseteq Account
      BY <1>0 DEF TakeNext, RouterOK, RouterTypeOK
    <2> QED
      BY <1>0, <2>1, <2>2, ServedOK DEF TakeNext
  <1> DEFINE q == [req[r] EXCEPT !.pc = "sending"]
  <1>3. q \in RequestRecord
    BY <1>1 DEF RequestRecord, Stage
  <1>4. /\ q.pc = "sending" /\ q.shown = req[r].shown /\ q.charged = req[r].charged
        /\ q.copies = req[r].copies /\ q.route = req[r].route /\ q.good = req[r].good
    BY <1>1 DEF RequestRecord
  <1>5. RequestOK(r, q)
    BY <1>1, <1>3, <1>4 DEF RequestOK
  <1>6. req' = [req EXCEPT ![r] = q]
    BY DEF TakeNext
  <1> QED
    BY <1>0, <1>2, <1>5, <1>6, OneRequest DEF TakeNext

\* Charging a request changes nothing else of it.
LEMMA ChargedFields ==
    ASSUME NEW r \in Request, req[r] \in RequestRecord, req[r].charged = 0, NEW n \in {0, 1}
    PROVE  /\ Charged(r, n) \in RequestRecord
           /\ Charged(r, n).shown = req[r].shown /\ Charged(r, n).charged = n
           /\ Charged(r, n).copies = req[r].copies /\ Charged(r, n).good = req[r].good
           /\ Charged(r, n).route = req[r].route
  <1>1. Charged(r, n) = [req[r] EXCEPT !.charged = n]
    BY DEF Charged
  <1> QED
    BY <1>1 DEF RequestRecord

\* After the start: the stream breaks, is charged, ends or the answer returns.
LEMMA ServeOK ==
    ASSUME RoutingInv, NEW r \in Request,
           \/ StreamBreaks(r) \/ LocalFailure(r) \/ RecordStream(r)
           \/ FinishStream(r) \/ ReturnAnswer(r)
    PROVE  RouterOK' /\ RequestsOK' /\ UNCHANGED StoreVars
  <1>0. RequestsOK /\ RouterOK /\ cooling \subseteq Account
    BY DEF RoutingInv, RouterOK, RouterTypeOK
  <1>1. RequestOK(r, req[r]) /\ req[r] \in RequestRecord
    BY <1>0 DEF RequestsOK, RequestOK
  <1>2. req[r].pc \in {"sending", "streaming", "settled"} /\ UNCHANGED StoreVars
    BY DEF StreamBreaks, LocalFailure, RecordStream, FinishStream, ReturnAnswer
  <1>3. RouterOK'
    <2>1. Current(r) \in Account
      BY <1>0, <1>2, CurrentAccount
    <2>2. cooling' \subseteq Account
      BY <1>0, <2>1 DEF StreamBreaks, LocalFailure, RecordStream, FinishStream,
                        ReturnAnswer, CoolDown, RouterVars
    <2>3. UNCHANGED <<lastUsed, nextSeq, passed>>
      BY DEF StreamBreaks, LocalFailure, RecordStream, FinishStream, ReturnAnswer, RouterVars
    <2> QED
      BY <1>0, <2>2, <2>3, CooledOK
  <1>4. CASE StreamBreaks(r) \/ LocalFailure(r)
    BY <1>0, <1>2, <1>3, <1>4, StoryEnds DEF StreamBreaks, LocalFailure
  <1>5. CASE RecordStream(r)
    <2>1. PICK n \in Charges(r) :
             req' = [req EXCEPT ![r] = [Charged(r, n) EXCEPT !.pc = "settled"]]
      BY <1>5 DEF RecordStream
    <2> DEFINE q == [Charged(r, n) EXCEPT !.pc = "settled"]
    <2>2. n \in {0, 1} /\ (n = 1 => req[r].good)
      BY DEF Charges
    <2>3. /\ req[r].pc = "streaming" /\ r \notin Buffered /\ req[r].charged = 0
          /\ req[r].shown = <<"start">> /\ req[r].route # <<>>
      BY <1>1, <1>5 DEF RequestOK, RecordStream
    <2>4. q \in RequestRecord
      BY <1>1, <2>2, <2>3, ChargedFields DEF RequestRecord, Stage
    <2>5. /\ q.pc = "settled" /\ q.shown = req[r].shown /\ q.charged = n
          /\ q.copies = req[r].copies /\ q.route = req[r].route /\ q.good = req[r].good
      BY <1>1, <2>2, <2>3, ChargedFields DEF RequestRecord
    <2>6. RequestOK(r, q)
      BY <1>1, <2>2, <2>3, <2>4, <2>5 DEF RequestOK
    <2>7. req' = [req EXCEPT ![r] = q]
      BY <2>1
    <2> QED
      BY <1>0, <1>2, <1>3, <2>6, <2>7, OneRequest
  <1>6. CASE FinishStream(r)
    <2>1. /\ r \notin Buffered /\ req[r].shown = <<"start">>
          /\ req[r].charged <= 1 /\ (req[r].charged = 1 => req[r].good)
          /\ (Single(r) => req[r].copies <= 1)
      BY <1>1, <1>6 DEF RequestOK, FinishStream
    <2>2. RequestOK(r, Over(req[r], "end"))
      BY <1>1, <2>1, OverOK
    <2>3. req' = [req EXCEPT ![r] = Over(req[r], "end")]
      BY <1>6 DEF FinishStream
    <2> QED
      BY <1>0, <1>2, <1>3, <2>2, <2>3, OneRequest
  <1>7. CASE ReturnAnswer(r)
    <2>1. PICK n \in Charges(r) :
             req' = [req EXCEPT ![r] = Over(Charged(r, n), "end")]
      BY <1>7 DEF ReturnAnswer
    <2> DEFINE q == Charged(r, n)
    <2>2. n \in {0, 1} /\ (n = 1 => req[r].good)
      BY DEF Charges
    <2>3. r \in Buffered /\ req[r].charged = 0 /\ req[r].shown = <<>>
      BY <1>1, <1>7 DEF RequestOK, ReturnAnswer
    <2>4. q \in RequestRecord
      BY <1>1, <2>2, <2>3, ChargedFields
    <2>5. /\ q.shown = <<>> /\ q.charged = n /\ q.copies = req[r].copies
          /\ q.good = req[r].good
      BY <1>1, <2>2, <2>3, ChargedFields
    <2>6. Single(r) => q.copies <= 1
      BY <2>3 DEF Single
    <2>7. RequestOK(r, Over(q, "end"))
      <3> HIDE DEF q
      <3> QED
        BY <2>2, <2>3, <2>4, <2>5, <2>6, OverOK
    <2>8. req' = [req EXCEPT ![r] = Over(q, "end")]
      BY <2>1
    <2> QED
      BY <1>0, <1>2, <1>3, <2>7, <2>8, OneRequest
  <1> QED
    BY <1>4, <1>5, <1>6, <1>7

-----------------------------------------------------------------------------

\* The invariant holds before any request.
LEMMA RoutingInit == Init => RoutingInv
  <1> SUFFICES ASSUME Init PROVE RoutingInv
    OBVIOUS
  <1>1. Fresh \in RequestRecord /\ Len(Fresh.route) <= MaxAttempts
    <2>1. <<>> \in Seq(Account) /\ Len(<<>>) = 0
      BY EmptySeq
    <2>2. <<>> \in Seq({"start", "end", "error"})
      BY EmptySeq
    <2>3. Fresh \in RequestRecord
      BY <2>1, <2>2 DEF Fresh, RequestRecord, Stage
    <2> QED
      BY <2>1, <2>3, RoutingAssumption DEF Fresh
  <1>2. \A r \in Request : RequestOK(r, Fresh)
    BY <1>1 DEF RequestOK, Fresh
  <1>3. RequestsOK
    BY <1>2 DEF Init, RequestsOK
  <1>4. RouterOK
    BY DEF Init, RouterOK, RouterTypeOK, ShareOK
  <1>5. StoreTypeOK
    BY RoutingAssumption DEF Init, StoreTypeOK
  <1> QED
    BY <1>3, <1>4, <1>5 DEF RoutingInv

\* Every step of the store, the router and the requests keeps it.
LEMMA RoutingStep == RoutingInv /\ [Next]_vars => RoutingInv'
  <1> SUFFICES ASSUME RoutingInv, [Next]_vars PROVE RoutingInv'
    OBVIOUS
  <1>0. StoreTypeOK /\ RouterOK /\ RequestsOK
    BY DEF RoutingInv
  <1>1. ASSUME NEW r \in Request, RequestStep(r) PROVE RoutingInv'
    <2>1. RouterOK' /\ RequestsOK' /\ UNCHANGED StoreVars
      BY <1>1, AdmissionOK, SendOK, TakeNextOK, ServeOK DEF RequestStep
    <2>2. StoreTypeOK'
      BY <1>0, <2>1 DEF StoreTypeOK, StoreVars
    <2> QED
      BY <2>1, <2>2 DEF RoutingInv
  <1>2. ASSUME NEW a \in Account, EditPool(a) PROVE RoutingInv'
    <2>1. StoreTypeOK'
      BY <1>0, <1>2, RoutingAssumption DEF EditPool, StoreTypeOK
    <2>2. RouterOK'
      BY <1>0, <1>2, CooledOK DEF EditPool, RouterVars, RouterOK, RouterTypeOK
    <2>3. RequestsOK'
      BY <1>0, <1>2 DEF EditPool, RequestsOK
    <2> QED
      BY <2>1, <2>2, <2>3 DEF RoutingInv
  <1>3. ASSUME NEW a \in Account, ClearRoute(a) PROVE RoutingInv'
    <2>1. StoreTypeOK'
      BY <1>0, <1>3 DEF ClearRoute, StoreTypeOK
    <2>2. RouterOK'
      BY <1>3, ClearedOK
    <2>3. RequestsOK'
      BY <1>0, <1>3 DEF ClearRoute, RequestsOK
    <2> QED
      BY <2>1, <2>2, <2>3 DEF RoutingInv
  <1>4. ASSUME NEW a \in Account, Recover(a) PROVE RoutingInv'
    <2>1. StoreTypeOK'
      BY <1>0, <1>4 DEF Recover, StoreTypeOK, StoreVars
    <2>2. cooling' \subseteq Account /\ UNCHANGED <<lastUsed, nextSeq, passed>>
      BY <1>0, <1>4 DEF Recover, RouterOK, RouterTypeOK
    <2>3. RouterOK'
      BY <1>0, <2>2, CooledOK
    <2>4. RequestsOK'
      BY <1>0, <1>4 DEF Recover, RequestsOK
    <2> QED
      BY <2>1, <2>3, <2>4 DEF RoutingInv
  <1>5. CASE UNCHANGED vars
    BY <1>0, <1>5 DEF vars, RoutingInv, StoreTypeOK, RouterOK, RouterTypeOK, ShareOK, RequestsOK
  <1> QED
    BY <1>1, <1>2, <1>3, <1>4, <1>5 DEF Next, AllDone

\* So it holds of every behaviour.
LEMMA RoutingInvAlways == Spec => []RoutingInv
  BY RoutingInit, RoutingStep, PTL DEF Spec

-----------------------------------------------------------------------------
\* The router's state and every request are typed, and no request is given
\* more than MaxAttempts accounts (order_candidates).
THEOREM RoutingTyped == Spec => []RoutingTypeOK
  <1>1. RoutingInv => RoutingTypeOK
    BY DEF RoutingInv, RoutingTypeOK, StoreTypeOK, RouterOK, RouterTypeOK, RequestsOK,
           RequestOK, Route
  <1> QED
    BY <1>1, RoutingInvAlways, PTL

\* A streamed request that may not be repeated is executed by at most one
\* account (execute_host_request_stream_routed_before).
THEOREM NoStreamReplayed == Spec => []StreamsNotReplayed
  <1>1. RoutingInv => StreamsNotReplayed
    BY DEF RoutingInv, StreamsNotReplayed, RequestsOK, RequestOK, Single
  <1> QED
    BY <1>1, RoutingInvAlways, PTL

\* A request is charged once at most, and only for an accepted answer.
THEOREM NoDoubleCharge == Spec => []ChargedOnce
  <1>1. RoutingInv => ChargedOnce
    BY DEF RoutingInv, ChargedOnce, RequestsOK, RequestOK
  <1> QED
    BY <1>1, RoutingInvAlways, PTL

\* No account is decided for twice while an equal one is free and waits
\* (order_and_reserve_candidates).
THEOREM LoadShared == Spec => []FairShare
  <1>1. RoutingInv => FairShare
    BY DEF RoutingInv, FairShare, RouterOK, ShareOK
  <1> QED
    BY <1>1, RoutingInvAlways, PTL

\* Each request tells its passenger one story, from start to end or error.
THEOREM StoriesWhole == Spec => []OneStory
  <1>1. RoutingInv => OneStory
    <2> SUFFICES ASSUME RoutingInv, NEW r \in Request
                 PROVE  /\ req[r].shown \in {<<>>, <<"start">>, <<"start", "end">>,
                                              <<"start", "error">>, <<"error">>, <<"end">>}
                        /\ req[r].pc = "done" <=> req[r].shown \notin {<<>>, <<"start">>}
                        /\ r \in Buffered => req[r].shown \in {<<>>, <<"end">>, <<"error">>}
      BY DEF OneStory
    <2>1. RequestOK(r, req[r])
      BY DEF RoutingInv, RequestsOK
    <2>2. req[r].pc \in Stage
      BY <2>1 DEF RequestOK, RequestRecord
    <2>3. /\ <<>> # <<"end">> /\ <<>> # <<"error">> /\ <<"start">> # <<"error">>
          /\ <<"start">> # <<"end">> /\ <<"start">> # <<"start", "end">>
          /\ <<"start">> # <<"start", "error">> /\ <<>> # <<"start", "end">>
          /\ <<>> # <<"start", "error">>
      OBVIOUS
    <2>4. CASE req[r].pc = "done"
      BY <2>1, <2>3, <2>4 DEF RequestOK
    <2>5. CASE req[r].pc # "done"
      BY <2>1, <2>2, <2>5 DEF RequestOK, Stage
    <2> QED
      BY <2>4, <2>5
  <1> QED
    BY <1>1, RoutingInvAlways, PTL
=============================================================================
