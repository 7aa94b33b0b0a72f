---------------------------- MODULE WireProofs -----------------------------
(***************************************************************************)
(* Proofs about what connects the two ends of a ride: Bridge, which        *)
(* carries the requests and the answers, and Link, the connection itself.  *)
(* They share nothing; each is proved from an invariant of its own.        *)
(***************************************************************************)
EXTENDS Bridge, Link, FiniteSetTheorems, SequenceTheorems, TLAPS

-----------------------------------------------------------------------------
(***************************************************************************)
(* Bridge, for any requests, buffers and connections. The invariant says   *)
(* where the pieces of an answer can be: at the host, on the way in the    *)
(* order they were sent, or with the tool that asked.                      *)
(***************************************************************************)

EventKind == {"start", "chunk", "end", "error", "unsent"}
Events == [q : Ask, kind : EventKind, n : Nat]
Items(s) == {s[i] : i \in DOMAIN s}

-----------------------------------------------------------------------------
(***************************************************************************)
(* Sequences.                                                              *)
(***************************************************************************)

\* What a sequence holds when something is put behind it or its head is taken.
LEMMA Queues ==
  ASSUME NEW S, NEW s \in Seq(S)
  PROVE  /\ Items(s) \subseteq S
         /\ \A e \in S : /\ Append(s, e) \in Seq(S)
                         /\ Items(Append(s, e)) = Items(s) \cup {e}
                         /\ \A i \in DOMAIN Append(s, e) :
                               \/ i \in DOMAIN s /\ Append(s, e)[i] = s[i]
                               \/ i = Len(s) + 1 /\ Append(s, e)[i] = e
         /\ s # <<>> => /\ Tail(s) \in Seq(S) /\ Head(s) \in Items(s)
                        /\ Items(Tail(s)) \subseteq Items(s)
<1>1. Items(s) \subseteq S
  BY DEF Items
<1>2. ASSUME NEW e \in S
      PROVE  /\ Append(s, e) \in Seq(S) /\ Items(Append(s, e)) = Items(s) \cup {e}
             /\ \A i \in DOMAIN Append(s, e) :
                   \/ i \in DOMAIN s /\ Append(s, e)[i] = s[i]
                   \/ i = Len(s) + 1 /\ Append(s, e)[i] = e
  <2>1. /\ Append(s, e) \in Seq(S)
        /\ \A i \in DOMAIN s : i \in DOMAIN Append(s, e) /\ Append(s, e)[i] = s[i]
        /\ Len(s) + 1 \in DOMAIN Append(s, e) /\ Append(s, e)[Len(s) + 1] = e
        /\ \A i \in DOMAIN Append(s, e) : i \in DOMAIN s \/ i = Len(s) + 1
    OBVIOUS
  <2> QED BY <2>1 DEF Items
<1>3. ASSUME s # <<>>
      PROVE  Tail(s) \in Seq(S) /\ Head(s) \in Items(s) /\ Items(Tail(s)) \subseteq Items(s)
  <2>1. /\ Tail(s) \in Seq(S) /\ Head(s) = s[1] /\ 1 \in DOMAIN s
        /\ \A i \in DOMAIN Tail(s) : i + 1 \in DOMAIN s /\ Tail(s)[i] = s[i + 1]
    BY <1>3
  <2> QED BY <2>1 DEF Items
<1> QED BY <1>1, <1>2, <1>3

\* What is left of a sequence that is cut off.
LEMMA CutOff ==
  ASSUME NEW S, NEW s \in Seq(S), NEW n \in 0 .. Len(s)
  PROVE  /\ SubSeq(s, 1, n) \in Seq(S)
         /\ DOMAIN SubSeq(s, 1, n) \subseteq DOMAIN s
         /\ \A i \in DOMAIN SubSeq(s, 1, n) : SubSeq(s, 1, n)[i] = s[i]
         /\ Items(SubSeq(s, 1, n)) \subseteq Items(s)
<1>1. /\ SubSeq(s, 1, n) \in Seq(S) /\ Len(SubSeq(s, 1, n)) = n
      /\ \A i \in 1 .. n : i \in DOMAIN s /\ SubSeq(s, 1, n)[i] = s[i]
  OBVIOUS
<1>2. DOMAIN SubSeq(s, 1, n) = 1 .. n
  BY <1>1
<1> QED BY <1>1, <1>2 DEF Items

\* One sequence behind another.
LEMMA Joined ==
  ASSUME NEW S, NEW s \in Seq(S), NEW t \in Seq(S)
  PROVE  /\ s \o t \in Seq(S) /\ Len(s \o t) = Len(s) + Len(t)
         /\ \A i \in 1 .. Len(s) : (s \o t)[i] = s[i]
         /\ \A i \in 1 .. Len(t) : (s \o t)[Len(s) + i] = t[i]
<1>1. /\ s \o t \in Seq(S) /\ Len(s \o t) = Len(s) + Len(t)
      /\ \A i \in 1 .. Len(s) + Len(t) : (s \o t)[i] = IF i <= Len(s) THEN s[i] ELSE t[i - Len(s)]
  BY ConcatProperties
<1>2. Len(s) \in Nat /\ Len(t) \in Nat
  OBVIOUS
<1> QED BY <1>1, <1>2

\* The events of a whole answer.
LEMMA Stories ==
  ASSUME NEW q \in Ask, NEW k \in 0 .. WholeStory - 1
  PROVE  LET e == Story(q)[k + 1] IN
         /\ e \in Events /\ e.q = q /\ e.kind # "unsent"
         /\ e.kind = "end" => e.n = Chunks /\ k + 1 = WholeStory
<1> DEFINE begin == <<Event(q, "start", 0)>>
           middle == [n \in 1 .. Chunks |-> Event(q, "chunk", n)]
           last == <<Event(q, "end", Chunks)>>
<1>1. Chunks \in Nat
  BY BridgeAssumption
<1>2. /\ \A n \in Nat : Event(q, "chunk", n) \in Events
      /\ Event(q, "start", 0) \in Events /\ Event(q, "end", Chunks) \in Events
  BY <1>1 DEF Event, Events, EventKind
<1>3. begin \in Seq(Events) /\ Len(begin) = 1 /\ begin[1] = Event(q, "start", 0)
  BY <1>2
<1>4. last \in Seq(Events) /\ Len(last) = 1 /\ last[1] = Event(q, "end", Chunks)
  BY <1>2
<1>5. middle \in Seq(Events) /\ Len(middle) = Chunks
      /\ \A n \in 1 .. Chunks : middle[n] = Event(q, "chunk", n)
  BY <1>1, <1>2
<1> HIDE DEF begin, middle, last
<1>6. /\ begin \o middle \in Seq(Events) /\ Len(begin \o middle) = 1 + Chunks
      /\ (begin \o middle)[1] = begin[1]
      /\ \A i \in 1 .. Chunks : (begin \o middle)[1 + i] = middle[i]
  <2>1. 1 \in 1 .. Len(begin)
    BY <1>3
  <2>2. /\ begin \o middle \in Seq(Events) /\ Len(begin \o middle) = Len(begin) + Len(middle)
        /\ (begin \o middle)[1] = begin[1]
        /\ \A i \in 1 .. Len(middle) : (begin \o middle)[Len(begin) + i] = middle[i]
    <3>1. begin \in Seq(Events) /\ middle \in Seq(Events)
      BY <1>3, <1>5
    <3>2. /\ begin \o middle \in Seq(Events) /\ Len(begin \o middle) = Len(begin) + Len(middle)
          /\ \A i \in 1 .. Len(begin) : (begin \o middle)[i] = begin[i]
          /\ \A i \in 1 .. Len(middle) : (begin \o middle)[Len(begin) + i] = middle[i]
      BY <3>1, Joined
    <3> QED BY <2>1, <3>2
  <2> QED BY <1>3, <1>5, <2>2
<1>7. /\ \A i \in 1 .. 1 + Chunks : ((begin \o middle) \o last)[i] = (begin \o middle)[i]
      /\ ((begin \o middle) \o last)[(1 + Chunks) + 1] = last[1]
  <2>1. 1 \in 1 .. Len(last)
    BY <1>4
  <2> QED BY <1>4, <1>6, <2>1, Joined
<1>8. Story(q) = (begin \o middle) \o last /\ k + 1 \in 1 .. Chunks + 2
  BY <1>1 DEF Story, begin, middle, last, WholeStory
<1>9. CASE k = 0
  <2>1. Story(q)[k + 1] = Event(q, "start", 0)
    <3>1. 1 \in 1 .. 1 + Chunks
      BY <1>1
    <3> QED BY <1>3, <1>6, <1>7, <1>8, <1>9, <3>1
  <2> QED BY <1>2, <2>1 DEF Event
<1>10. CASE k # 0 /\ k + 1 < Chunks + 2
  <2>1. Story(q)[k + 1] = Event(q, "chunk", k) /\ k \in Nat
    <3>1. k \in 1 .. Chunks /\ 1 + k \in 1 .. 1 + Chunks /\ k + 1 = 1 + k
      BY <1>1, <1>10 DEF WholeStory
    <3> QED BY <1>5, <1>6, <1>7, <1>8, <3>1
  <2> QED BY <1>2, <2>1 DEF Event
<1>11. CASE k + 1 = Chunks + 2
  <2>1. Story(q)[k + 1] = Event(q, "end", Chunks)
    <3>1. k + 1 = (1 + Chunks) + 1
      BY <1>1, <1>11
    <3> QED BY <1>4, <1>7, <1>8, <3>1
  <2> QED BY <1>1, <1>2, <1>11, <2>1 DEF Event, WholeStory
<1>12. k = 0 \/ (k # 0 /\ k + 1 < Chunks + 2) \/ k + 1 = Chunks + 2
  BY <1>1 DEF WholeStory
<1> QED BY <1>9, <1>10, <1>11, <1>12

-----------------------------------------------------------------------------
(***************************************************************************)
(* The inductive invariant: types, what the events that are on their way   *)
(* say, and where a request can be.                                        *)
(***************************************************************************)
Shaped ==
  /\ asked \in [Ask -> Final \cup {"new", "waiting", "streaming"}]
  /\ got \in [Ask -> Seq(Nat)]
  /\ pending \subseteq Ask
  /\ queue \in [Ask -> Seq(Events)] /\ \A q \in Ask : Len(queue[q]) <= Room
  /\ waiting \subseteq Ask /\ IsFiniteSet(waiting)
  /\ link \in 0 .. MaxLinks /\ links \in 0 .. MaxLinks /\ (link # 0 => waiting = {})
  /\ up \in [1 .. MaxLinks -> Seq(Ask)]
  /\ down \in [1 .. MaxLinks -> Seq(Events)]
  /\ told \in [Ask -> 0 .. NotTaken]
  /\ over \in [Ask -> 0 .. MaxLinks]
  /\ mishaps \in 0 .. MaxMishaps

OnWire(q) == \E c \in 1 .. MaxLinks : q \in Items(up[c])
Nowhere(q) == ~OnWire(q) /\ q \notin waiting /\ told[q] = NotTaken

\* The end of a story is told once all of it has been.
TrueEvent(e) == e.kind = "end" => e.n = Chunks /\ told[e.q] = WholeStory

EventsAreTrue ==
  /\ \A c \in 1 .. MaxLinks : \A e \in Items(down[c]) : e.kind # "unsent" /\ TrueEvent(e)
  /\ \A q \in Ask : \A e \in Items(queue[q]) :
        e.q = q /\ TrueEvent(e) /\ (e.kind = "unsent" => Nowhere(q))

OnePlace ==
  /\ \A c, d \in 1 .. MaxLinks : \A i \in DOMAIN up[c] : \A j \in DOMAIN up[d] :
        up[c][i] = up[d][j] => c = d /\ i = j
  /\ \A q \in Ask : /\ OnWire(q) => q \notin waiting /\ told[q] = NotTaken
                    /\ q \in waiting => told[q] = NotTaken

Unheard ==
  \A q \in Ask : /\ asked[q] \in {"new", "unsent"} => Nowhere(q)
                 /\ asked[q] = "new" => queue[q] = <<>>

BridgeInv == Shaped /\ EventsAreTrue /\ OnePlace /\ Unheard /\ BodiesAreWhole

\* What has been told stays told, and a request that is not on its way to the
\* host only gets there by being asked.
Calm ==
  \A q \in Ask : /\ told[q] = WholeStory => told'[q] = WholeStory
                 /\ Nowhere(q) /\ asked[q] # "new" => Nowhere(q)'

-----------------------------------------------------------------------------
\* The bounds are numbers.
LEMMA Bounds ==
  /\ Chunks \in Nat /\ Room \in Nat /\ MaxLinks \in Nat /\ MaxMishaps \in Nat /\ Room > 0
  /\ WholeStory = Chunks + 2 /\ NotTaken = WholeStory + 1 /\ WholeStory \in Nat
  BY BridgeAssumption DEF WholeStory, NotTaken

\* A true event that is submitted leaves only true events.
LEMMA SubmittedIsTrue ==
  ASSUME Shaped, EventsAreTrue, Unheard, Calm, NEW e \in Events, Submit(e), TrueEvent(e)',
         e.kind = "unsent" => Nowhere(e.q)'
  PROVE  /\ queue' \in [Ask -> Seq(Events)] /\ \A q \in Ask : Len(queue'[q]) <= Room
         /\ pending' \subseteq Ask
         /\ \A q \in Ask : \A f \in Items(queue'[q]) :
               f.q = q /\ TrueEvent(f)' /\ (f.kind = "unsent" => Nowhere(q)')
         /\ \A q \in Ask : asked[q] = "new" => queue'[q] = <<>>
<1>1. /\ queue \in [Ask -> Seq(Events)] /\ \A q \in Ask : Len(queue[q]) <= Room
      /\ pending \subseteq Ask /\ e.q \in Ask
  BY DEF Shaped, Events
<1>2. ASSUME NEW q \in Ask, NEW f \in Items(queue[q])
      PROVE  f.q = q /\ TrueEvent(f)' /\ (f.kind = "unsent" => Nowhere(q)')
  <2>1. f.q = q /\ TrueEvent(f) /\ (f.kind = "unsent" => Nowhere(q))
    BY DEF EventsAreTrue
  <2>2. asked[q] # "new"
    BY DEF Unheard, Items
  <2> QED BY <2>1, <2>2 DEF Calm, TrueEvent
<1>3. CASE UNCHANGED queue
  <2>1. pending' \subseteq Ask
    BY <1>1 DEF Submit
  <2> QED BY <1>1, <1>2, <1>3, <2>1 DEF Unheard
<1>4. CASE /\ Listens(e.q) /\ Len(queue[e.q]) < Room
           /\ queue' = [queue EXCEPT ![e.q] = Append(@, e)]
  <2>1. pending' \subseteq Ask
    BY <1>1 DEF Submit
  <2>2. \A q \in Ask : queue'[q] = IF q = e.q THEN Append(queue[q], e) ELSE queue[q]
    BY <1>1, <1>4
  <2>3. /\ Append(queue[e.q], e) \in Seq(Events)
        /\ Items(Append(queue[e.q], e)) = Items(queue[e.q]) \cup {e}
        /\ Len(Append(queue[e.q], e)) = Len(queue[e.q]) + 1
    BY <1>1, Queues
  <2>4. queue' \in [Ask -> Seq(Events)]
    BY <1>1, <1>4, <2>3
  <2>5. \A q \in Ask : Len(queue'[q]) <= Room
    BY <1>1, <1>4, <2>2, <2>3, Bounds
  <2>6. \A q \in Ask : \A f \in Items(queue'[q]) :
           f.q = q /\ TrueEvent(f)' /\ (f.kind = "unsent" => Nowhere(q)')
    BY <1>2, <2>2, <2>3
  <2>7. \A q \in Ask : asked[q] = "new" => queue'[q] = <<>>
    BY <1>4, <2>2 DEF Unheard, Listens
  <2> QED BY <2>1, <2>4, <2>5, <2>6, <2>7
<1> QED BY <1>3, <1>4 DEF Submit

\* When the way to the host does not change, and what is told of no whole story,
\* everything stays where it is.
LEMMA PlacesStay ==
  ASSUME Shaped, OnePlace, UNCHANGED <<up, told>>, waiting' \subseteq waiting
  PROVE  OnePlace' /\ Calm
  BY DEF OnePlace, OnWire, Calm, Nowhere

\* So it is when connections only lose what is on them.
LEMMA PlacesShrink ==
  ASSUME Shaped, OnePlace, UNCHANGED told, waiting' \subseteq waiting,
         \A c \in 1 .. MaxLinks :
            /\ DOMAIN up'[c] \subseteq DOMAIN up[c]
            /\ \A i \in DOMAIN up'[c] : up'[c][i] = up[c][i]
  PROVE  OnePlace' /\ Calm
<1>1. \A c \in 1 .. MaxLinks : Items(up'[c]) \subseteq Items(up[c])
  BY DEF Items
<1>2. \A q \in Ask : OnWire(q)' => OnWire(q)
  BY <1>1 DEF OnWire
<1>3. \A c, d \in 1 .. MaxLinks : \A i \in DOMAIN up'[c] : \A j \in DOMAIN up'[d] :
         up'[c][i] = up'[d][j] => c = d /\ i = j
  BY DEF OnePlace
<1>4. \A q \in Ask : /\ OnWire(q)' => q \notin waiting' /\ told'[q] = NotTaken
                     /\ q \in waiting' => told'[q] = NotTaken
  BY <1>2 DEF OnePlace
<1>5. Calm
  BY <1>2 DEF Calm, Nowhere
<1> QED BY <1>3, <1>4, <1>5 DEF OnePlace

-----------------------------------------------------------------------------
(***************************************************************************)
(* One lemma for each action.                                              *)
(***************************************************************************)

\* What remains to be shown of an action that leaves the queues alone, or only
\* takes from one.
LEMMA EventsStay ==
  ASSUME Shaped, EventsAreTrue, Unheard, Calm,
         \A q \in Ask : asked[q] = "new" => asked'[q] = "new" \/ queue'[q] = <<>>,
         \A q \in Ask : Items(queue'[q]) \subseteq Items(queue[q]),
         \A c \in 1 .. MaxLinks : \A e \in Items(down'[c]) :
            e \in Items(down[c]) \/ (e.kind # "unsent" /\ TrueEvent(e)')
  PROVE  EventsAreTrue'
<1>1. ASSUME NEW q \in Ask, NEW e \in Items(queue'[q])
      PROVE  e.q = q /\ TrueEvent(e)' /\ (e.kind = "unsent" => Nowhere(q)')
  <2>1. e.q = q /\ TrueEvent(e) /\ (e.kind = "unsent" => Nowhere(q)) /\ e \in Items(queue[q])
    BY DEF EventsAreTrue
  <2>2. asked[q] # "new"
    BY <2>1 DEF Unheard, Items
  <2> QED BY <2>1, <2>2 DEF Calm, TrueEvent
<1>2. ASSUME NEW c \in 1 .. MaxLinks, NEW e \in Items(down'[c])
      PROVE  e.kind # "unsent" /\ TrueEvent(e)'
  <2>1. CASE e.kind # "unsent" /\ TrueEvent(e)'
    BY <2>1
  <2>2. CASE e \in Items(down[c])
    <3>1. e \in Items(down[c]) /\ down[c] \in Seq(Events)
      BY <2>2 DEF Shaped
    <3>2. e \in Events
      BY <3>1, Queues
    <3>3. e.kind # "unsent" /\ TrueEvent(e) /\ e.q \in Ask
      BY <3>1, <3>2 DEF EventsAreTrue, Events
    <3> QED BY <3>3 DEF Calm, TrueEvent
  <2> QED BY <2>1, <2>2
<1> QED BY <1>1, <1>2 DEF EventsAreTrue

\* Nothing is told of a whole answer that the tool has got already.
LEMMA BodiesStay ==
  ASSUME Calm, BodiesAreWhole, UNCHANGED got,
         \A q \in Ask : asked'[q] = "whole" => asked[q] = "whole"
  PROVE  BodiesAreWhole'
  BY DEF Calm, BodiesAreWhole

\* A tool asks, and its request is sent or is not.
LEMMA AskForKeeps ==
  ASSUME BridgeInv, NEW q \in Ask, AskFor(q)
  PROVE  BridgeInv'
<1> USE DEF BridgeInv
<1>1. /\ asked[q] = "new" /\ asked' = [asked EXCEPT ![q] = "waiting"]
      /\ UNCHANGED <<got, link, links, down, told, over, riding>>
      /\ Nowhere(q) /\ queue[q] = <<>>
  BY DEF AskFor, Unheard
<1>2. /\ asked' \in [Ask -> Final \cup {"new", "waiting", "streaming"}]
      /\ \A r \in Ask : asked'[r] = IF r = q THEN "waiting" ELSE asked[r]
  BY <1>1 DEF Shaped
<1>3. CASE /\ riding /\ link # 0
           /\ up' = [up EXCEPT ![link] = Append(@, q)]
           /\ pending' = pending \cup {q}
           /\ UNCHANGED <<queue, waiting, mishaps>>
  <2>1. link \in 1 .. MaxLinks /\ up[link] \in Seq(Ask) /\ waiting = {}
    BY <1>3, Bounds DEF Shaped
  <2>2. /\ Append(up[link], q) \in Seq(Ask)
        /\ Items(Append(up[link], q)) = Items(up[link]) \cup {q}
        /\ \A i \in DOMAIN Append(up[link], q) :
              \/ i \in DOMAIN up[link] /\ Append(up[link], q)[i] = up[link][i]
              \/ i = Len(up[link]) + 1 /\ Append(up[link], q)[i] = q
    BY <2>1, Queues
  <2>3. /\ up' \in [1 .. MaxLinks -> Seq(Ask)]
        /\ \A c \in 1 .. MaxLinks : up'[c] = IF c = link THEN Append(up[c], q) ELSE up[c]
    BY <1>3, <2>1, <2>2 DEF Shaped
  <2>4. Shaped'
    BY <1>1, <1>2, <1>3, <2>3 DEF Shaped
  <2>5. \A r \in Ask : OnWire(r)' => OnWire(r) \/ r = q
    <3>1. \A c \in 1 .. MaxLinks : Items(up'[c]) \subseteq Items(up[c]) \cup {q}
      BY <2>2, <2>3
    <3> QED BY <3>1 DEF OnWire
  <2>6. Calm
    BY <1>1, <1>3, <2>5 DEF Calm, Nowhere
  <2>7. OnePlace'
    <3>1. \A c \in 1 .. MaxLinks : \A i \in DOMAIN up'[c] :
             (i \in DOMAIN up[c] /\ up'[c][i] = up[c][i])
             \/ (c = link /\ i = Len(up[link]) + 1 /\ up'[c][i] = q)
      BY <2>1, <2>2, <2>3
    <3>2. \A c \in 1 .. MaxLinks : \A i \in DOMAIN up[c] : up[c][i] # q
      BY <1>1 DEF Nowhere, OnWire, Items
    <3>3. \A c, d \in 1 .. MaxLinks : \A i \in DOMAIN up'[c] : \A j \in DOMAIN up'[d] :
             up'[c][i] = up'[d][j] => c = d /\ i = j
      BY <3>1, <3>2 DEF OnePlace
    <3>4. \A r \in Ask : /\ OnWire(r)' => r \notin waiting' /\ told'[r] = NotTaken
                         /\ r \in waiting' => told'[r] = NotTaken
      BY <1>1, <1>3, <2>1, <2>5 DEF OnePlace, Nowhere
    <3> QED BY <3>3, <3>4 DEF OnePlace
  <2>8. EventsAreTrue'
    BY <1>1, <1>3, <2>6, EventsStay
  <2>9. Unheard'
    <3>1. ASSUME NEW r \in Ask, asked'[r] \in {"new", "unsent"}
          PROVE  Nowhere(r)' /\ (asked'[r] = "new" => queue'[r] = <<>>)
      <4>1. r # q /\ asked'[r] = asked[r]
        BY <1>2, <3>1
      <4>2. Nowhere(r) /\ (asked[r] = "new" => queue[r] = <<>>)
        BY <3>1, <4>1 DEF Unheard
      <4>3. ~OnWire(r)'
        BY <2>5, <4>1, <4>2 DEF Nowhere
      <4> QED BY <1>1, <1>3, <4>1, <4>2, <4>3 DEF Nowhere
    <3> QED BY <3>1 DEF Unheard
  <2>10. BodiesAreWhole'
    BY <1>1, <1>2, <2>6, BodiesStay
  <2> QED BY <2>4, <2>7, <2>8, <2>9, <2>10
<1>4. CASE /\ riding /\ link = 0
           /\ waiting' = waiting \cup {q}
           /\ pending' = pending \cup {q}
           /\ UNCHANGED <<queue, up, mishaps>>
  <2>1. IsFiniteSet(waiting')
    BY <1>4, FS_AddElement DEF Shaped
  <2>2. Shaped'
    BY <1>1, <1>2, <1>4, <2>1 DEF Shaped
  <2>3. Calm
    BY <1>1, <1>4 DEF Calm, Nowhere, OnWire
  <2>4. OnePlace'
    BY <1>1, <1>4 DEF OnePlace, OnWire, Nowhere
  <2>5. EventsAreTrue'
    BY <1>1, <1>4, <2>3, EventsStay
  <2>6. Unheard'
    <3>1. ASSUME NEW r \in Ask, asked'[r] \in {"new", "unsent"}
          PROVE  Nowhere(r)' /\ (asked'[r] = "new" => queue'[r] = <<>>)
      <4>1. r # q /\ asked'[r] = asked[r]
        BY <1>2, <3>1
      <4>2. Nowhere(r) /\ (asked[r] = "new" => queue[r] = <<>>)
        BY <3>1, <4>1 DEF Unheard
      <4>3. ~OnWire(r)'
        BY <1>4, <4>2 DEF Nowhere, OnWire
      <4> QED BY <1>1, <1>4, <4>1, <4>2, <4>3 DEF Nowhere
    <3> QED BY <3>1 DEF Unheard
  <2>7. BodiesAreWhole'
    BY <1>1, <1>2, <2>3, BodiesStay
  <2> QED BY <2>2, <2>4, <2>5, <2>6, <2>7
<1>5. CASE /\ \/ ~riding /\ UNCHANGED mishaps
              \/ riding /\ link # 0 /\ mishaps < MaxMishaps /\ mishaps' = mishaps + 1
           /\ queue' = [queue EXCEPT ![q] = <<Event(q, "unsent", 0)>>]
           /\ UNCHANGED <<pending, waiting, up>>
  <2> DEFINE e == Event(q, "unsent", 0)
  <2>1. e \in Events /\ e.q = q /\ e.kind = "unsent"
    BY DEF Event, Events, EventKind
  <2> HIDE DEF e
  <2>2. <<e>> \in Seq(Events) /\ Len(<<e>>) = 1 /\ Items(<<e>>) = {e}
    BY <2>1 DEF Items
  <2>3. \A r \in Ask : queue'[r] = IF r = q THEN <<e>> ELSE queue[r]
    BY <1>5 DEF Shaped, e
  <2>4. queue' \in [Ask -> Seq(Events)] /\ \A r \in Ask : Len(queue'[r]) <= Room
    <3>1. queue' \in [Ask -> Seq(Events)]
      BY <1>5, <2>2 DEF Shaped, e
    <3>2. 1 <= Room
      BY Bounds
    <3>3. \A r \in Ask : Len(queue[r]) <= Room
      BY DEF Shaped
    <3>4. ASSUME NEW r \in Ask PROVE Len(queue'[r]) <= Room
      BY <2>2, <2>3, <3>2, <3>3
    <3> QED BY <3>1, <3>4
  <2>5. mishaps' \in 0 .. MaxMishaps
    BY <1>5, Bounds DEF Shaped
  <2>6. Shaped'
    BY <1>1, <1>2, <1>5, <2>4, <2>5 DEF Shaped
  <2>7. OnePlace' /\ Calm
    BY <1>1, <1>5, PlacesStay
  <2>8. Nowhere(q)'
    BY <1>1, <1>5 DEF Nowhere, OnWire
  <2>9. EventsAreTrue'
    <3>1. ASSUME NEW r \in Ask, NEW f \in Items(queue'[r])
          PROVE  f.q = r /\ TrueEvent(f)' /\ (f.kind = "unsent" => Nowhere(r)')
      <4>1. CASE r = q
        BY <2>1, <2>2, <2>3, <2>8, <4>1 DEF TrueEvent
      <4>2. CASE r # q
        <5>1. f.q = r /\ TrueEvent(f) /\ (f.kind = "unsent" => Nowhere(r))
          BY <2>3, <4>2 DEF EventsAreTrue
        <5> QED BY <1>1, <1>5, <5>1 DEF TrueEvent, Nowhere, OnWire
      <4> QED BY <4>1, <4>2
    <3> QED BY <1>1, <3>1 DEF EventsAreTrue, TrueEvent
  <2>10. Unheard'
    BY <1>1, <1>2, <1>5, <2>3 DEF Unheard, Nowhere, OnWire
  <2>11. BodiesAreWhole'
    BY <1>1, <1>2, <2>7, BodiesStay
  <2> QED BY <2>6, <2>7, <2>9, <2>10, <2>11
<1> QED BY <1>3, <1>4, <1>5 DEF AskFor

\* The events of a request are true of it: what holds once the queues took one.
LEMMA SubmissionKeeps ==
  ASSUME BridgeInv, NEW e \in Events, Submit(e), TrueEvent(e)', e.kind = "unsent" => Nowhere(e.q)',
         UNCHANGED <<asked, got, up, told, link, links, over, mishaps>>,
         waiting' \subseteq waiting,
         down' \in [1 .. MaxLinks -> Seq(Events)],
         \A c \in 1 .. MaxLinks : Items(down'[c]) \subseteq Items(down[c])
  PROVE  BridgeInv'
<1> USE DEF BridgeInv
<1>1. OnePlace' /\ Calm
  BY PlacesStay
<1>2. /\ queue' \in [Ask -> Seq(Events)] /\ \A q \in Ask : Len(queue'[q]) <= Room
      /\ pending' \subseteq Ask
      /\ \A q \in Ask : \A f \in Items(queue'[q]) :
            f.q = q /\ TrueEvent(f)' /\ (f.kind = "unsent" => Nowhere(q)')
      /\ \A q \in Ask : asked[q] = "new" => queue'[q] = <<>>
  BY <1>1, SubmittedIsTrue
<1>3. IsFiniteSet(waiting')
  BY FS_Subset DEF Shaped
<1>4. Shaped'
  BY <1>2, <1>3 DEF Shaped
<1>5. EventsAreTrue'
  BY <1>2 DEF EventsAreTrue, TrueEvent
<1>6. Unheard'
  BY <1>2 DEF Unheard, Nowhere, OnWire
<1>7. BodiesAreWhole'
  BY <1>1, BodiesStay
<1> QED BY <1>1, <1>4, <1>5, <1>6, <1>7

\* The page does not answer in time.
LEMMA BridgeTimesOutKeeps ==
  ASSUME BridgeInv, NEW q \in Ask, BridgeTimesOut(q)
  PROVE  BridgeInv'
<1> DEFINE e == Event(q, "unsent", 0)
<1>1. e \in Events /\ e.q = q /\ e.kind = "unsent"
  BY DEF Event, Events, EventKind
<1>2. /\ q \in waiting /\ waiting' = waiting \ {q} /\ Submit(e)
      /\ UNCHANGED <<asked, got, link, links, up, down, told, over, riding, mishaps>>
  BY DEF BridgeTimesOut, FailWaiting
<1>3. Nowhere(q)'
  BY <1>2 DEF BridgeInv, OnePlace, Nowhere, OnWire
<1>4. down' \in [1 .. MaxLinks -> Seq(Events)]
  BY <1>2 DEF BridgeInv, Shaped
<1> HIDE DEF e
<1>5. TrueEvent(e)'
  BY <1>1 DEF TrueEvent
<1> QED BY <1>1, <1>2, <1>3, <1>4, <1>5, SubmissionKeeps

\* A frame of the host arrives.
LEMMA DeliverKeeps ==
  ASSUME BridgeInv, NEW c \in 1 .. MaxLinks, Deliver(c)
  PROVE  BridgeInv'
<1> DEFINE e == Head(down[c])
<1>1. /\ down[c] # <<>> /\ Submit(e) /\ down' = [down EXCEPT ![c] = Tail(@)]
      /\ UNCHANGED <<asked, got, waiting, link, links, up, told, over, riding, mishaps>>
  BY DEF Deliver
<1>2. down[c] \in Seq(Events)
  BY DEF BridgeInv, Shaped
<1>3. /\ Tail(down[c]) \in Seq(Events) /\ e \in Items(down[c]) /\ e \in Events
      /\ Items(Tail(down[c])) \subseteq Items(down[c])
  BY <1>1, <1>2, Queues
<1>4. /\ down' \in [1 .. MaxLinks -> Seq(Events)]
      /\ \A d \in 1 .. MaxLinks : down'[d] = IF d = c THEN Tail(down[d]) ELSE down[d]
  BY <1>1, <1>3 DEF BridgeInv, Shaped
<1>5. \A d \in 1 .. MaxLinks : Items(down'[d]) \subseteq Items(down[d])
  BY <1>3, <1>4
<1>6. e.kind # "unsent" /\ TrueEvent(e)
  BY <1>3 DEF BridgeInv, EventsAreTrue
<1> SUFFICES ASSUME NEW f \in Events, f = e PROVE BridgeInv'
  BY <1>3
<1>7. TrueEvent(f)' /\ f.kind # "unsent" /\ Submit(f)
  BY <1>1, <1>6 DEF TrueEvent
<1> QED BY <1>1, <1>4, <1>5, <1>7, SubmissionKeeps

\* A connection opens, and the channels are new.
LEMMA LinkOpensKeeps ==
  ASSUME BridgeInv, LinkOpens
  PROVE  BridgeInv'
<1> USE DEF BridgeInv
<1>1. /\ link = 0 /\ links < MaxLinks /\ link' = links + 1 /\ links' = links + 1
      /\ waiting' = {}
      /\ UNCHANGED <<asked, got, pending, queue, down, told, over, riding, mishaps>>
  BY DEF LinkOpens
<1>2. PICK order \in SetToSeqs(waiting) : up' = [up EXCEPT ![links + 1] = order]
  BY DEF LinkOpens
<1>3. links + 1 \in 1 .. MaxLinks
  BY <1>1, Bounds DEF Shaped
<1>4. Cardinality(waiting) \in Nat
  BY FS_CardinalityType DEF Shaped
<1>5. /\ order \in Seq(waiting)
      /\ \A i, j \in DOMAIN order : order[i] = order[j] => i = j
  BY <1>2, <1>4 DEF SetToSeqs
<1>6. order \in Seq(Ask) /\ Items(order) \subseteq waiting
  BY <1>5, Queues DEF Shaped
<1>7. /\ up' \in [1 .. MaxLinks -> Seq(Ask)]
      /\ \A c \in 1 .. MaxLinks : up'[c] = IF c = links + 1 THEN order ELSE up[c]
  BY <1>2, <1>3, <1>6 DEF Shaped
<1>8. Shaped'
  <2>1. IsFiniteSet(waiting')
    BY <1>1, FS_EmptySet
  <2>2. link' \in 0 .. MaxLinks /\ links' \in 0 .. MaxLinks
    BY <1>1, <1>3
  <2> QED BY <1>1, <1>7, <2>1, <2>2 DEF Shaped
<1>9. \A q \in Ask : OnWire(q)' => OnWire(q) \/ q \in waiting
  BY <1>6, <1>7 DEF OnWire
<1>10. Calm
  BY <1>1, <1>9 DEF Calm, Nowhere
<1>11. OnePlace'
  <2>1. ASSUME NEW c \in 1 .. MaxLinks, NEW d \in 1 .. MaxLinks,
               NEW i \in DOMAIN up'[c], NEW j \in DOMAIN up'[d], up'[c][i] = up'[d][j]
        PROVE  c = d /\ i = j
    <3>1. CASE c = links + 1 /\ d = links + 1
      BY <1>5, <1>7, <2>1, <3>1
    <3>2. CASE c # links + 1 /\ d # links + 1
      BY <1>7, <2>1, <3>2 DEF OnePlace
    <3>3. \A b \in 1 .. MaxLinks : \A n \in DOMAIN order : \A m \in DOMAIN up[b] : order[n] # up[b][m]
      <4>1. \A n \in DOMAIN order : order[n] \in waiting /\ order[n] \in Ask
        BY <1>6 DEF Items, Shaped
      <4> QED BY <4>1 DEF OnePlace, OnWire, Items
    <3>4. CASE (c = links + 1) # (d = links + 1)
      BY <1>7, <2>1, <3>3, <3>4
    <3> QED BY <3>1, <3>2, <3>4
  <2>2. \A q \in Ask : /\ OnWire(q)' => q \notin waiting' /\ told'[q] = NotTaken
                       /\ q \in waiting' => told'[q] = NotTaken
    BY <1>1, <1>9 DEF OnePlace
  <2> QED BY <2>1, <2>2 DEF OnePlace
<1>12. EventsAreTrue'
  BY <1>1, <1>10, EventsStay
<1>13. Unheard'
  BY <1>1, <1>9 DEF Unheard, Nowhere
<1>14. BodiesAreWhole'
  BY <1>1, <1>10, BodiesStay
<1> QED BY <1>8, <1>11, <1>12, <1>13, <1>14

\* What is left of a connection that is cut.
LEMMA CutLeaves ==
  ASSUME Shaped, NEW c \in 1 .. MaxLinks, Cut(c)
  PROVE  /\ up' \in [1 .. MaxLinks -> Seq(Ask)]
         /\ down' \in [1 .. MaxLinks -> Seq(Events)]
         /\ over' \in [Ask -> 0 .. MaxLinks]
         /\ \A d \in 1 .. MaxLinks :
               /\ DOMAIN up'[d] \subseteq DOMAIN up[d]
               /\ \A i \in DOMAIN up'[d] : up'[d][i] = up[d][i]
               /\ Items(down'[d]) \subseteq Items(down[d])
<1>1. up[c] \in Seq(Ask) /\ down[c] \in Seq(Events)
  BY DEF Shaped
<1>2. PICK n \in 0 .. Len(up[c]) : up' = [up EXCEPT ![c] = SubSeq(@, 1, n)]
  BY DEF Cut
<1>3. PICK m \in 0 .. Len(down[c]) : down' = [down EXCEPT ![c] = SubSeq(@, 1, m)]
  BY DEF Cut
<1>4. /\ SubSeq(up[c], 1, n) \in Seq(Ask)
      /\ DOMAIN SubSeq(up[c], 1, n) \subseteq DOMAIN up[c]
      /\ \A i \in DOMAIN SubSeq(up[c], 1, n) : SubSeq(up[c], 1, n)[i] = up[c][i]
  BY <1>1, CutOff
<1>5. /\ SubSeq(down[c], 1, m) \in Seq(Events)
      /\ Items(SubSeq(down[c], 1, m)) \subseteq Items(down[c])
  BY <1>1, CutOff
<1>6. /\ up' \in [1 .. MaxLinks -> Seq(Ask)]
      /\ \A d \in 1 .. MaxLinks : up'[d] = IF d = c THEN SubSeq(up[c], 1, n) ELSE up[d]
  BY <1>2, <1>4 DEF Shaped
<1>7. /\ down' \in [1 .. MaxLinks -> Seq(Events)]
      /\ \A d \in 1 .. MaxLinks : down'[d] = IF d = c THEN SubSeq(down[c], 1, m) ELSE down[d]
  BY <1>3, <1>5 DEF Shaped
<1>8. over' \in [Ask -> 0 .. MaxLinks]
  BY Bounds DEF Cut, Shaped
<1>9. ASSUME NEW d \in 1 .. MaxLinks
      PROVE  /\ DOMAIN up'[d] \subseteq DOMAIN up[d]
             /\ \A i \in DOMAIN up'[d] : up'[d][i] = up[d][i]
             /\ Items(down'[d]) \subseteq Items(down[d])
  <2>1. CASE d = c
    <3>1. up'[d] = SubSeq(up[c], 1, n) /\ down'[d] = SubSeq(down[c], 1, m)
      BY <1>6, <1>7, <2>1
    <3> QED BY <1>4, <1>5, <2>1, <3>1
  <2>2. CASE d # c
    <3>1. up'[d] = up[d] /\ down'[d] = down[d]
      BY <1>6, <1>7, <2>2
    <3> QED BY <3>1
  <2> QED BY <2>1, <2>2
<1> QED BY <1>6, <1>7, <1>8, <1>9

\* A connection that is lost, or closed with the ride, takes what is on it along.
LEMMA LossKeeps ==
  ASSUME BridgeInv, LinkLost \/ StopRide
  PROVE  BridgeInv'
<1> USE DEF BridgeInv
<1>1. /\ UNCHANGED <<asked, got, pending, queue, links, told>>
      /\ link' = 0 /\ mishaps < MaxMishaps /\ mishaps' = mishaps + 1
      /\ waiting' = waiting \/ waiting' = {}
      /\ (link # 0 /\ Cut(link)) \/ UNCHANGED <<up, down, over>>
  BY DEF LinkLost, StopRide
<1>2. /\ up' \in [1 .. MaxLinks -> Seq(Ask)]
      /\ down' \in [1 .. MaxLinks -> Seq(Events)]
      /\ over' \in [Ask -> 0 .. MaxLinks]
      /\ \A d \in 1 .. MaxLinks :
            /\ DOMAIN up'[d] \subseteq DOMAIN up[d]
            /\ \A i \in DOMAIN up'[d] : up'[d][i] = up[d][i]
            /\ Items(down'[d]) \subseteq Items(down[d])
  <2>1. CASE link # 0 /\ Cut(link)
    <3>1. link \in 1 .. MaxLinks
      BY <2>1, Bounds DEF Shaped
    <3> QED BY <2>1, <3>1, CutLeaves
  <2>2. CASE UNCHANGED <<up, down, over>>
    BY <2>2 DEF Shaped
  <2> QED BY <1>1, <2>1, <2>2
<1>3. waiting' \subseteq waiting /\ IsFiniteSet(waiting')
  BY <1>1, FS_EmptySet DEF Shaped
<1>4. mishaps' \in 0 .. MaxMishaps /\ link' \in 0 .. MaxLinks
  BY <1>1, Bounds DEF Shaped
<1>5. Shaped'
  BY <1>1, <1>2, <1>3, <1>4 DEF Shaped
<1>6. OnePlace' /\ Calm
  <2>1. UNCHANGED told
    BY <1>1
  <2> QED BY <1>2, <1>3, <2>1, PlacesShrink
<1>7. EventsAreTrue'
  BY <1>1, <1>2, <1>6, EventsStay
<1>8. Unheard'
  <2>1. \A c \in 1 .. MaxLinks : Items(up'[c]) \subseteq Items(up[c])
    BY <1>2 DEF Items
  <2>2. \A q \in Ask : OnWire(q)' => OnWire(q)
    BY <2>1 DEF OnWire
  <2> QED BY <1>1, <1>3, <2>2 DEF Unheard, Nowhere
<1>9. BodiesAreWhole'
  BY <1>1, <1>6, BodiesStay
<1> QED BY <1>5, <1>6, <1>7, <1>8, <1>9

\* A request that arrives at the host is nowhere else.
LEMMA HostTakesKeeps ==
  ASSUME BridgeInv, NEW c \in 1 .. MaxLinks, HostTakes(c)
  PROVE  BridgeInv'
<1> USE DEF BridgeInv
<1> DEFINE q == Head(up[c])
<1>1. /\ up[c] # <<>> /\ up' = [up EXCEPT ![c] = Tail(@)]
      /\ told' = [told EXCEPT ![q] = 0]
      /\ over' = [over EXCEPT ![q] = IF c = link THEN c ELSE 0]
      /\ UNCHANGED <<asked, got, pending, queue, waiting, link, links, down, riding, mishaps>>
  BY DEF HostTakes
<1>2. up[c] \in Seq(Ask)
  BY DEF Shaped
<1>3. /\ Tail(up[c]) \in Seq(Ask) /\ q = up[c][1] /\ q \in Ask /\ 1 \in DOMAIN up[c]
      /\ \A i \in DOMAIN Tail(up[c]) :
            i \in Nat /\ i > 0 /\ i + 1 \in DOMAIN up[c] /\ Tail(up[c])[i] = up[c][i + 1]
  BY <1>1, <1>2
<1> HIDE DEF q
<1>4. OnWire(q) /\ q \notin waiting /\ told[q] = NotTaken
  BY <1>3 DEF OnePlace, OnWire, Items
<1>5. /\ up' \in [1 .. MaxLinks -> Seq(Ask)]
      /\ \A d \in 1 .. MaxLinks : up'[d] = IF d = c THEN Tail(up[c]) ELSE up[d]
  BY <1>1, <1>3 DEF Shaped
<1>6. /\ told' \in [Ask -> 0 .. NotTaken] /\ over' \in [Ask -> 0 .. MaxLinks]
      /\ \A r \in Ask : told'[r] = IF r = q THEN 0 ELSE told[r]
  <2>1. 0 \in 0 .. NotTaken /\ told \in [Ask -> 0 .. NotTaken]
    BY Bounds DEF Shaped
  <2>2. /\ told' \in [Ask -> 0 .. NotTaken]
        /\ \A r \in Ask : told'[r] = IF r = q THEN 0 ELSE told[r]
    BY <1>1, <1>3, <2>1
  <2>3. over' \in [Ask -> 0 .. MaxLinks]
    BY <1>1, <1>3, Bounds DEF Shaped
  <2> QED BY <2>2, <2>3
<1>7. Shaped'
  BY <1>1, <1>5, <1>6 DEF Shaped
<1>8. \A d \in 1 .. MaxLinks : \A i \in DOMAIN up'[d] :
         \E n \in DOMAIN up[d] : /\ up'[d][i] = up[d][n]
                                 /\ n = IF d = c THEN i + 1 ELSE i
  BY <1>3, <1>5
<1>9. \A d \in 1 .. MaxLinks : \A i \in DOMAIN up'[d] : up'[d][i] # q /\ i \in Nat
  <2>1. SUFFICES ASSUME NEW d \in 1 .. MaxLinks, NEW i \in DOMAIN up'[d]
                 PROVE  up'[d][i] # q /\ i \in Nat
    OBVIOUS
  <2>2. PICK n \in DOMAIN up[d] : up'[d][i] = up[d][n] /\ n = IF d = c THEN i + 1 ELSE i
    BY <1>8
  <2>3. up'[d] \in Seq(Ask)
    BY <1>5
  <2>4. i \in Nat /\ i > 0
    BY <2>3
  <2>5. up[d][n] = up[c][1] => d = c /\ n = 1
    BY <1>3 DEF OnePlace
  <2> QED BY <1>3, <2>2, <2>4, <2>5
<1>10. \A r \in Ask : OnWire(r)' => OnWire(r) /\ r # q
  BY <1>8, <1>9 DEF OnWire, Items
<1>11. Calm
  <2>1. WholeStory # NotTaken
    BY Bounds
  <2> QED BY <1>1, <1>4, <1>6, <1>10, <2>1 DEF Calm, Nowhere
<1>12. OnePlace'
  <2>1. ASSUME NEW a \in 1 .. MaxLinks, NEW b \in 1 .. MaxLinks,
               NEW i \in DOMAIN up'[a], NEW j \in DOMAIN up'[b], up'[a][i] = up'[b][j]
        PROVE  a = b /\ i = j
    <3>1. PICK n \in DOMAIN up[a] : up'[a][i] = up[a][n] /\ n = IF a = c THEN i + 1 ELSE i
      BY <1>8
    <3>2. PICK m \in DOMAIN up[b] : up'[b][j] = up[b][m] /\ m = IF b = c THEN j + 1 ELSE j
      BY <1>8
    <3>3. a = b /\ n = m
      <4>1. up[a][n] = up[b][m]
        BY <2>1, <3>1, <3>2
      <4>2. \A d, e \in 1 .. MaxLinks : \A k \in DOMAIN up[d] : \A l \in DOMAIN up[e] :
               up[d][k] = up[e][l] => d = e /\ k = l
        BY DEF OnePlace
      <4> QED BY <4>1, <4>2, Zenon
    <3>4. i \in Nat /\ j \in Nat
      BY <1>9
    <3>5. CASE a = c
      BY <3>1, <3>2, <3>3, <3>4, <3>5
    <3>6. CASE a # c
      BY <3>1, <3>2, <3>3, <3>6
    <3> QED BY <3>5, <3>6
  <2>2. \A r \in Ask : /\ OnWire(r)' => r \notin waiting' /\ told'[r] = NotTaken
                       /\ r \in waiting' => told'[r] = NotTaken
    BY <1>1, <1>4, <1>6, <1>10 DEF OnePlace
  <2> QED BY <2>1, <2>2 DEF OnePlace
<1>13. EventsAreTrue'
  BY <1>1, <1>11, EventsStay
<1>14. Unheard'
  BY <1>1, <1>4, <1>6, <1>10 DEF Unheard, Nowhere
<1>15. BodiesAreWhole'
  BY <1>1, <1>11, BodiesStay
<1> QED BY <1>7, <1>12, <1>13, <1>14, <1>15

\* The host's events are those of a whole answer, its end the last of them, or
\* an error.
LEMMA HostEmitsKeeps ==
  ASSUME BridgeInv, NEW q \in Ask, HostEmits(q)
  PROVE  BridgeInv'
<1> USE DEF BridgeInv
<1>1. /\ told[q] < WholeStory
      /\ UNCHANGED <<asked, got, pending, queue, waiting, link, links, up, over, riding>>
  BY DEF HostEmits
<1>2. told[q] \in 0 .. WholeStory - 1 /\ told[q] # NotTaken
  BY <1>1, Bounds DEF Shaped
<1>3. PICK e \in Events, k \in 1 .. WholeStory :
         /\ Send(q, e) /\ told' = [told EXCEPT ![q] = k]
         /\ e.q = q /\ e.kind # "unsent"
         /\ e.kind = "end" => e.n = Chunks /\ k = WholeStory
  <2>1. CASE Send(q, Story(q)[told[q] + 1]) /\ told' = [told EXCEPT ![q] = @ + 1]
    <3>1. LET e == Story(q)[told[q] + 1] IN
          /\ e \in Events /\ e.q = q /\ e.kind # "unsent"
          /\ e.kind = "end" => e.n = Chunks /\ told[q] + 1 = WholeStory
      BY <1>2, Stories
    <3>2. told[q] + 1 \in 1 .. WholeStory
      BY <1>2, Bounds
    <3> QED BY <2>1, <3>1, <3>2
  <2>2. CASE Send(q, Event(q, "error", 0)) /\ told' = [told EXCEPT ![q] = WholeStory]
    <3>1. LET e == Event(q, "error", 0) IN
          e \in Events /\ e.q = q /\ e.kind = "error"
      BY DEF Event, Events, EventKind
    <3>2. WholeStory \in 1 .. WholeStory
      BY Bounds
    <3> QED BY <2>2, <3>1, <3>2
  <2> QED BY <2>1, <2>2 DEF HostEmits
<1>4. /\ told' \in [Ask -> 0 .. NotTaken]
      /\ \A r \in Ask : told'[r] = IF r = q THEN k ELSE told[r]
  BY <1>3, Bounds DEF Shaped
<1>5. TrueEvent(e)'
  BY <1>3, <1>4 DEF TrueEvent
<1>6. ~OnWire(q) /\ q \notin waiting
  BY <1>2 DEF OnePlace
<1>7. Calm
  BY <1>1, <1>2, <1>4 DEF Calm, Nowhere, OnWire
<1>8. /\ down' \in [1 .. MaxLinks -> Seq(Events)]
      /\ \A c \in 1 .. MaxLinks : Items(down'[c]) \subseteq Items(down[c]) \cup {e}
      /\ mishaps' \in 0 .. MaxMishaps
  <2>1. CASE UNCHANGED down /\ (UNCHANGED mishaps \/ (mishaps < MaxMishaps /\ mishaps' = mishaps + 1))
    BY <2>1, Bounds DEF Shaped
  <2>2. CASE /\ over[q] # 0 /\ UNCHANGED mishaps
             /\ down' = [down EXCEPT ![over[q]] = Append(@, e)]
    <3> DEFINE c == over[q]
    <3>1. c \in 1 .. MaxLinks /\ down[c] \in Seq(Events)
      BY <2>2, Bounds DEF Shaped
    <3>2. Append(down[c], e) \in Seq(Events) /\ Items(Append(down[c], e)) = Items(down[c]) \cup {e}
      BY <3>1, Queues
    <3>3. /\ down' \in [1 .. MaxLinks -> Seq(Events)]
          /\ \A d \in 1 .. MaxLinks : down'[d] = IF d = c THEN Append(down[c], e) ELSE down[d]
      BY <2>2, <3>1, <3>2 DEF Shaped
    <3> QED BY <2>2, <3>2, <3>3 DEF Shaped
  <2> QED BY <1>3, <2>1, <2>2 DEF Send
<1>9. Shaped'
  BY <1>1, <1>4, <1>8 DEF Shaped
<1>10. OnePlace'
  BY <1>1, <1>4, <1>6 DEF OnePlace, OnWire
<1>11. EventsAreTrue'
  BY <1>1, <1>3, <1>5, <1>7, <1>8, EventsStay
<1>12. Unheard'
  BY <1>1, <1>2, <1>4 DEF Unheard, Nowhere, OnWire
<1>13. BodiesAreWhole'
  BY <1>1, <1>7, BodiesStay
<1> QED BY <1>9, <1>10, <1>11, <1>12, <1>13

\* The tool believes what it reads, and what it reads is true.
LEMMA ToolReadsKeeps ==
  ASSUME BridgeInv, NEW q \in Ask, ToolReads(q)
  PROVE  BridgeInv'
<1> USE DEF BridgeInv
<1> DEFINE head == Head(queue[q])
<1>1. /\ Listens(q) /\ queue[q] # <<>> /\ queue' = [queue EXCEPT ![q] = Tail(@)]
      /\ asked' = [asked EXCEPT ![q] =
           IF @ = "waiting" THEN First(head) ELSE Following(head, got[q])]
      /\ got' = [got EXCEPT ![q] =
           IF asked[q] = "streaming" /\ head.kind = "chunk" THEN Append(@, head.n) ELSE @]
      /\ UNCHANGED <<pending, waiting, link, links, up, down, told, over, riding, mishaps>>
  BY DEF ToolReads
<1>2. queue[q] \in Seq(Events) /\ Len(queue[q]) <= Room
  BY DEF Shaped
<1>3. /\ Tail(queue[q]) \in Seq(Events) /\ head \in Items(queue[q]) /\ head \in Events
      /\ Items(Tail(queue[q])) \subseteq Items(queue[q])
  BY <1>1, <1>2, Queues
<1>4. /\ head.n \in Nat /\ head.q = q /\ TrueEvent(head)
      /\ head.kind = "unsent" => Nowhere(q)
  BY <1>3 DEF EventsAreTrue, Events
<1> HIDE DEF head
<1>5. Len(Tail(queue[q])) <= Room
  BY <1>1, <1>2, Bounds
<1>6. /\ queue' \in [Ask -> Seq(Events)]
      /\ \A r \in Ask : queue'[r] = IF r = q THEN Tail(queue[q]) ELSE queue[r]
  BY <1>1, <1>3 DEF Shaped
<1>7. got' \in [Ask -> Seq(Nat)]
  <2>1. got[q] \in Seq(Nat) /\ Append(got[q], head.n) \in Seq(Nat)
    BY <1>4 DEF Shaped
  <2> QED BY <1>1, <2>1 DEF Shaped
<1>8. /\ asked' \in [Ask -> Final \cup {"new", "waiting", "streaming"}]
      /\ \A r \in Ask : r # q => asked'[r] = asked[r] /\ got'[r] = got[r]
      /\ asked'[q] \in {"streaming", "whole", "failed", "unsent"}
      /\ asked'[q] = "unsent" => Nowhere(q)
      /\ asked'[q] = "whole" => got'[q] = [n \in 1 .. Chunks |-> n] /\ told[q] = WholeStory
  <2>1. CASE asked[q] = "waiting"
    <3>1. asked' = [asked EXCEPT ![q] = First(head)] /\ got' = got
      BY <1>1, <2>1 DEF Shaped
    <3>2. /\ First(head) \in {"streaming", "failed", "unsent"}
          /\ First(head) = "unsent" => Nowhere(q)
      BY <1>4 DEF First
    <3>3. asked' \in [Ask -> Final \cup {"new", "waiting", "streaming"}]
      BY <3>1, <3>2 DEF Shaped, Final
    <3>4. \A r \in Ask : asked'[r] = IF r = q THEN First(head) ELSE asked[r]
      BY <3>1 DEF Shaped
    <3> QED BY <3>1, <3>2, <3>3, <3>4
  <2>2. CASE asked[q] = "streaming"
    <3>1. asked' = [asked EXCEPT ![q] = Following(head, got[q])]
      BY <1>1, <2>2 DEF Shaped
    <3>2. /\ Following(head, got[q]) \in {"streaming", "whole", "failed"}
          /\ Following(head, got[q]) = "whole" =>
                head.kind = "end" /\ got[q] = [n \in 1 .. head.n |-> n]
      BY DEF Following
    <3>3. head.kind = "end" => head.n = Chunks /\ told[q] = WholeStory /\ got'[q] = got[q]
      BY <1>1, <1>4 DEF TrueEvent, Shaped
    <3>4. \A r \in Ask : r # q => got'[r] = got[r]
      BY <1>1 DEF Shaped
    <3> QED BY <3>1, <3>2, <3>3, <3>4 DEF Shaped, Final
  <2> QED BY <1>1, <2>1, <2>2 DEF Listens
<1>9. Shaped'
  <2>1. \A r \in Ask : Len(queue'[r]) <= Room
    BY <1>5, <1>6 DEF Shaped
  <2> QED BY <1>1, <1>6, <1>7, <1>8, <2>1 DEF Shaped
<1>10. OnePlace' /\ Calm
  BY <1>1, PlacesStay
<1>11. EventsAreTrue'
  <2>1. \A r \in Ask : Items(queue'[r]) \subseteq Items(queue[r])
    BY <1>3, <1>6
  <2>2. \A r \in Ask : asked[r] = "new" => asked'[r] = "new"
    BY <1>1, <1>8 DEF Listens
  <2> QED BY <1>1, <1>10, <2>1, <2>2, EventsStay
<1>12. Unheard'
  BY <1>1, <1>6, <1>8 DEF Unheard, Nowhere, OnWire
<1>13. BodiesAreWhole'
  BY <1>1, <1>8 DEF BodiesAreWhole
<1> QED BY <1>9, <1>10, <1>11, <1>12, <1>13

\* A tool that gives up is told nothing.
LEMMA ToolLeavesKeeps ==
  ASSUME BridgeInv, NEW q \in Ask, StartTimesOut(q) \/ ToolGoes(q)
  PROVE  BridgeInv'
<1> USE DEF BridgeInv
<1>1. PICK end \in {"failed", "gone"} :
         /\ Listens(q) /\ asked' = [asked EXCEPT ![q] = end]
         /\ queue' = queue \/ queue' = [queue EXCEPT ![q] = <<>>]
         /\ UNCHANGED <<got, pending, waiting, link, links, up, down, told, over, riding, mishaps>>
  BY DEF StartTimesOut, ToolGoes, Listens
<1>2. /\ asked' \in [Ask -> Final \cup {"new", "waiting", "streaming"}]
      /\ \A r \in Ask : asked'[r] = IF r = q THEN end ELSE asked[r]
  BY <1>1 DEF Shaped, Final
<1>3. <<>> \in Seq(Events) /\ Len(<<>>) = 0 /\ Items(<<>>) = {}
  BY DEF Items
<1>4. /\ queue' \in [Ask -> Seq(Events)]
      /\ \A r \in Ask : queue'[r] = queue[r] \/ queue'[r] = <<>>
  BY <1>1, <1>3 DEF Shaped
<1>5. Shaped'
  <2>1. \A r \in Ask : Len(queue'[r]) <= Room
    BY <1>3, <1>4, Bounds DEF Shaped
  <2> QED BY <1>1, <1>2, <1>4, <2>1 DEF Shaped
<1>6. OnePlace' /\ Calm
  BY <1>1, PlacesStay
<1>7. EventsAreTrue'
  <2>1. \A r \in Ask : Items(queue'[r]) \subseteq Items(queue[r])
    BY <1>3, <1>4
  <2>2. \A r \in Ask : asked[r] = "new" => asked'[r] = "new"
    BY <1>1, <1>2 DEF Listens
  <2> QED BY <1>1, <1>6, <2>1, <2>2, EventsStay
<1>8. Unheard'
  BY <1>1, <1>2, <1>4 DEF Unheard, Nowhere, OnWire
<1>9. BodiesAreWhole'
  BY <1>1, <1>2, <1>6, BodiesStay
<1> QED BY <1>5, <1>6, <1>7, <1>8, <1>9

-----------------------------------------------------------------------------
(***************************************************************************)
(* The theorems.                                                           *)
(***************************************************************************)

\* A ride begins with nothing asked.
LEMMA BridgeBegins ==
  ASSUME BridgeInit
  PROVE  BridgeInv
<1> USE DEF BridgeInit
<1>1. /\ \A c \in 1 .. MaxLinks : up[c] = <<>> /\ down[c] = <<>>
      /\ \A q \in Ask : asked[q] = "new" /\ queue[q] = <<>> /\ told[q] = NotTaken
  OBVIOUS
<1>2. Items(<<>>) = {}
  BY DEF Items
<1>3. Shaped
  BY FS_EmptySet, Bounds DEF Shaped, Final
<1>4. EventsAreTrue
  BY <1>1, <1>2 DEF EventsAreTrue
<1>5. \A q \in Ask : Nowhere(q)
  BY <1>1, <1>2 DEF Nowhere, OnWire
<1>6. OnePlace
  BY <1>1, <1>5 DEF OnePlace, Nowhere
<1>7. Unheard
  BY <1>1, <1>5 DEF Unheard
<1>8. BodiesAreWhole
  BY <1>1 DEF BodiesAreWhole
<1> QED BY <1>3, <1>4, <1>6, <1>7, <1>8 DEF BridgeInv

\* Every step keeps the invariant.
LEMMA BridgeSteps ==
  ASSUME BridgeInv, [BridgeNext]_bridgeVars
  PROVE  BridgeInv'
<1>1. CASE UNCHANGED bridgeVars
  BY <1>1 DEF bridgeVars, BridgeInv, Shaped, EventsAreTrue, TrueEvent, OnePlace, OnWire,
              Nowhere, Unheard, BodiesAreWhole
<1>2. CASE LinkOpens
  BY <1>2, LinkOpensKeeps
<1>3. CASE LinkLost \/ StopRide
  BY <1>3, LossKeeps
<1>4. ASSUME NEW c \in 1 .. MaxLinks, Deliver(c) \/ HostTakes(c)
      PROVE  BridgeInv'
  BY <1>4, DeliverKeeps, HostTakesKeeps
<1>5. ASSUME NEW q \in Ask, AskFor(q) \/ BridgeTimesOut(q) \/ HostEmits(q)
      PROVE  BridgeInv'
  BY <1>5, AskForKeeps, BridgeTimesOutKeeps, HostEmitsKeeps
<1>6. ASSUME NEW q \in Ask, ToolReads(q) \/ StartTimesOut(q) \/ ToolGoes(q)
      PROVE  BridgeInv'
  BY <1>6, ToolReadsKeeps, ToolLeavesKeeps
<1> QED BY <1>1, <1>2, <1>3, <1>4, <1>5, <1>6 DEF BridgeNext

\* A request that has one place is there once.
LEMMA OneCopy ==
  ASSUME Shaped, OnePlace, NEW q \in Ask
  PROVE  /\ Copies(q) <= 1
         /\ Nowhere(q) => Copies(q) = 0
<1>1. \A w \in Wire(q) : \E c \in 1 .. MaxLinks : \E i \in DOMAIN up[c] :
         w = <<c, i>> /\ up[c][i] = q
  BY DEF Wire
<1>2. CASE Wire(q) = {}
  <2>1. Cardinality(Wire(q)) = 0
    BY <1>2, FS_EmptySet
  <2>2. q \in waiting => told[q] = NotTaken
    BY DEF OnePlace
  <2> QED BY <2>1, <2>2 DEF Copies, Nowhere
<1>3. CASE Wire(q) # {}
  <2>1. PICK w : w \in Wire(q)
    BY <1>3
  <2>2. \A v \in Wire(q) : v = w
    BY <1>1, <2>1 DEF OnePlace
  <2>3. Wire(q) = {w}
    BY <2>1, <2>2
  <2>4. Cardinality(Wire(q)) = 1
    BY <2>3, FS_Singleton
  <2>5. OnWire(q)
    BY <1>1, <2>1 DEF OnWire, Items
  <2>6. q \notin waiting /\ told[q] = NotTaken
    BY <2>5 DEF OnePlace
  <2> QED BY <2>4, <2>5, <2>6 DEF Copies, Nowhere
<1> QED BY <1>2, <1>3

\* Every state the bridge reaches satisfies the invariant.
LEMMA BridgeKeepsInv == BridgeSpec => []BridgeInv
<1>1. BridgeInit => BridgeInv
  BY BridgeBegins
<1>2. BridgeInv /\ [BridgeNext]_bridgeVars => BridgeInv'
  BY BridgeSteps
<1> QED BY <1>1, <1>2, PTL DEF BridgeSpec

\* Types; no channel ever holds more events than it has room for, and no request
\* waits for a connection while one is open.
THEOREM BridgeTypes == BridgeSpec => []BridgeTypeOK
<1>1. BridgeInv => BridgeTypeOK
  BY DEF BridgeInv, Shaped, BridgeTypeOK
<1> QED BY <1>1, BridgeKeepsInv, PTL

\* A whole answer is the host's, whatever was lost, late or reordered between
\* requests; a request is executed once at most, and never when its tool was
\* told that it was not sent.
THEOREM AnswersStayTrue == BridgeSpec => []AnswersAreTrue
<1>1. BridgeInv => AnswersAreTrue
  BY OneCopy DEF BridgeInv, AnswersAreTrue, SentOnceOrNotAtAll, Unheard
<1> QED BY <1>1, BridgeKeepsInv, PTL

-----------------------------------------------------------------------------
(***************************************************************************)
(* Link, for any passengers and any numbers of rides, dials and losses.    *)
(* The invariant looks at one passenger at a time: its runtime, its first  *)
(* dial and its reconnect loops.                                           *)
(***************************************************************************)

-----------------------------------------------------------------------------
(***************************************************************************)
(* A ride is tended.                                                       *)
(***************************************************************************)

\* A runtime, and the signals between it and the host; no bound matters here.
Runtime == [role : {"none", "passenger"}, riding : BOOLEAN, stopping : BOOLEAN,
            reconnecting : BOOLEAN, watch : BOOLEAN, conn : Nat, answer : Nat,
            state : {"connected", "connecting", "reconnecting", "down"},
            dials : Nat, rides : Nat]
ToHost == [kind : {"offer", "leave"}, from : Rider, of : Nat]
ToRider == [kind : {"answer", "hangup"}, dial : Nat]

\* A rider's flag is never set without a loop, and a ride without loop and without
\* first dial has a connection, whose failure is still to be reported.
Tended(a, dial, row) ==
  /\ a \in Runtime /\ dial \in Nat /\ row \in [Places -> Nat]
  /\ a.reconnecting => \E p \in Places : row[p] # Off
  /\ a.riding /\ a.role = "passenger" /\ ~a.stopping /\ dial = 0 /\ (\A p \in Places : row[p] = Off)
       => a.conn # 0

LinkInv ==
  /\ app \in [Rider -> Runtime] /\ first \in [Rider -> Nat] /\ loops \in [Rider -> [Places -> Nat]]
  /\ inbox \in Seq(ToHost) /\ mail \in [Rider -> Seq(ToRider)]
  /\ \A r \in Rider : Tended(app[r], first[r], loops[r])

\* Only one passenger's runtime, first dial and loops change in a step.
LEMMA RiderChanges ==
  ASSUME LinkInv, NEW r \in Rider, NEW a, NEW dial, NEW row, Tended(a, dial, row),
         app' = [app EXCEPT ![r] = a],
         first' = [first EXCEPT ![r] = dial],
         loops' = [loops EXCEPT ![r] = row],
         inbox' \in Seq(ToHost), mail' \in [Rider -> Seq(ToRider)]
  PROVE  LinkInv'
<1>1. a \in Runtime /\ dial \in Nat /\ row \in [Places -> Nat]
  BY DEF Tended
<1>2. app' \in [Rider -> Runtime] /\ first' \in [Rider -> Nat] /\ loops' \in [Rider -> [Places -> Nat]]
  BY <1>1 DEF LinkInv
<1>3. ASSUME NEW q \in Rider PROVE Tended(app'[q], first'[q], loops'[q])
  <2>1. CASE q = r
    <3>1. app'[q] = a /\ first'[q] = dial /\ loops'[q] = row
      BY <2>1 DEF LinkInv
    <3> QED BY <3>1
  <2>2. CASE q # r
    <3>1. app'[q] = app[q] /\ first'[q] = first[q] /\ loops'[q] = loops[q]
      BY <2>2 DEF LinkInv
    <3> QED BY <3>1 DEF LinkInv
  <2> QED BY <2>1, <2>2
<1> QED BY <1>2, <1>3 DEF LinkInv

\* What a passenger sends the host is a signal.
LEMMA OffersAreSignals ==
  ASSUME LinkInv, NEW r \in Rider
  PROVE  /\ \A dial \in Nat : Append(inbox, OfferOf(r, dial)) \in Seq(ToHost)
         /\ Append(inbox, LeaveOf(r)) \in Seq(ToHost)
<1>1. app[r].rides \in Nat
  BY DEF LinkInv, Runtime
<1>2. LeaveOf(r) \in ToHost /\ \A dial \in Nat : OfferOf(r, dial) \in ToHost
  BY <1>1 DEF LeaveOf, OfferOf, ToHost
<1> QED BY <1>2 DEF LinkInv

\* What the runtime's helpers leave of it.
LEMMA RuntimeParts ==
  ASSUME NEW a \in Runtime
  PROVE  /\ Removed(a) \in Runtime /\ Closed(a) \in Runtime /\ Dialled(a) \in Runtime
         /\ Removed(a).reconnecting = a.reconnecting /\ Removed(a).riding = a.riding
         /\ Removed(a).role = a.role /\ Removed(a).stopping = a.stopping
         /\ ~Closed(a).reconnecting /\ Closed(a).dials = a.dials
         /\ Dialled(a).conn = a.dials + 1 /\ Dialled(a).conn # 0
         /\ Dialled(a).reconnecting = a.reconnecting
         /\ Dialled(a).riding = a.riding /\ Dialled(a).stopping = a.stopping
         /\ a.dials + 1 \in Nat
<1>1. a.dials + 1 \in Nat /\ a.dials + 1 # 0
  BY DEF Runtime
<1> QED BY <1>1 DEF Runtime, Removed, Closed, Dialled

\* The two values of a loop's place that are no dial.
LEMMA PlacesNumbered == /\ BackingOff \in Nat /\ BackingOff # 0
                        /\ Off = 0
BY LinkAssumption DEF BackingOff, Off

\* scheduleReconnect after the connection is removed.
LEMMA ScheduledIsTended ==
  ASSUME LinkInv, NEW r \in Rider, Schedule(r, Removed(app[r])), UNCHANGED <<first, inbox, mail>>
  PROVE  LinkInv'
<1> DEFINE a == app[r]
           b == Removed(a)
<1>1. a \in Runtime /\ Tended(a, first[r], loops[r]) /\ b \in Runtime
  BY RuntimeParts DEF LinkInv
<1>2. /\ b.reconnecting = a.reconnecting /\ b.riding = a.riding
      /\ b.role = a.role /\ b.stopping = a.stopping
  BY <1>1, RuntimeParts
<1>3. first' = [first EXCEPT ![r] = first[r]] /\ inbox' \in Seq(ToHost) /\ mail' \in [Rider -> Seq(ToRider)]
  BY DEF LinkInv
<1>4. CASE MaySchedule(b)
  <2> DEFINE c == [b EXCEPT !.reconnecting = TRUE, !.state = "reconnecting"]
  <2>1. PICK p \in Places : /\ loops' = [loops EXCEPT ![r][p] = BackingOff]
                            /\ app' = [app EXCEPT ![r] = c]
    BY <1>4 DEF Schedule
  <2> DEFINE row == [loops[r] EXCEPT ![p] = BackingOff]
  <2>2. loops' = [loops EXCEPT ![r] = row]
    BY <2>1 DEF LinkInv
  <2>3. row \in [Places -> Nat] /\ row[p] # Off
    BY PlacesNumbered DEF LinkInv
  <2>4. c \in Runtime
    BY <1>1 DEF Runtime
  <2>5. Tended(c, first[r], row)
    BY <2>3, <2>4 DEF Tended, LinkInv
  <2> HIDE DEF a, b, c, row
  <2> QED BY <1>3, <2>1, <2>2, <2>5, RiderChanges
<1>5. CASE ~MaySchedule(b)
  <2>1. loops' = [loops EXCEPT ![r] = loops[r]] /\ app' = [app EXCEPT ![r] = b]
    BY <1>5 DEF Schedule, LinkInv
  <2>2. b.role # "passenger" \/ b.stopping \/ b.reconnecting
    BY <1>5 DEF MaySchedule
  <2>3. Tended(b, first[r], loops[r])
    <3> HIDE DEF a, b
    <3> QED BY <1>1, <1>2, <2>2 DEF Tended
  <2> HIDE DEF a, b
  <2> QED BY <1>3, <2>1, <2>3, RiderChanges
<1> QED BY <1>4, <1>5

\* A ride that starts, and a connection that fails.
LEMMA RideStepsTended ==
  ASSUME LinkInv, NEW r \in Rider,
         StartPassenger(r) \/ FirstDialOpens(r) \/ FirstDialFails(r) \/ PcFails(r) \/ HeartbeatsMissed(r)
  PROVE  LinkInv'
<1> DEFINE a == app[r]
<1>1. a \in Runtime /\ Tended(a, first[r], loops[r]) /\ loops = [loops EXCEPT ![r] = loops[r]]
  BY DEF LinkInv
<1>2. inbox \in Seq(ToHost) /\ mail \in [Rider -> Seq(ToRider)]
  BY DEF LinkInv
<1>3. CASE StartPassenger(r)
  <2> DEFINE b == [Closed(a) EXCEPT !.role = "passenger", !.riding = TRUE,
                      !.stopping = FALSE, !.state = "connecting", !.rides = @ + 1]
             c == Dialled(b)
             dial == a.dials + 1
  <2>1. /\ app' = [app EXCEPT ![r] = c] /\ first' = [first EXCEPT ![r] = dial]
        /\ loops' = loops /\ mail' = mail
        /\ inbox' = Append(inbox, OfferOf(r, dial))
    BY <1>3 DEF StartPassenger
  <2>2. b \in Runtime /\ ~b.reconnecting
    <3>1. Closed(a) \in Runtime /\ ~Closed(a).reconnecting
      BY <1>1, RuntimeParts
    <3>2. Closed(a).rides + 1 \in Nat
      BY <3>1 DEF Runtime
    <3> QED BY <3>1, <3>2 DEF Runtime
  <2>3. c \in Runtime /\ ~c.reconnecting /\ dial \in Nat /\ dial # 0
    <3>1. a.dials \in Nat
      BY <1>1 DEF Runtime
    <3> HIDE DEF b
    <3> QED BY <2>2, <3>1, RuntimeParts
  <2> HIDE DEF a, c, dial
  <2>4. Tended(c, dial, loops[r])
    BY <1>1, <2>3 DEF Tended
  <2>5. inbox' \in Seq(ToHost)
    BY <2>1, <2>3, OffersAreSignals
  <2> QED BY <1>1, <1>2, <2>1, <2>4, <2>5, RiderChanges
<1>4. CASE FirstDialOpens(r)
  <2> DEFINE c == [a EXCEPT !.state = "connected", !.watch = TRUE]
  <2>1. /\ app' = [app EXCEPT ![r] = c] /\ first' = [first EXCEPT ![r] = 0]
        /\ UNCHANGED <<loops, inbox, mail>> /\ a.conn # 0
    BY <1>4 DEF FirstDialOpens, LinkInv
  <2>2. c \in Runtime /\ c.conn # 0 /\ c.reconnecting = a.reconnecting
    BY <1>1, <2>1 DEF Runtime
  <2>3. Tended(c, 0, loops[r])
    <3> HIDE DEF a, c
    <3> QED BY <1>1, <2>2 DEF Tended
  <2> HIDE DEF a, c
  <2> QED BY <1>1, <1>2, <2>1, <2>3, RiderChanges
<1>5. CASE FirstDialFails(r)
  <2> DEFINE c == [a EXCEPT !.state = "down", !.riding = FALSE]
  <2>1. /\ app' = [app EXCEPT ![r] = c] /\ first' = [first EXCEPT ![r] = 0]
        /\ UNCHANGED <<loops, mail>> /\ inbox' = Append(inbox, LeaveOf(r))
    BY <1>5 DEF FirstDialFails, LinkInv
  <2>2. c \in Runtime /\ ~c.riding /\ c.reconnecting = a.reconnecting
    BY <1>1 DEF Runtime
  <2>3. Tended(c, 0, loops[r])
    <3> HIDE DEF a, c
    <3> QED BY <1>1, <2>2 DEF Tended
  <2>4. inbox' \in Seq(ToHost)
    BY <2>1, OffersAreSignals
  <2> HIDE DEF a, c
  <2> QED BY <1>1, <1>2, <2>1, <2>3, <2>4, RiderChanges
<1>6. CASE PcFails(r) \/ HeartbeatsMissed(r)
  <2>1. Schedule(r, Removed(app[r])) /\ UNCHANGED <<first, inbox, mail>>
    BY <1>6 DEF PcFails, HeartbeatsMissed
  <2> QED BY <2>1, ScheduledIsTended
<1> QED BY <1>3, <1>4, <1>5, <1>6

\* A loop ends and resets the flag, although another loop may run.
LEMMA EndedIsTended ==
  ASSUME LinkInv, NEW r \in Rider, NEW p \in Places, NEW a \in Runtime,
         LoopEnds(r, p, a), UNCHANGED <<first, inbox, mail>>,
         a.stopping \/ a.role # "passenger" \/ a.conn # 0
  PROVE  LinkInv'
<1> DEFINE b == [a EXCEPT !.reconnecting = FALSE]
           row == [loops[r] EXCEPT ![p] = Off]
<1>1. /\ app' = [app EXCEPT ![r] = b] /\ loops' = [loops EXCEPT ![r] = row]
      /\ first' = [first EXCEPT ![r] = first[r]]
      /\ inbox' \in Seq(ToHost) /\ mail' \in [Rider -> Seq(ToRider)]
  BY DEF LoopEnds, LinkInv
<1>2. b \in Runtime /\ ~b.reconnecting /\ b.stopping = a.stopping /\ b.role = a.role /\ b.conn = a.conn
  BY DEF Runtime
<1>3. row \in [Places -> Nat] /\ first[r] \in Nat
  BY PlacesNumbered DEF LinkInv
<1> HIDE DEF b, row
<1>4. Tended(b, first[r], row)
  BY <1>2, <1>3 DEF Tended
<1> QED BY <1>1, <1>4, RiderChanges

\* A reconnect loop goes on or ends.
LEMMA LoopStepsTended ==
  ASSUME LinkInv, NEW r \in Rider, NEW p \in Places,
         LoopDials(r, p) \/ LoopStops(r, p) \/ LoopOpens(r, p) \/ LoopFails(r, p)
  PROVE  LinkInv'
<1> DEFINE a == app[r]
<1>1. /\ a \in Runtime /\ Tended(a, first[r], loops[r]) /\ first = [first EXCEPT ![r] = first[r]]
      /\ loops = [loops EXCEPT ![r] = loops[r]]
  BY DEF LinkInv
<1>2. inbox \in Seq(ToHost) /\ mail \in [Rider -> Seq(ToRider)]
  BY DEF LinkInv
<1>3. CASE LoopDials(r, p)
  <2> DEFINE c == Dialled(a)
             dial == a.dials + 1
  <2>1. /\ app' = [app EXCEPT ![r] = c] /\ UNCHANGED <<first, mail>> /\ loops[r][p] = BackingOff
        /\ \/ /\ loops' = [loops EXCEPT ![r][p] = dial]
              /\ inbox' = Append(inbox, OfferOf(r, dial))
           \/ UNCHANGED <<loops, inbox>>
    BY <1>3 DEF LoopDials
  <2>2. c \in Runtime /\ c.conn # 0 /\ dial \in Nat /\ dial # 0
    <3>1. a.dials \in Nat
      BY <1>1 DEF Runtime
    <3> QED BY <1>1, <3>1, RuntimeParts
  <2>3. inbox' \in Seq(ToHost)
    BY <1>2, <2>1, <2>2, OffersAreSignals
  <2>4. CASE loops' = [loops EXCEPT ![r][p] = dial]
    <3> DEFINE row == [loops[r] EXCEPT ![p] = dial]
    <3>1. loops' = [loops EXCEPT ![r] = row]
      BY <2>4 DEF LinkInv
    <3> HIDE DEF dial, a, c
    <3>2. row \in [Places -> Nat] /\ row[p] # Off
      BY <1>1, <2>2 DEF Tended, Off
    <3> HIDE DEF row
    <3>3. Tended(c, first[r], row)
      BY <1>1, <2>2, <3>2 DEF Tended
    <3> QED BY <1>1, <1>2, <2>1, <2>3, <3>1, <3>3, RiderChanges
  <2>5. CASE loops' = loops
    <3> HIDE DEF dial, a, c
    <3>1. Tended(c, first[r], loops[r])
      BY <1>1, <2>1, <2>2, PlacesNumbered DEF Tended
    <3> QED BY <1>1, <1>2, <2>1, <2>3, <2>5, <3>1, RiderChanges
  <2> QED BY <2>1, <2>4, <2>5
<1>4. CASE LoopStops(r, p)
  <2>1. /\ LoopEnds(r, p, a) /\ UNCHANGED <<first, inbox, mail>>
        /\ a.stopping \/ a.role # "passenger"
    BY <1>4 DEF LoopStops
  <2> QED BY <1>1, <2>1, EndedIsTended
<1>5. CASE LoopOpens(r, p)
  <2> DEFINE b == [a EXCEPT !.state = "connected"]
  <2>1. LoopEnds(r, p, b) /\ UNCHANGED <<first, inbox, mail>> /\ a.conn # 0
    BY <1>5 DEF LoopOpens, Open
  <2>2. b \in Runtime /\ b.conn # 0
    BY <1>1, <2>1 DEF Runtime
  <2> HIDE DEF b
  <2> QED BY <2>1, <2>2, EndedIsTended
<1>6. CASE LoopFails(r, p)
  <2>1. CASE LoopEnds(r, p, a) /\ (a.stopping \/ a.role # "passenger")
    BY <1>1, <1>6, <2>1, EndedIsTended DEF LoopFails
  <2>2. CASE /\ loops' = [loops EXCEPT ![r][p] = BackingOff]
             /\ \E state \in {a.state, "down"} : app' = [app EXCEPT ![r].state = state]
    <3>1. PICK state \in {a.state, "down"} : app' = [app EXCEPT ![r].state = state]
      BY <2>2
    <3> DEFINE b == [a EXCEPT !.state = state]
               row == [loops[r] EXCEPT ![p] = BackingOff]
    <3>2. app' = [app EXCEPT ![r] = b] /\ loops' = [loops EXCEPT ![r] = row]
      BY <2>2, <3>1 DEF LinkInv
    <3>3. UNCHANGED <<first, inbox, mail>>
      BY <1>6 DEF LoopFails
    <3>4. b \in Runtime
      BY <1>1 DEF Runtime
    <3>5. row \in [Places -> Nat] /\ row[p] # Off
      BY PlacesNumbered DEF LinkInv
    <3> HIDE DEF a, b, row
    <3>6. Tended(b, first[r], row)
      BY <1>1, <3>4, <3>5 DEF Tended
    <3> QED BY <1>1, <1>2, <3>2, <3>3, <3>6, RiderChanges
  <2> QED BY <1>6, <2>1, <2>2 DEF LoopFails
<1> QED BY <1>3, <1>4, <1>5, <1>6

\* A signal from the host, and the ways to leave.
LEMMA RiderEndsTended ==
  ASSUME LinkInv, NEW r \in Rider, PassengerSignal(r) \/ Leave(r) \/ Crash(r)
  PROVE  LinkInv'
<1> DEFINE a == app[r]
<1>1. /\ a \in Runtime /\ Tended(a, first[r], loops[r]) /\ first = [first EXCEPT ![r] = first[r]]
      /\ loops = [loops EXCEPT ![r] = loops[r]]
  BY DEF LinkInv
<1>2. inbox \in Seq(ToHost) /\ mail \in [Rider -> Seq(ToRider)]
  BY DEF LinkInv
<1>3. CASE PassengerSignal(r)
  <2> DEFINE message == Head(mail[r])
             b == [Removed(a) EXCEPT !.stopping = TRUE, !.state = "down"]
             c == [a EXCEPT !.answer = message.dial]
  <2>1. /\ mail[r] # <<>> /\ UNCHANGED <<first, loops, inbox>>
        /\ mail' = [mail EXCEPT ![r] = Tail(mail[r])]
        /\ app' = [app EXCEPT ![r] = b] \/ app' = [app EXCEPT ![r] = c] \/ app' = [app EXCEPT ![r] = a]
    BY <1>2, <1>3 DEF PassengerSignal
  <2>2. message \in ToRider /\ mail' \in [Rider -> Seq(ToRider)]
    BY <1>2, <2>1
  <2>3. b \in Runtime /\ b.stopping /\ b.reconnecting = a.reconnecting
    <3>1. Removed(a) \in Runtime /\ Removed(a).reconnecting = a.reconnecting
      BY <1>1, RuntimeParts
    <3> QED BY <3>1 DEF Runtime
  <2>4. /\ c \in Runtime /\ c.reconnecting = a.reconnecting /\ c.stopping = a.stopping
        /\ c.riding = a.riding /\ c.role = a.role /\ c.conn = a.conn
    <3>1. message.dial \in Nat
      BY <2>2 DEF ToRider
    <3> QED BY <1>1, <3>1 DEF Runtime
  <2> HIDE DEF a, b, c
  <2>5. Tended(b, first[r], loops[r]) /\ Tended(c, first[r], loops[r])
    BY <1>1, <2>3, <2>4 DEF Tended
  <2> QED BY <1>1, <1>2, <2>1, <2>2, <2>5, RiderChanges
<1>4. CASE Leave(r)
  <2> DEFINE b == [Closed(a) EXCEPT !.role = "none", !.stopping = TRUE, !.riding = FALSE,
                                    !.state = "connected"]
  <2>1. /\ app' = [app EXCEPT ![r] = b] /\ UNCHANGED <<first, loops>>
        /\ inbox' = Append(inbox, LeaveOf(r)) /\ mail' = [mail EXCEPT ![r] = <<>>]
    BY <1>4 DEF Leave
  <2>2. inbox' \in Seq(ToHost) /\ mail' \in [Rider -> Seq(ToRider)]
    <3>1. <<>> \in Seq(ToRider)
      OBVIOUS
    <3> QED BY <1>2, <2>1, <3>1, OffersAreSignals
  <2>3. b \in Runtime /\ b.stopping /\ ~b.reconnecting
    <3>1. Closed(a) \in Runtime /\ ~Closed(a).reconnecting
      BY <1>1, RuntimeParts
    <3> QED BY <3>1 DEF Runtime
  <2> HIDE DEF a, b
  <2>4. Tended(b, first[r], loops[r])
    BY <1>1, <2>3 DEF Tended
  <2> QED BY <1>1, <2>1, <2>2, <2>4, RiderChanges
<1>5. CASE Crash(r)
  <2> DEFINE b == Fresh(a.dials, a.rides)
             row == [p \in Places |-> Off]
  <2>1. /\ app' = [app EXCEPT ![r] = b] /\ first' = [first EXCEPT ![r] = 0]
        /\ loops' = [loops EXCEPT ![r] = row] /\ UNCHANGED <<inbox, mail>>
    BY <1>5 DEF Crash
  <2>2. b \in Runtime /\ ~b.riding /\ ~b.reconnecting
    BY <1>1 DEF Fresh, Runtime
  <2>3. row \in [Places -> Nat]
    BY PlacesNumbered
  <2> HIDE DEF a, b, row
  <2>4. Tended(b, 0, row)
    BY <2>2, <2>3 DEF Tended
  <2> QED BY <1>2, <2>1, <2>4, RiderChanges
<1> QED BY <1>3, <1>4, <1>5

\* The host and the network touch no passenger's runtime.
LEMMA HostStepsTended ==
  ASSUME LinkInv,
         HostSignal \/ HostStops \/ \E r \in Rider : HostNotices(r) \/ LoseLink(r)
  PROVE  LinkInv'
<1>1. UNCHANGED <<app, first, loops>>
  BY DEF HostSignal, HostStops, HostNotices, LoseLink
<1>2. inbox' \in Seq(ToHost) /\ mail' \in [Rider -> Seq(ToRider)]
  <2>1. CASE HostSignal
    <3> DEFINE message == Head(inbox)
    <3>1. message \in ToHost /\ inbox' \in Seq(ToHost)
      BY <2>1 DEF HostSignal, LinkInv
    <3>2. message.from \in Rider /\ message.of \in Nat
      BY <3>1 DEF ToHost
    <3>3. \/ UNCHANGED mail
          \/ TakeOffer(message.from, message.of)
      BY <2>1 DEF HostSignal
    <3> HIDE DEF message
    <3>4. CASE TakeOffer(message.from, message.of)
      <4>1. PICK signal \in ToRider : mail' = [mail EXCEPT ![message.from] = Append(@, signal)]
        <5>1. [kind |-> "hangup", dial |-> 0] \in ToRider /\ [kind |-> "answer", dial |-> message.of] \in ToRider
          BY <3>2 DEF ToRider
        <5> QED BY <3>4, <5>1 DEF TakeOffer
      <4> QED BY <3>1, <3>2, <4>1 DEF LinkInv
    <3> QED BY <3>1, <3>3, <3>4 DEF LinkInv
  <2>2. CASE HostStops
    <3>1. [kind |-> "hangup", dial |-> 0] \in ToRider
      BY DEF ToRider
    <3>2. inbox' = inbox /\
          mail' = [r \in Rider |-> IF r \in Sessions \cap Bound
                THEN Append(mail[r], [kind |-> "hangup", dial |-> 0]) ELSE mail[r]]
      BY <2>2 DEF HostStops
    <3> QED BY <3>1, <3>2 DEF LinkInv
  <2>3. CASE \E r \in Rider : HostNotices(r) \/ LoseLink(r)
    BY <2>3 DEF HostNotices, LoseLink, LinkInv
  <2> QED BY <2>1, <2>2, <2>3
<1> QED BY <1>1, <1>2 DEF LinkInv

\* Nobody rides at first.
LEMMA LinkStarts == LinkInit => LinkInv
<1> SUFFICES ASSUME LinkInit PROVE LinkInv
  OBVIOUS
<1>1. Fresh(0, 0) \in Runtime /\ ~Fresh(0, 0).riding /\ ~Fresh(0, 0).reconnecting
  BY DEF Fresh, Runtime
<1>2. \A r \in Rider : app[r] = Fresh(0, 0) /\ first[r] = 0 /\ loops[r] = [p \in Places |-> Off]
  BY DEF LinkInit
<1>3. [p \in Places |-> Off] \in [Places -> Nat]
  BY PlacesNumbered
<1>4. /\ app \in [Rider -> Runtime] /\ first \in [Rider -> Nat] /\ loops \in [Rider -> [Places -> Nat]]
      /\ inbox \in Seq(ToHost) /\ mail \in [Rider -> Seq(ToRider)]
  BY <1>1, <1>3 DEF LinkInit
<1>5. \A r \in Rider : Tended(app[r], first[r], loops[r])
  BY <1>1, <1>2, <1>3 DEF Tended
<1> QED BY <1>4, <1>5 DEF LinkInv

\* The invariant.
LEMMA LinkInvHolds == LinkSpec => []LinkInv
<1>1. LinkInv /\ [LinkNext]_linkVars => LinkInv'
  <2>1. CASE UNCHANGED linkVars
    BY <2>1 DEF linkVars, LinkInv
  <2> QED BY <2>1, RideStepsTended, LoopStepsTended, RiderEndsTended, HostStepsTended DEF LinkNext
<1> QED BY <1>1, LinkStarts, PTL DEF LinkSpec

\* A ride whose link is down is always about to be repaired, for any passengers,
\* dials and losses (trustedWebRtc.ts, scheduleReconnect and startHealthWatch).
THEOREM RidesAreRepaired == LinkSpec => []SomebodyRepairs
<1>1. LinkInv => SomebodyRepairs
  <2> SUFFICES ASSUME LinkInv, NEW r \in Rider,
                      app[r].riding, app[r].role = "passenger", ~app[r].stopping,
                      first[r] = 0, \A p \in Places : ~LoopRuns(r, p)
               PROVE  app[r].conn # 0 /\ ~app[r].reconnecting
    BY DEF SomebodyRepairs
  <2>1. Tended(app[r], first[r], loops[r])
    BY DEF LinkInv
  <2> QED BY <2>1 DEF Tended, LoopRuns
<1> QED BY <1>1, LinkInvHolds, PTL

\* As many passengers as the host accepts connections at most, those who have left
\* included: a host holds the connection of a departed passenger until it fails.
RoomForAll == IsFiniteSet(Rider) /\ Cardinality(Rider) <= HostLimit

\* Then nobody is hung up on, or made to stop, before the host ends the car.
HangupsAreLast ==
  /\ \A r \in Rider : \A i \in DOMAIN mail[r] : mail[r][i].kind = "hangup" => ~hostUp
  /\ \A r \in Rider : app[r].riding /\ app[r].stopping => ~hostUp

\* The connections to all others leave room for one more.
LEMMA RoomForEach ==
  ASSUME RoomForAll, NEW r \in Rider
  PROVE  Cardinality(Sessions \ {r}) < HostLimit
<1>1. HostLimit \in Nat
  BY LinkAssumption
<1>2. IsFiniteSet(Rider \ {r}) /\ Cardinality(Rider \ {r}) = Cardinality(Rider) - 1
  BY FS_RemoveElement DEF RoomForAll
<1>3. Sessions \ {r} \subseteq Rider \ {r}
  BY DEF Sessions
<1>4. Cardinality(Sessions \ {r}) <= Cardinality(Rider \ {r})
  BY <1>2, <1>3, FS_Subset
<1>5. Cardinality(Rider) \in Nat /\ Cardinality(Sessions \ {r}) \in Nat
  BY <1>2, <1>3, FS_Subset, FS_CardinalityType DEF RoomForAll
<1> QED BY <1>1, <1>2, <1>4, <1>5 DEF RoomForAll

\* Every step keeps this.
LEMMA HangupStep ==
  ASSUME RoomForAll, LinkInv, LinkInv', HangupsAreLast, LinkNext
  PROVE  HangupsAreLast'
<1>1. hostUp' => hostUp
  <2>1. ASSUME HostSignal \/ HostStops PROVE hostUp' => hostUp
    BY <2>1 DEF HostSignal, HostStops
  <2>2. ASSUME NEW r \in Rider,
               \/ StartPassenger(r) \/ FirstDialOpens(r) \/ FirstDialFails(r)
               \/ PcFails(r) \/ HeartbeatsMissed(r) \/ PassengerSignal(r)
        PROVE  hostUp' => hostUp
    BY <2>2 DEF StartPassenger, FirstDialOpens, FirstDialFails, PcFails, HeartbeatsMissed,
                PassengerSignal
  <2>3. ASSUME NEW r \in Rider, Leave(r) \/ Crash(r) \/ HostNotices(r) \/ LoseLink(r)
        PROVE  hostUp' => hostUp
    BY <2>3 DEF Leave, Crash, HostNotices, LoseLink
  <2>4. ASSUME NEW r \in Rider, NEW p \in Places,
               LoopDials(r, p) \/ LoopStops(r, p) \/ LoopOpens(r, p) \/ LoopFails(r, p)
        PROVE  hostUp' => hostUp
    BY <2>4 DEF LoopDials, LoopStops, LoopOpens, LoopFails
  <2> QED BY <2>1, <2>2, <2>3, <2>4 DEF LinkNext
<1> SUFFICES ASSUME hostUp'
             PROVE  /\ \A r \in Rider : \A i \in DOMAIN mail'[r] : mail'[r][i].kind # "hangup"
                    /\ \A r \in Rider : app'[r].riding => ~app'[r].stopping
  BY DEF HangupsAreLast
<1>2. /\ \A r \in Rider : \A i \in DOMAIN mail[r] : mail[r][i].kind # "hangup"
      /\ \A r \in Rider : app[r].riding => ~app[r].stopping
  BY <1>1 DEF HangupsAreLast
<1>3. ~HostStops
  BY DEF HostStops
<1>4. ASSUME NEW r \in Rider, NEW i \in DOMAIN mail'[r]
      PROVE  mail'[r][i].kind # "hangup"
  <2>1. CASE mail'[r] = mail[r]
    BY <1>2, <2>1
  <2>2. CASE \E q \in Rider : PassengerSignal(q) \/ Leave(q)
    <3>1. PICK q \in Rider : PassengerSignal(q) \/ Leave(q)
      BY <2>2
    <3>2. mail[q] \in Seq(ToRider)
      BY DEF LinkInv
    <3>3. CASE PassengerSignal(q)
      <4>1. mail[q] # <<>> /\ mail' = [mail EXCEPT ![q] = Tail(mail[q])]
        BY <3>3 DEF PassengerSignal
      <4>2. CASE r # q
        BY <4>1, <4>2, <2>1 DEF LinkInv
      <4>3. CASE r = q
        <5>1. mail'[r] = Tail(mail[r])
          BY <4>1, <4>3 DEF LinkInv
        <5>2. i + 1 \in DOMAIN mail[r] /\ Tail(mail[r])[i] = mail[r][i + 1]
          <6>1. mail[r] \in Seq(ToRider) /\ mail[r] # <<>> /\ i \in DOMAIN Tail(mail[r])
            BY <3>2, <4>1, <4>3, <5>1
          <6>2. i \in 1 .. Len(mail[r]) - 1 /\ Len(mail[r]) \in Nat
            BY <6>1
          <6> QED BY <6>1, <6>2
        <5> QED BY <5>1, <5>2, <1>2
      <4> QED BY <4>2, <4>3
    <3>4. CASE Leave(q)
      <4>1. mail' = [mail EXCEPT ![q] = <<>>]
        BY <3>4 DEF Leave
      <4>2. CASE r # q
        BY <4>1, <4>2, <2>1 DEF LinkInv
      <4>3. r # q
        BY <4>1 DEF LinkInv
      <4> QED BY <4>2, <4>3
    <3> QED BY <3>1, <3>3, <3>4
  <2>3. CASE HostSignal
    <3> DEFINE message == Head(inbox)
    <3>1. message.from \in Rider
      <4>1. message \in ToHost
        BY <2>3 DEF HostSignal, LinkInv
      <4> QED BY <4>1 DEF ToHost
    <3>2. mail' = mail \/ TakeOffer(message.from, message.of)
      BY <2>3 DEF HostSignal
    <3> HIDE DEF message
    <3>3. CASE TakeOffer(message.from, message.of)
      <4>1. mail' = [mail EXCEPT ![message.from] = Append(@, [kind |-> "answer", dial |-> message.of])]
        <5>1. ~(Cardinality(Sessions \ {message.from}) >= HostLimit)
          <6>1. Cardinality(Sessions \ {message.from}) < HostLimit
            BY <3>1, RoomForEach
          <6>2. Sessions \ {message.from} \subseteq Rider /\ HostLimit \in Nat
            BY LinkAssumption DEF Sessions
          <6>3. Cardinality(Sessions \ {message.from}) \in Nat
            BY <6>2, FS_Subset, FS_CardinalityType DEF RoomForAll
          <6> QED BY <6>1, <6>2, <6>3
        <5> QED BY <3>3, <5>1 DEF TakeOffer
      <4>2. CASE r # message.from
        BY <4>1, <4>2, <3>1, <2>1 DEF LinkInv
      <4>3. CASE r = message.from
        <5>1. /\ mail[r] \in Seq(ToRider)
              /\ mail'[r] = Append(mail[r], [kind |-> "answer", dial |-> message.of])
          BY <4>1, <4>3 DEF LinkInv
        <5>2. \/ i \in DOMAIN mail[r] /\ mail'[r][i] = mail[r][i]
              \/ mail'[r][i] = [kind |-> "answer", dial |-> message.of]
          BY <5>1
        <5> QED BY <5>2, <1>2
      <4> QED BY <4>2, <4>3
    <3> QED BY <3>2, <3>3, <2>1
  <2>4. CASE UNCHANGED mail
    BY <2>4, <2>1
  <2> QED BY <2>2, <2>3, <2>4, <1>3
      DEF LinkNext, StartPassenger, FirstDialOpens, FirstDialFails, PcFails,
          HeartbeatsMissed, Crash, HostNotices, LoseLink, LoopDials, LoopStops, LoopOpens, LoopFails
<1>5. ASSUME NEW r \in Rider
      PROVE  app'[r].riding => ~app'[r].stopping
  <2> DEFINE a == app[r]
  <2>1. CASE app'[r].riding = a.riding /\ app'[r].stopping = a.stopping
    BY <1>2, <2>1
  <2>2. a \in Runtime /\ app \in [Rider -> Runtime]
    BY DEF LinkInv
  <2>3. ASSUME NEW b, NEW q \in Rider, app' = [app EXCEPT ![q] = b],
               \/ b.riding = app[q].riding /\ b.stopping = app[q].stopping
               \/ ~b.riding \/ ~b.stopping
        PROVE  app'[r].riding => ~app'[r].stopping
    <3>1. CASE r = q
      <4>1. app'[r] = b
        BY <2>2, <2>3, <3>1
      <4> QED BY <4>1, <2>3, <2>1, <3>1
    <3>2. CASE r # q
      <4>1. app'[r] = app[r]
        BY <2>2, <2>3, <3>2
      <4> QED BY <4>1, <2>1
    <3> QED BY <3>1, <3>2
  <2> HIDE DEF a
  <2>4. ASSUME NEW q \in Rider,
               \/ StartPassenger(q) \/ FirstDialOpens(q) \/ FirstDialFails(q)
               \/ PcFails(q) \/ HeartbeatsMissed(q) \/ PassengerSignal(q) \/ Leave(q) \/ Crash(q)
               \/ \E p \in Places : LoopDials(q, p) \/ LoopStops(q, p) \/ LoopOpens(q, p) \/ LoopFails(q, p)
        PROVE  app'[r].riding => ~app'[r].stopping
    <3> DEFINE m == app[q]
    <3>1. m \in Runtime /\ app \in [Rider -> Runtime]
      BY DEF LinkInv
    <3>2. CASE StartPassenger(q)
      <4> DEFINE b == [Closed(m) EXCEPT !.role = "passenger", !.riding = TRUE,
                         !.stopping = FALSE, !.state = "connecting", !.rides = @ + 1]
      <4>1. app' = [app EXCEPT ![q] = Dialled(b)]
        BY <3>2 DEF StartPassenger
      <4>2. b \in Runtime /\ ~b.stopping
        <5>1. Closed(m) \in Runtime
          BY <3>1, RuntimeParts
        <5>2. Closed(m).rides + 1 \in Nat
          BY <5>1 DEF Runtime
        <5> QED BY <5>1, <5>2 DEF Runtime
      <4> HIDE DEF b
      <4>3. ~Dialled(b).stopping
        BY <4>2, RuntimeParts
      <4> QED BY <4>1, <4>3, <2>3
    <3>3. CASE FirstDialOpens(q)
      <4> DEFINE b == [m EXCEPT !.state = "connected", !.watch = TRUE]
      <4>1. app' = [app EXCEPT ![q] = b]
        BY <3>1, <3>3 DEF FirstDialOpens
      <4>2. b.riding = m.riding /\ b.stopping = m.stopping
        BY <3>1 DEF Runtime
      <4> HIDE DEF b
      <4> QED BY <4>1, <4>2, <2>3
    <3>4. CASE FirstDialFails(q)
      <4> DEFINE b == [m EXCEPT !.state = "down", !.riding = FALSE]
      <4>1. app' = [app EXCEPT ![q] = b]
        BY <3>1, <3>4 DEF FirstDialFails
      <4>2. ~b.riding
        BY <3>1 DEF Runtime
      <4> HIDE DEF b
      <4> QED BY <4>1, <4>2, <2>3
    <3>5. CASE PcFails(q) \/ HeartbeatsMissed(q)
      <4> DEFINE b == Removed(m)
                 c == [b EXCEPT !.reconnecting = TRUE, !.state = "reconnecting"]
      <4>1. app' = [app EXCEPT ![q] = b] \/ app' = [app EXCEPT ![q] = c]
        BY <3>5 DEF PcFails, HeartbeatsMissed, Schedule
      <4>2. b \in Runtime /\ b.riding = m.riding /\ b.stopping = m.stopping
        BY <3>1, RuntimeParts
      <4> HIDE DEF b
      <4>3. c.riding = m.riding /\ c.stopping = m.stopping
        BY <4>2 DEF Runtime
      <4> HIDE DEF c
      <4> QED BY <4>1, <4>2, <4>3, <2>3
    <3>6. CASE PassengerSignal(q)
      <4> DEFINE message == Head(mail[q])
                 b == [m EXCEPT !.answer = message.dial]
      <4>1. message.kind # "hangup"
        <5>1. mail[q] \in Seq(ToRider) /\ mail[q] # <<>>
          BY <3>6 DEF PassengerSignal, LinkInv
        <5>2. 1 \in DOMAIN mail[q] /\ message = mail[q][1]
          BY <5>1
        <5> QED BY <5>2, <1>2
      <4>2. app' = [app EXCEPT ![q] = m] \/ app' = [app EXCEPT ![q] = b]
        BY <3>6, <4>1 DEF PassengerSignal
      <4>3. b.riding = m.riding /\ b.stopping = m.stopping
        BY <3>1 DEF Runtime
      <4> HIDE DEF b
      <4> QED BY <4>2, <4>3, <2>3
    <3>7. CASE Leave(q)
      <4> DEFINE b == [Closed(m) EXCEPT !.role = "none", !.stopping = TRUE, !.riding = FALSE,
                                        !.state = "connected"]
      <4>1. app' = [app EXCEPT ![q] = b]
        BY <3>7 DEF Leave
      <4>2. ~b.riding
        <5>1. Closed(m) \in Runtime
          BY <3>1, RuntimeParts
        <5> QED BY <5>1 DEF Runtime
      <4> HIDE DEF b
      <4> QED BY <4>1, <4>2, <2>3
    <3>8. CASE Crash(q)
      <4>1. app' = [app EXCEPT ![q] = Fresh(m.dials, m.rides)] /\ ~Fresh(m.dials, m.rides).riding
        BY <3>8 DEF Crash, Fresh
      <4> QED BY <4>1, <2>3
    <3>9. ASSUME NEW p \in Places,
                 LoopDials(q, p) \/ LoopStops(q, p) \/ LoopOpens(q, p) \/ LoopFails(q, p)
          PROVE  app'[r].riding => ~app'[r].stopping
      <4> DEFINE c == [m EXCEPT !.reconnecting = FALSE]
                 d == [[m EXCEPT !.state = "connected"] EXCEPT !.reconnecting = FALSE]
                 e == [m EXCEPT !.state = "down"]
      <4>1. \/ app' = [app EXCEPT ![q] = Dialled(m)]
            \/ app' = [app EXCEPT ![q] = c]
            \/ app' = [app EXCEPT ![q] = d]
            \/ \E state \in {m.state, "down"} : app' = [app EXCEPT ![q].state = state]
        BY <3>9 DEF LoopDials, LoopStops, LoopOpens, LoopFails, LoopEnds
      <4>2. Dialled(m).riding = m.riding /\ Dialled(m).stopping = m.stopping
        BY <3>1, RuntimeParts
      <4>3. /\ c.riding = m.riding /\ c.stopping = m.stopping
            /\ d.riding = m.riding /\ d.stopping = m.stopping
        BY <3>1 DEF Runtime
      <4>4. ASSUME NEW state, app' = [app EXCEPT ![q].state = state]
            PROVE  app'[r].riding => ~app'[r].stopping
        <5> DEFINE b == [m EXCEPT !.state = state]
        <5>1. app' = [app EXCEPT ![q] = b]
          BY <3>1, <4>4
        <5>2. b.riding = m.riding /\ b.stopping = m.stopping
          BY <3>1 DEF Runtime
        <5> HIDE DEF b
        <5> QED BY <5>1, <5>2, <2>3
      <4> HIDE DEF c, d
      <4> QED BY <4>1, <4>2, <4>3, <4>4, <2>3
    <3> QED BY <2>4, <3>2, <3>3, <3>4, <3>5, <3>6, <3>7, <3>8, <3>9
  <2>5. CASE UNCHANGED app
    BY <2>5, <2>1 DEF a
  <2> QED BY <2>4, <2>5, <1>3 DEF LinkNext, HostSignal, HostNotices, LoseLink
<1> QED BY <1>4, <1>5

\* While the host has room for every passenger there may be, no passenger gives up
\* on its ride as long as the car goes on (handleSignal, the hang-up of the owner).
THEOREM RidersGoOn == ASSUME RoomForAll PROVE LinkSpec => []LinkIsRepaired
<1>1. LinkInit => HangupsAreLast
  BY DEF LinkInit, HangupsAreLast, Fresh
<1>2. LinkInv /\ LinkInv' /\ HangupsAreLast /\ [LinkNext]_linkVars => HangupsAreLast'
  <2>1. CASE UNCHANGED linkVars
    BY <2>1 DEF linkVars, HangupsAreLast
  <2> QED BY <2>1, HangupStep
<1>3. HangupsAreLast => RidersKeepTrying
  BY DEF HangupsAreLast, RidersKeepTrying
<1> QED BY <1>1, <1>2, <1>3, LinkInvHolds, RidesAreRepaired, PTL DEF LinkSpec, LinkIsRepaired

\* A runtime within the bounds, and the dials that are waited for, held by the host or
\* answered: the passenger has made them.
Made(a, dial, held, row) ==
  /\ a \in App /\ {dial, held, a.answer} \subseteq 0 .. a.dials
  /\ a.conn = 0 => a.answer = 0
  /\ row \in [Places -> Dials \cup {BackingOff}]

\* So are the dials the signals on their way name.
SignalsMade ==
  /\ \A i \in DOMAIN inbox : inbox[i].kind = "offer" => inbox[i].of <= app[inbox[i].from].dials
  /\ \A r \in Rider : \A i \in DOMAIN mail[r] : mail[r][i].dial <= app[r].dials

LinkTyped ==
  /\ \A r \in Rider : Made(app[r], first[r], session[r], loops[r])
  /\ SignalsMade
  /\ session \in [Rider -> Nat] /\ bound \in [Rider -> 0 .. MaxRides]
  /\ lost \subseteq Rider /\ losses \in 0 .. MaxLosses

\* What the helpers leave of a runtime within the bounds.
LEMMA AppParts ==
  ASSUME NEW a \in App
  PROVE  /\ \A b \in {Removed(a), Closed(a)} : b \in App /\ b.answer = 0 /\ b.dials = a.dials /\ b.rides = a.rides
         /\ a.dials \in Nat /\ a.dials <= MaxDials /\ a.rides \in Nat
         /\ a.dials < MaxDials =>
              LET b == Dialled(a) IN
              b \in App /\ b.conn = a.dials + 1 /\ b.conn # 0 /\ b.answer = 0 /\ b.dials = a.dials + 1
<1>1. a.dials \in Nat /\ a.dials <= MaxDials /\ a.rides \in Nat /\ MaxDials \in Nat
  BY LinkAssumption DEF App, Dials
<1>2. /\ 0 \in Dials
      /\ \A d \in Nat : d < MaxDials => d + 1 \in Dials /\ d + 1 # 0
  BY <1>1 DEF Dials
<1> QED BY <1>1, <1>2 DEF App, Removed, Closed, Dialled

\* One passenger's runtime, first dial and loops change; what it sends names its last dial.
LEMMA OneRiderMade ==
  ASSUME LinkInv, LinkTyped, NEW r \in Rider, NEW a, NEW dial, NEW row,
         Made(a, dial, session[r], row), app[r].dials <= a.dials,
         app' = [app EXCEPT ![r] = a],
         first' = [first EXCEPT ![r] = dial],
         loops' = [loops EXCEPT ![r] = row],
         inbox' \in {inbox, Append(inbox, LeaveOf(r)), Append(inbox, OfferOf(r, a.dials))},
         \/ mail' = mail \/ mail' = [mail EXCEPT ![r] = <<>>]
         \/ mail[r] # <<>> /\ mail' = [mail EXCEPT ![r] = Tail(mail[r])],
         UNCHANGED <<session, losses>>, bound' \in [Rider -> 0 .. MaxRides], lost' \subseteq Rider
  PROVE  LinkTyped'
<1>1. /\ app \in [Rider -> Runtime] /\ first \in [Rider -> Nat] /\ loops \in [Rider -> [Places -> Nat]]
      /\ inbox \in Seq(ToHost) /\ mail \in [Rider -> Seq(ToRider)]
  BY DEF LinkInv
<1>2. app'[r] = a /\ \A q \in Rider : q # r => app'[q] = app[q]
  BY <1>1
<1>3. \A q \in Rider : /\ app[q].dials \in Nat /\ app'[q].dials \in Nat
                       /\ app[q].dials <= app'[q].dials
  <2>1. a.dials \in Nat
    BY DEF Made, App, Dials
  <2>2. \A q \in Rider : app[q].dials \in Nat
    BY <1>1 DEF Runtime
  <2> QED BY <1>2, <2>1, <2>2
<1>4. ASSUME NEW q \in Rider PROVE Made(app'[q], first'[q], session'[q], loops'[q])
  <2>1. CASE q = r
    <3>1. first'[q] = dial /\ loops'[q] = row
      BY <1>1, <2>1
    <3> QED BY <1>2, <2>1, <3>1
  <2>2. CASE q # r
    <3>1. first'[q] = first[q] /\ loops'[q] = loops[q]
      BY <1>1, <2>2
    <3> QED BY <1>2, <2>2, <3>1 DEF LinkTyped
  <2> QED BY <2>1, <2>2
<1>5. ASSUME NEW i \in DOMAIN inbox', inbox'[i].kind = "offer"
      PROVE  inbox'[i].of <= app'[inbox'[i].from].dials
  <2>1. \A k \in DOMAIN inbox : inbox[k] \in ToHost /\ inbox[k].from \in Rider /\ inbox[k].of \in Nat
    <3>1. \A k \in DOMAIN inbox : inbox[k] \in ToHost
      BY <1>1
    <3> QED BY <3>1 DEF ToHost
  <2>2. \A k \in DOMAIN inbox : inbox[k].kind = "offer" => inbox[k].of <= app'[inbox[k].from].dials
    <3>1. \A k \in DOMAIN inbox : inbox[k].kind = "offer" => inbox[k].of <= app[inbox[k].from].dials
      BY DEF LinkTyped, SignalsMade
    <3> QED BY <1>3, <2>1, <3>1
  <2>3. CASE inbox' = inbox
    BY <1>5, <2>2, <2>3
  <2>4. ASSUME NEW m, inbox' = Append(inbox, m), m.kind = "offer" => m.of <= app'[m.from].dials
        PROVE  inbox'[i].of <= app'[inbox'[i].from].dials
    <3>1. inbox'[i] = m \/ (i \in DOMAIN inbox /\ inbox'[i] = inbox[i])
      <4> DEFINE S == ToHost \cup {m}
      <4>1. inbox \in Seq(S) /\ m \in S
        BY <1>1
      <4> HIDE DEF S
      <4>2. \A k \in DOMAIN Append(inbox, m) :
              Append(inbox, m)[k] = m \/ (k \in DOMAIN inbox /\ Append(inbox, m)[k] = inbox[k])
        BY <4>1, Queues
      <4> QED BY <1>5, <2>4, <4>2
    <3> QED BY <1>5, <2>2, <2>4, <3>1
  <2>5. LeaveOf(r).kind # "offer"
    BY DEF LeaveOf
  <2>6. OfferOf(r, a.dials).of = a.dials /\ OfferOf(r, a.dials).from = r
    BY DEF OfferOf
  <2>7. a.dials <= app'[r].dials
    BY <1>2, <1>3
  <2> QED BY <2>3, <2>4, <2>5, <2>6, <2>7
<1>6. ASSUME NEW q \in Rider, NEW i \in DOMAIN mail'[q]
      PROVE  mail'[q][i].dial <= app'[q].dials
  <2>1. \A k \in DOMAIN mail[q] : mail[q][k].dial \in Nat /\ mail[q][k].dial <= app'[q].dials
    <3>1. \A k \in DOMAIN mail[q] : mail[q][k].dial <= app[q].dials
      BY DEF LinkTyped, SignalsMade
    <3>2. \A k \in DOMAIN mail[q] : mail[q][k].dial \in Nat
      <4>1. \A k \in DOMAIN mail[q] : mail[q][k] \in ToRider
        BY <1>1
      <4> QED BY <4>1 DEF ToRider
    <3> QED BY <1>3, <3>1, <3>2
  <2>2. \E k \in DOMAIN mail[q] : mail'[q][i] = mail[q][k]
    <3>1. CASE mail'[q] = mail[q]
      BY <3>1
    <3>2. CASE q = r /\ mail[r] # <<>> /\ mail'[q] = Tail(mail[r])
      <4>1. i + 1 \in DOMAIN mail[q] /\ mail'[q][i] = mail[q][i + 1]
        BY <1>1, <3>2
      <4> QED BY <4>1
    <3>3. CASE mail'[q] = <<>>
      BY <3>3
    <3> QED BY <1>1, <3>1, <3>2, <3>3
  <2> QED BY <2>1, <2>2
<1>7. session' \in [Rider -> Nat] /\ losses' \in 0 .. MaxLosses
  BY DEF LinkTyped
<1> QED BY <1>4, <1>5, <1>6, <1>7 DEF LinkTyped, SignalsMade

\* What each of a passenger's steps does to its runtime.
LEMMA RidesStayMade ==
  ASSUME LinkInv, LinkTyped, NEW r \in Rider,
         StartPassenger(r) \/ FirstDialOpens(r) \/ FirstDialFails(r) \/ PcFails(r) \/ HeartbeatsMissed(r)
  PROVE  LinkTyped'
<1> DEFINE a == app[r]
<1>1. /\ a \in App /\ Made(a, first[r], session[r], loops[r]) /\ a.dials \in Nat
      /\ loops = [loops EXCEPT ![r] = loops[r]] /\ first = [first EXCEPT ![r] = first[r]]
      /\ bound \in [Rider -> 0 .. MaxRides] /\ lost \subseteq Rider
  BY DEF LinkInv, LinkTyped, Made, App, Dials
<1>2. CASE StartPassenger(r)
  <2> DEFINE b == [Closed(a) EXCEPT !.role = "passenger", !.riding = TRUE,
                      !.stopping = FALSE, !.state = "connecting", !.rides = @ + 1]
             c == Dialled(b)
  <2>1. /\ app' = [app EXCEPT ![r] = c] /\ first' = [first EXCEPT ![r] = a.dials + 1]
        /\ UNCHANGED <<loops, mail, session, losses>>
        /\ inbox' = Append(inbox, OfferOf(r, a.dials + 1))
        /\ bound' = [bound EXCEPT ![r] = a.rides + 1] /\ lost' = lost \ {r}
        /\ a.rides < MaxRides /\ a.dials < MaxDials
    BY <1>2 DEF StartPassenger
  <2>2. a.rides + 1 \in 0 .. MaxRides /\ a.rides \in Nat
    BY <1>1, <2>1, LinkAssumption DEF App
  <2>3. b \in App /\ b.dials = a.dials
    <3>1. Closed(a) \in App /\ Closed(a).dials = a.dials /\ Closed(a).rides = a.rides
      BY <1>1, AppParts
    <3> QED BY <2>2, <3>1 DEF App
  <2> HIDE DEF b
  <2>4. c \in App /\ c.conn # 0 /\ c.answer = 0 /\ c.dials = a.dials + 1
    BY <2>1, <2>3, AppParts
  <2> HIDE DEF a, c
  <2>5. Made(c, a.dials + 1, session[r], loops[r]) /\ a.dials <= c.dials
    BY <1>1, <2>4 DEF Made
  <2>6. app[r].dials <= c.dials /\ OfferOf(r, a.dials + 1) = OfferOf(r, c.dials)
    BY <2>4, <2>5 DEF a
  <2> QED BY <1>1, <2>1, <2>2, <2>5, <2>6, OneRiderMade
<1>3. CASE FirstDialOpens(r) \/ FirstDialFails(r)
  <2> DEFINE b == [a EXCEPT !.state = "connected", !.watch = TRUE]
             c == [a EXCEPT !.state = "down", !.riding = FALSE]
  <2>1. /\ app' = [app EXCEPT ![r] = b] \/ app' = [app EXCEPT ![r] = c]
        /\ first' = [first EXCEPT ![r] = 0] /\ UNCHANGED <<loops, mail, session, losses, bound, lost>>
        /\ inbox' \in {inbox, Append(inbox, LeaveOf(r))}
    BY <1>3 DEF FirstDialOpens, FirstDialFails, LinkInv
  <2>2. \A d \in {b, c} : d \in App /\ d.conn = a.conn /\ d.answer = a.answer /\ d.dials = a.dials
    BY <1>1 DEF App
  <2> HIDE DEF a, b, c
  <2>3. \A d \in {b, c} : Made(d, 0, session[r], loops[r]) /\ a.dials <= d.dials
    BY <1>1, <2>2 DEF Made
  <2>4. \A d \in {b, c} : app[r].dials <= d.dials
    BY <2>3 DEF a
  <2> QED BY <1>1, <2>1, <2>3, <2>4, OneRiderMade
<1>4. CASE PcFails(r) \/ HeartbeatsMissed(r)
  <2> DEFINE b == Removed(a)
             c == [b EXCEPT !.reconnecting = TRUE, !.state = "reconnecting"]
  <2>1. /\ Schedule(r, b) /\ UNCHANGED <<first, mail, inbox, session, losses, bound>> /\ lost' = lost \ {r}
    BY <1>4 DEF PcFails, HeartbeatsMissed
  <2>2. \A d \in {b, c} : d \in App /\ d.answer = 0 /\ d.dials = a.dials
    <3>1. b \in App /\ b.answer = 0 /\ b.dials = a.dials
      BY <1>1, AppParts
    <3> HIDE DEF b
    <3> QED BY <3>1 DEF App
  <2>3. PICK row \in [Places -> Dials \cup {BackingOff}], d \in {b, c} :
          loops' = [loops EXCEPT ![r] = row] /\ app' = [app EXCEPT ![r] = d]
    <3>1. CASE MaySchedule(b)
      <4>1. PICK p \in Places : loops' = [loops EXCEPT ![r][p] = BackingOff] /\ app' = [app EXCEPT ![r] = c]
        BY <2>1, <3>1 DEF Schedule
      <4> DEFINE row == [loops[r] EXCEPT ![p] = BackingOff]
      <4>2. loops' = [loops EXCEPT ![r] = row]
        BY <4>1 DEF LinkInv
      <4> HIDE DEF a, b, c
      <4>3. row \in [Places -> Dials \cup {BackingOff}]
        BY <1>1 DEF Made
      <4> QED BY <4>1, <4>2, <4>3
    <3>2. CASE ~MaySchedule(b)
      <4>1. loops' = [loops EXCEPT ![r] = loops[r]] /\ app' = [app EXCEPT ![r] = b]
        BY <1>1, <2>1, <3>2 DEF Schedule
      <4> QED BY <1>1, <4>1 DEF Made
    <3> QED BY <3>1, <3>2
  <2> HIDE DEF a, b, c
  <2>4. Made(d, first[r], session[r], row) /\ a.dials <= d.dials
    BY <1>1, <2>2 DEF Made
  <2>5. app[r].dials <= d.dials /\ lost' \subseteq Rider
    BY <1>1, <2>1, <2>4 DEF a
  <2> QED BY <1>1, <2>1, <2>3, <2>4, <2>5, OneRiderMade
<1> QED BY <1>2, <1>3, <1>4

\* What a reconnect loop does keeps its dial one that was made.
LEMMA LoopsStayMade ==
  ASSUME LinkInv, LinkTyped, NEW r \in Rider, NEW p \in Places,
         LoopDials(r, p) \/ LoopStops(r, p) \/ LoopOpens(r, p) \/ LoopFails(r, p)
  PROVE  LinkTyped'
<1> DEFINE a == app[r]
<1>1. /\ a \in App /\ Made(a, first[r], session[r], loops[r]) /\ a.dials \in Nat /\ a.dials \in Dials
      /\ loops = [loops EXCEPT ![r] = loops[r]] /\ first = [first EXCEPT ![r] = first[r]]
      /\ bound \in [Rider -> 0 .. MaxRides] /\ lost \subseteq Rider
  BY DEF LinkInv, LinkTyped, Made, App, Dials
<1>2. CASE LoopDials(r, p)
  <2> DEFINE c == Dialled(a)
             dial == a.dials + 1
             row == [loops[r] EXCEPT ![p] = dial]
  <2>1. /\ app' = [app EXCEPT ![r] = c] /\ UNCHANGED <<first, mail, session, losses, bound>>
        /\ lost' = lost \ {r} /\ a.dials < MaxDials
        /\ \/ loops' = [loops EXCEPT ![r] = row] /\ inbox' = Append(inbox, OfferOf(r, dial))
           \/ UNCHANGED <<loops, inbox>>
    BY <1>2 DEF LoopDials, LinkInv
  <2>2. c \in App /\ c.conn # 0 /\ c.answer = 0 /\ c.dials = dial
    BY <1>1, <2>1, AppParts
  <2>3. dial \in Dials
    BY <1>1, <2>1, LinkAssumption DEF Dials
  <2> HIDE DEF c
  <2>4. Made(c, first[r], session[r], loops[r]) /\ Made(c, first[r], session[r], row) /\ a.dials <= c.dials
    <3> HIDE DEF a
    <3> QED BY <1>1, <2>2, <2>3 DEF Made
  <2> HIDE DEF row
  <2>5. app[r].dials <= c.dials /\ OfferOf(r, dial) = OfferOf(r, c.dials) /\ lost' \subseteq Rider
    BY <1>1, <2>1, <2>2, <2>4
  <2> HIDE DEF a, dial
  <2>6. CASE loops' = [loops EXCEPT ![r] = row] /\ inbox' = Append(inbox, OfferOf(r, dial))
    BY <1>1, <2>1, <2>4, <2>5, <2>6, OneRiderMade
  <2>7. CASE UNCHANGED <<loops, inbox>>
    BY <1>1, <2>1, <2>4, <2>5, <2>7, OneRiderMade
  <2> QED BY <2>1, <2>6, <2>7
<1>3. CASE LoopStops(r, p) \/ LoopOpens(r, p) \/ LoopFails(r, p)
  <2>1. UNCHANGED <<first, inbox, mail, session, losses, bound, lost>>
    BY <1>3 DEF LoopStops, LoopOpens, LoopFails
  <2>2. PICK state \in {"connected", "reconnecting", "connecting", "down"}, flag \in BOOLEAN, v \in {Off, BackingOff} :
          /\ app' = [app EXCEPT ![r] = [a EXCEPT !.state = state, !.reconnecting = flag]]
          /\ loops' = [loops EXCEPT ![r][p] = v]
    <3>1. a = [a EXCEPT !.state = a.state] /\ a.state \in {"connected", "reconnecting", "connecting", "down"}
          /\ a.reconnecting \in BOOLEAN
      BY <1>1 DEF App
    <3>2. CASE LoopStops(r, p) \/ (LoopFails(r, p) /\ LoopEnds(r, p, a))
      <4>1. LoopEnds(r, p, a)
        BY <3>2 DEF LoopStops
      <4>2. app' = [app EXCEPT ![r] = [a EXCEPT !.state = a.state, !.reconnecting = FALSE]]
        BY <3>1, <4>1 DEF LoopEnds
      <4> HIDE DEF a
      <4> QED BY <3>1, <4>1, <4>2 DEF LoopEnds
    <3>3. CASE LoopOpens(r, p)
      <4>1. app' = [app EXCEPT ![r] = [a EXCEPT !.state = "connected", !.reconnecting = FALSE]]
            /\ loops' = [loops EXCEPT ![r][p] = Off]
        BY <3>3 DEF LoopOpens, LoopEnds
      <4> HIDE DEF a
      <4> QED BY <4>1
    <3>4. CASE LoopFails(r, p) /\ ~LoopEnds(r, p, a)
      <4>1. PICK state \in {a.state, "down"} : app' = [app EXCEPT ![r].state = state]
        BY <3>4 DEF LoopFails
      <4>2. [a EXCEPT !.state = state] = [a EXCEPT !.state = state, !.reconnecting = a.reconnecting]
        BY <1>1 DEF App
      <4>3. app' = [app EXCEPT ![r] = [a EXCEPT !.state = state, !.reconnecting = a.reconnecting]]
            /\ loops' = [loops EXCEPT ![r][p] = BackingOff]
        BY <3>4, <4>1, <4>2 DEF LoopFails
      <4> HIDE DEF a
      <4> QED BY <3>1, <4>1, <4>3
    <3> QED BY <1>3, <3>2, <3>3, <3>4
  <2> DEFINE b == [a EXCEPT !.state = state, !.reconnecting = flag]
             row == [loops[r] EXCEPT ![p] = v]
  <2>3. b \in App /\ b.conn = a.conn /\ b.answer = a.answer /\ b.dials = a.dials
    BY <1>1 DEF App
  <2>4. loops' = [loops EXCEPT ![r] = row] /\ app' = [app EXCEPT ![r] = b]
    BY <2>2 DEF LinkInv
  <2>5. Off \in Dials
    BY LinkAssumption DEF Off, Dials
  <2> HIDE DEF b
  <2>6. Made(b, first[r], session[r], row) /\ a.dials <= b.dials
    <3> HIDE DEF a
    <3> QED BY <1>1, <2>3, <2>5 DEF Made
  <2> HIDE DEF row
  <2>7. app[r].dials <= b.dials
    BY <2>6
  <2> HIDE DEF a
  <2> QED BY <1>1, <2>1, <2>4, <2>6, <2>7, OneRiderMade
<1> QED BY <1>2, <1>3

\* A signal that is applied names a dial of this passenger.
LEMMA EndsStayMade ==
  ASSUME LinkInv, LinkTyped, NEW r \in Rider, PassengerSignal(r) \/ Leave(r) \/ Crash(r)
  PROVE  LinkTyped'
<1> DEFINE a == app[r]
<1>1. /\ a \in App /\ Made(a, first[r], session[r], loops[r]) /\ a.dials \in Nat /\ a.dials \in Dials
      /\ loops = [loops EXCEPT ![r] = loops[r]] /\ first = [first EXCEPT ![r] = first[r]]
      /\ bound \in [Rider -> 0 .. MaxRides] /\ lost \subseteq Rider
  BY DEF LinkInv, LinkTyped, Made, App, Dials
<1>2. CASE PassengerSignal(r)
  <2> DEFINE message == Head(mail[r])
             b == [Removed(a) EXCEPT !.stopping = TRUE, !.state = "down"]
             c == [a EXCEPT !.answer = message.dial]
  <2>1. /\ mail[r] # <<>> /\ UNCHANGED <<first, loops, inbox, session, losses, bound, lost>>
        /\ mail' = [mail EXCEPT ![r] = Tail(mail[r])]
        /\ \/ app' = [app EXCEPT ![r] = b]
           \/ a.conn # 0 /\ app' = [app EXCEPT ![r] = c]
           \/ app' = [app EXCEPT ![r] = a]
    BY <1>2 DEF PassengerSignal, LinkInv
  <2>2. message.dial \in 0 .. a.dials
    <3>1. mail[r] \in Seq(ToRider)
      BY DEF LinkInv
    <3>2. 1 \in DOMAIN mail[r] /\ message = mail[r][1] /\ message \in ToRider
      BY <2>1, <3>1
    <3>3. message.dial <= a.dials
      BY <3>2 DEF LinkTyped, SignalsMade
    <3>4. message.dial \in Nat
      BY <3>2 DEF ToRider
    <3> QED BY <1>1, <3>3, <3>4
  <2>3. b \in App /\ b.answer = 0 /\ b.dials = a.dials
    <3>1. Removed(a) \in App /\ Removed(a).answer = 0 /\ Removed(a).dials = a.dials
      BY <1>1, AppParts
    <3> QED BY <3>1 DEF App
  <2>4. c \in App /\ c.answer \in 0 .. a.dials /\ c.conn = a.conn /\ c.dials = a.dials
    <3>1. message.dial \in Dials
      <4>1. MaxDials \in Nat /\ a.dials <= MaxDials
        BY <1>1, AppParts, LinkAssumption
      <4> HIDE DEF a, message
      <4> QED BY <1>1, <2>2, <4>1 DEF Dials
    <3> QED BY <1>1, <2>2, <3>1 DEF App
  <2> HIDE DEF a, b, c, message
  <2>5. /\ Made(a, first[r], session[r], loops[r]) /\ a.dials <= a.dials
        /\ Made(b, first[r], session[r], loops[r]) /\ a.dials <= b.dials
        /\ a.conn # 0 => Made(c, first[r], session[r], loops[r]) /\ a.dials <= c.dials
    BY <1>1, <2>3, <2>4 DEF Made
  <2>6. app[r] = a
    BY DEF a
  <2>7. app[r].dials <= a.dials /\ app[r].dials <= b.dials /\ (a.conn # 0 => app[r].dials <= c.dials)
    BY <2>5, <2>6
  <2>8. CASE app' = [app EXCEPT ![r] = b]
    BY <1>1, <2>1, <2>5, <2>7, <2>8, OneRiderMade
  <2>9. CASE a.conn # 0 /\ app' = [app EXCEPT ![r] = c]
    BY <1>1, <2>1, <2>5, <2>7, <2>9, OneRiderMade
  <2>10. CASE app' = [app EXCEPT ![r] = a]
    BY <1>1, <2>1, <2>5, <2>7, <2>10, OneRiderMade
  <2> QED BY <2>1, <2>8, <2>9, <2>10
<1>3. CASE Leave(r)
  <2> DEFINE b == [Closed(a) EXCEPT !.role = "none", !.stopping = TRUE, !.riding = FALSE,
                                    !.state = "connected"]
  <2>1. /\ app' = [app EXCEPT ![r] = b] /\ UNCHANGED <<first, loops, session, losses, bound>>
        /\ inbox' = Append(inbox, LeaveOf(r)) /\ mail' = [mail EXCEPT ![r] = <<>>] /\ lost' \subseteq Rider
    BY <1>1, <1>3 DEF Leave
  <2>2. b \in App /\ b.answer = 0 /\ b.dials = a.dials
    <3>1. Closed(a) \in App /\ Closed(a).answer = 0 /\ Closed(a).dials = a.dials
      BY <1>1, AppParts
    <3> QED BY <3>1 DEF App
  <2> HIDE DEF a, b
  <2>3. Made(b, first[r], session[r], loops[r]) /\ a.dials <= b.dials
    BY <1>1, <2>2 DEF Made
  <2>4. app[r].dials <= b.dials
    BY <2>3 DEF a
  <2> QED BY <1>1, <2>1, <2>3, <2>4, OneRiderMade
<1>4. CASE Crash(r)
  <2> DEFINE b == Fresh(a.dials, a.rides)
             row == [p \in Places |-> Off]
  <2>1. /\ app' = [app EXCEPT ![r] = b] /\ first' = [first EXCEPT ![r] = 0]
        /\ loops' = [loops EXCEPT ![r] = row] /\ UNCHANGED <<inbox, mail, session, losses, bound>>
        /\ lost' \subseteq Rider
    BY <1>1, <1>4 DEF Crash
  <2>2. 0 \in Dials /\ Off = 0
    BY LinkAssumption DEF Dials, Off
  <2>3. b \in App /\ b.answer = 0 /\ b.dials = a.dials
    BY <1>1, <2>2 DEF Fresh, App
  <2>4. row \in [Places -> Dials \cup {BackingOff}]
    BY <2>2
  <2> HIDE DEF a, b, row
  <2>5. Made(b, 0, session[r], row) /\ a.dials <= b.dials
    BY <1>1, <2>3, <2>4 DEF Made
  <2>6. app[r].dials <= b.dials
    BY <2>5 DEF a
  <2> QED BY <1>1, <2>1, <2>5, <2>6, OneRiderMade
<1> QED BY <1>2, <1>3, <1>4

\* The host holds and answers a dial that the offer names, or none.
LEMMA HostKeepsMade ==
  ASSUME LinkInv, LinkTyped,
         HostSignal \/ HostStops \/ \E r \in Rider : HostNotices(r) \/ LoseLink(r)
  PROVE  LinkTyped'
<1>1. /\ UNCHANGED <<app, first, loops>>
      /\ inbox \in Seq(ToHost) /\ mail \in [Rider -> Seq(ToRider)] /\ session \in [Rider -> Nat]
      /\ bound \in [Rider -> 0 .. MaxRides] /\ lost \subseteq Rider /\ losses \in 0 .. MaxLosses
  BY DEF HostSignal, HostStops, HostNotices, LoseLink, LinkInv, LinkTyped
<1>2. \A r \in Rider : app[r].dials \in Nat /\ Made(app[r], first[r], session[r], loops[r])
  BY DEF LinkInv, LinkTyped, Runtime
<1>3. \A r \in Rider : \A h \in 0 .. app[r].dials : Made(app[r], first[r], h, loops[r])
  BY <1>2 DEF Made
<1> DEFINE Said(m, r) == m.dial \in 0 .. app[r].dials
<1>4. SUFFICES ASSUME TRUE
      PROVE  /\ session' \in [Rider -> Nat] /\ \A r \in Rider : session'[r] \in {session[r]} \cup 0 .. app[r].dials
             /\ inbox' = inbox \/ (inbox # <<>> /\ inbox' = Tail(inbox))
             /\ \A r \in Rider : \/ mail'[r] = mail[r]
                                 \/ \E m \in ToRider : Said(m, r) /\ mail'[r] = Append(mail[r], m)
             /\ bound' \in [Rider -> 0 .. MaxRides] /\ lost' \subseteq Rider /\ losses' \in 0 .. MaxLosses
  <2>1. \A r \in Rider : Made(app'[r], first'[r], session'[r], loops'[r])
    BY <1>1, <1>2, <1>3, <1>4
  <2>2. ASSUME NEW i \in DOMAIN inbox', inbox'[i].kind = "offer"
        PROVE  inbox'[i].of <= app'[inbox'[i].from].dials
    <3>1. \E k \in DOMAIN inbox : inbox'[i] = inbox[k]
      <4>1. CASE inbox' = inbox
        BY <2>2, <4>1
      <4>2. CASE inbox # <<>> /\ inbox' = Tail(inbox)
        <5>1. i + 1 \in DOMAIN inbox /\ inbox'[i] = inbox[i + 1]
          BY <1>1, <2>2, <4>2
        <5> QED BY <5>1
      <4> QED BY <1>4, <4>1, <4>2
    <3> QED BY <1>1, <2>2, <3>1 DEF LinkTyped, SignalsMade
  <2>3. ASSUME NEW r \in Rider, NEW i \in DOMAIN mail'[r]
        PROVE  mail'[r][i].dial <= app'[r].dials
    <3>1. \A k \in DOMAIN mail[r] : mail[r][k].dial <= app[r].dials
      BY DEF LinkTyped, SignalsMade
    <3>2. CASE mail'[r] = mail[r]
      BY <1>1, <2>3, <3>1, <3>2
    <3>3. ASSUME NEW m \in ToRider, Said(m, r), mail'[r] = Append(mail[r], m)
          PROVE  mail'[r][i].dial <= app'[r].dials
      <4>1. mail'[r][i] = m \/ (i \in DOMAIN mail[r] /\ mail'[r][i] = mail[r][i])
        <5>1. mail[r] \in Seq(ToRider)
          BY <1>1
        <5> QED BY <2>3, <3>3, <5>1, Queues
      <4>2. m.dial <= app[r].dials
        BY <1>2, <3>3
      <4> QED BY <1>1, <3>1, <4>1, <4>2
    <3> HIDE DEF Said
    <3> QED BY <1>4, <3>2, <3>3
  <2> HIDE DEF Said
  <2> QED BY <1>1, <1>4, <2>1, <2>2, <2>3 DEF LinkTyped, SignalsMade
<1>5. CASE HostSignal
  <2> DEFINE message == Head(inbox)
             q == message.from
  <2>1. /\ inbox # <<>> /\ inbox' = Tail(inbox) /\ UNCHANGED <<lost, losses>>
        /\ message \in ToHost /\ message = inbox[1] /\ 1 \in DOMAIN inbox
    BY <1>1, <1>5 DEF HostSignal
  <2>2. q \in Rider /\ message.of \in Nat /\ (message.kind = "offer" => message.of <= app[q].dials)
    <3>1. message.kind = "offer" => message.of <= app[message.from].dials
      BY <2>1 DEF LinkTyped, SignalsMade
    <3> QED BY <2>1, <3>1 DEF ToHost
  <2>3. CASE /\ message.kind = "offer" /\ TakeOffer(q, message.of) /\ UNCHANGED bound
    <3> DEFINE no == [kind |-> "hangup", dial |-> 0]
               yes == [kind |-> "answer", dial |-> message.of]
    <3>1. /\ \E h \in {0, message.of} : session' = [session EXCEPT ![q] = h]
          /\ \E m \in {no, yes} : mail' = [mail EXCEPT ![q] = Append(@, m)]
      BY <2>3 DEF TakeOffer
    <3>2. 0 \in 0 .. app[q].dials /\ message.of \in 0 .. app[q].dials
      BY <1>2, <2>2, <2>3
    <3>3. \A m \in {no, yes} : m \in ToRider /\ Said(m, q)
      BY <2>2, <3>2 DEF ToRider
    <3> HIDE DEF no, yes, message, Said
    <3>4. session' \in [Rider -> Nat] /\ \A r \in Rider : session'[r] \in {session[r]} \cup 0 .. app[r].dials
      BY <1>1, <2>2, <3>1, <3>2
    <3>5. \A r \in Rider : \/ mail'[r] = mail[r]
                           \/ \E m \in ToRider : Said(m, r) /\ mail'[r] = Append(mail[r], m)
      BY <1>1, <2>2, <3>1, <3>3
    <3> QED BY <1>1, <2>1, <2>3, <3>4, <3>5
  <2>4. CASE /\ bound' \in {bound, [bound EXCEPT ![q] = IF @ = message.of THEN 0 ELSE @]}
             /\ UNCHANGED <<session, mail>>
    <3>1. 0 \in 0 .. MaxRides
      BY LinkAssumption
    <3> HIDE DEF message
    <3>2. bound' \in [Rider -> 0 .. MaxRides]
      BY <1>1, <2>4, <3>1
    <3> QED BY <1>1, <2>1, <2>4, <3>2
  <2> QED BY <1>5, <2>3, <2>4 DEF HostSignal
<1>6. CASE HostStops
  <2> DEFINE no == [kind |-> "hangup", dial |-> 0]
  <2>1. /\ mail' = [r \in Rider |-> IF r \in Sessions \cap Bound THEN Append(mail[r], no) ELSE mail[r]]
        /\ session' = [r \in Rider |-> 0] /\ bound' = [r \in Rider |-> 0] /\ UNCHANGED <<inbox, lost, losses>>
    BY <1>6 DEF HostStops
  <2>2. \A r \in Rider : 0 \in 0 .. app[r].dials /\ no \in ToRider /\ Said(no, r)
    BY <1>2 DEF ToRider
  <2>3. 0 \in 0 .. MaxRides
    BY LinkAssumption
  <2> HIDE DEF no, Said
  <2> QED BY <1>1, <2>1, <2>2, <2>3
<1>7. ASSUME NEW r \in Rider, HostNotices(r)
      PROVE  /\ session' = [session EXCEPT ![r] = 0] /\ UNCHANGED <<inbox, mail, bound, lost, losses>>
  BY <1>7 DEF HostNotices
<1>8. ASSUME NEW r \in Rider, LoseLink(r)
      PROVE  /\ losses' \in 0 .. MaxLosses /\ lost' \subseteq Rider /\ UNCHANGED <<session, inbox, mail, bound>>
  BY <1>1, <1>8, LinkAssumption DEF LoseLink
<1> HIDE DEF Said
<1>9. ASSUME NEW r \in Rider, session' = [session EXCEPT ![r] = 0]
      PROVE  session' \in [Rider -> Nat] /\ \A q \in Rider : session'[q] \in {session[q]} \cup 0 .. app[q].dials
  BY <1>1, <1>2, <1>9
<1> QED BY <1>1, <1>5, <1>6, <1>7, <1>8, <1>9

\* The link's types: a dial the host or an answer names is one the passenger has made.
LEMMA LinkStaysTyped == LinkSpec => []LinkTypeOK
<1>1. LinkInit => LinkTyped
  <2> SUFFICES ASSUME LinkInit PROVE LinkTyped
    OBVIOUS
  <2> DEFINE row == [p \in Places |-> Off]
  <2>1. 0 \in Dials /\ Off = 0 /\ 0 \in 0 .. MaxRides /\ 0 \in 0 .. MaxLosses
    BY LinkAssumption DEF Dials, Off
  <2>2. Fresh(0, 0) \in App /\ Fresh(0, 0).answer = 0 /\ Fresh(0, 0).dials = 0
    BY <2>1 DEF Fresh, App
  <2>3. row \in [Places -> Dials \cup {BackingOff}]
    BY <2>1
  <2> HIDE DEF row
  <2>4. Made(Fresh(0, 0), 0, 0, row)
    BY <2>2, <2>3 DEF Made
  <2>5. \A r \in Rider : Made(app[r], first[r], session[r], loops[r])
    BY <2>4 DEF LinkInit, row
  <2>6. SignalsMade
    BY DEF LinkInit, SignalsMade
  <2> QED BY <2>1, <2>5, <2>6 DEF LinkInit, LinkTyped
<1>2. LinkInv /\ LinkTyped /\ [LinkNext]_linkVars => LinkTyped'
  <2> SUFFICES ASSUME LinkInv, LinkTyped, [LinkNext]_linkVars PROVE LinkTyped'
    OBVIOUS
  <2>1. CASE UNCHANGED linkVars
    BY <2>1 DEF linkVars, LinkTyped, SignalsMade
  <2> QED BY <2>1, RidesStayMade, LoopsStayMade, EndsStayMade, HostKeepsMade DEF LinkNext
<1>3. LinkInv /\ LinkTyped => LinkTypeOK
  BY DEF LinkInv, LinkTyped, Made, LinkTypeOK
<1> QED BY <1>1, <1>2, <1>3, LinkInvHolds, PTL DEF LinkSpec
====
