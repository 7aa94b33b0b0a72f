------------------------------- MODULE Bridge -------------------------------
(***************************************************************************)
(* One model request on its way through the ride: the passenger's local      *)
(* proxy (local_proxy.rs) hands it to the bridge (relay.rs, RelayBridge),     *)
(* the web view sends it over the data channel (trustedWebRtc.ts), the host   *)
(* executes it and emits a stream of events that comes back the same way:     *)
(* Start, the chunks of the answer, End with the digest of the whole, or an   *)
(* Error in the place of any of them.                                         *)
(*                                                                         *)
(* A connection carries its messages in order and is used by one request for  *)
(* all its events; it may be lost with what is on it and be replaced.  What   *)
(* the host does between two events is Routing's; a chunk is its number.      *)
(***************************************************************************)
EXTENDS Naturals, Sequences, FiniteSets, SequencesExt

CONSTANTS
  Ask,          \* requests of the passenger's tools
  Chunks,       \* chunks of every answer
  Room,         \* events a request's channel holds (64 in the code)
  MaxLinks,     \* bound: connections, one after the other
  MaxMishaps    \* bound: lost connections and lost messages

ASSUME BridgeAssumption == {Chunks, Room, MaxLinks, MaxMishaps} \subseteq Nat /\ Room > 0

VARIABLES
  asked,     \* the tool's side of each request
  got,       \* the chunks the tool was given
  pending,   \* requests with a sender in the bridge
  queue,     \* the events in each request's channel
  waiting,   \* requests waiting for the channel to open (pendingBridge)
  link,      \* the connection in use, 0 without one
  links,     \* connections made so far
  up, down,  \* what is on each connection to the host, and back
  told,      \* how many events the host has emitted for each request
  over,      \* the connection a request came over (hostRequests), 0 without
  riding, mishaps

bridgeVars == <<asked, got, pending, queue, waiting, link, links, up, down,
                told, over, riding, mishaps>>

Event(q, kind, n) == [q |-> q, kind |-> kind, n |-> n]

\* The events of a whole answer, in their order.
Story(q) ==
  <<Event(q, "start", 0)>> \o [n \in 1 .. Chunks |-> Event(q, "chunk", n)]
                           \o <<Event(q, "end", Chunks)>>
WholeStory == Chunks + 2
NotTaken == WholeStory + 1

Final == {"whole", "failed", "unsent", "gone"}
Listens(q) == asked[q] \in {"waiting", "streaming"}

BridgeInit ==
  /\ asked = [q \in Ask |-> "new"]
  /\ got = [q \in Ask |-> <<>>]
  /\ pending = {}
  /\ queue = [q \in Ask |-> <<>>]
  /\ waiting = {}
  /\ link = 0
  /\ links = 0
  /\ up = [c \in 1 .. MaxLinks |-> <<>>]
  /\ down = [c \in 1 .. MaxLinks |-> <<>>]
  /\ told = [q \in Ask |-> NotTaken]
  /\ over = [q \in Ask |-> 0]
  /\ riding = TRUE
  /\ mishaps = 0

-----------------------------------------------------------------------------
(***************************************************************************)
(* The bridge                                                               *)
(***************************************************************************)

\* Fault: the bridge queues an event whether or not there is room for it.
SubmitUnbounded(event) ==
  LET q == event.q IN
  \/ /\ q \in pending /\ Listens(q)
     /\ queue' = [queue EXCEPT ![q] = Append(@, event)]
     /\ pending' = IF event.kind \in {"end", "error", "unsent"} THEN pending \ {q} ELSE pending
  \/ ~(q \in pending /\ Listens(q)) /\ UNCHANGED <<pending, queue>>

\* submit_stream_event: a terminal event takes the sender out of the bridge;
\* an event for a receiver that is gone takes it out as well.  A full channel
\* makes the submitter wait.
Submit(event) ==
  LET q == event.q IN
  \/ /\ q \in pending /\ Listens(q) /\ Len(queue[q]) < Room
     /\ queue' = [queue EXCEPT ![q] = Append(@, event)]
     /\ pending' = IF event.kind \in {"end", "error", "unsent"} THEN pending \ {q} ELSE pending
  \/ /\ q \in pending /\ ~Listens(q)
     /\ pending' = pending \ {q}
     /\ UNCHANGED queue
  \/ q \notin pending /\ UNCHANGED <<pending, queue>>

\* handleBridgeRequest: relay_stream registers the sender and the web view
\* sends the request if a connection is open, keeps it for the next one if
\* not, and fails it when no ride is on or its message cannot be sent.
AskFor(q) ==
  /\ asked[q] = "new"
  /\ asked' = [asked EXCEPT ![q] = "waiting"]
  /\ \/ /\ riding /\ link # 0
        /\ up' = [up EXCEPT ![link] = Append(@, q)]
        /\ pending' = pending \cup {q}
        /\ UNCHANGED <<queue, waiting, mishaps>>
     \/ /\ riding /\ link = 0
        /\ waiting' = waiting \cup {q}
        /\ pending' = pending \cup {q}
        /\ UNCHANGED <<queue, up, mishaps>>
     \/ /\ \/ ~riding /\ UNCHANGED mishaps
           \/ riding /\ link # 0 /\ mishaps < MaxMishaps /\ mishaps' = mishaps + 1
        /\ queue' = [queue EXCEPT ![q] = <<Event(q, "unsent", 0)>>]
        /\ UNCHANGED <<pending, waiting, up>>
  /\ UNCHANGED <<got, link, links, down, told, over, riding>>

\* The timer of a waiting request: it is failed if it is still waiting.
FailWaiting(q) ==
  /\ q \in waiting
  /\ waiting' = waiting \ {q}
  /\ Submit(Event(q, "unsent", 0))

BridgeTimesOut(q) ==
  /\ FailWaiting(q)
  /\ UNCHANGED <<asked, got, link, links, up, down, told, over, riding, mishaps>>

\* A connection opens (bindChannel, onopen): what waited for it is sent.
LinkOpens ==
  /\ riding /\ link = 0 /\ links < MaxLinks
  /\ link' = links + 1
  /\ links' = links + 1
  /\ \E order \in SetToSeqs(waiting) : up' = [up EXCEPT ![links + 1] = order]
  /\ waiting' = {}
  /\ UNCHANGED <<asked, got, pending, queue, down, told, over, riding, mishaps>>

\* The connection is lost with a part of what was on it; what had arrived at
\* the other end is still handled there.  The host forgets its requests.
Cut(c) ==
  /\ \E n \in 0 .. Len(up[c]) : up' = [up EXCEPT ![c] = SubSeq(@, 1, n)]
  /\ \E n \in 0 .. Len(down[c]) : down' = [down EXCEPT ![c] = SubSeq(@, 1, n)]
  /\ over' = [q \in Ask |-> IF over[q] = c THEN 0 ELSE over[q]]

LinkLost ==
  /\ link # 0 /\ mishaps < MaxMishaps
  /\ mishaps' = mishaps + 1
  /\ link' = 0
  /\ Cut(link)
  /\ UNCHANGED <<asked, got, pending, queue, waiting, links, told, riding>>

\* stop: the connection is closed and what waited for one is forgotten without
\* a word to its tool, which its own start timeout has to save.
StopRide ==
  /\ riding /\ mishaps < MaxMishaps
  /\ mishaps' = mishaps + 1
  /\ riding' = FALSE
  /\ waiting' = {}
  /\ link' = 0
  /\ IF link # 0 THEN Cut(link) ELSE UNCHANGED <<up, down, over>>
  /\ UNCHANGED <<asked, got, pending, queue, links, told>>

\* The web view handles what a connection brought, one message after the
\* other: the next is not looked at before the bridge has taken this one.
Deliver(c) ==
  /\ down[c] # <<>>
  /\ Submit(Head(down[c]))
  /\ down' = [down EXCEPT ![c] = Tail(@)]
  /\ UNCHANGED <<asked, got, waiting, link, links, up, told, over, riding, mishaps>>

-----------------------------------------------------------------------------
(***************************************************************************)
(* The host                                                                 *)
(***************************************************************************)

\* A request arrives and is started; its events will go over its connection.
HostTakes(c) ==
  LET q == Head(up[c]) IN
  /\ up[c] # <<>>
  /\ up' = [up EXCEPT ![c] = Tail(@)]
  /\ told' = [told EXCEPT ![q] = 0]
  /\ over' = [over EXCEPT ![q] = IF c = link THEN c ELSE 0]
  /\ UNCHANGED <<asked, got, pending, queue, waiting, link, links, down, riding, mishaps>>

\* The host sends an event over the request's connection if it is still there.
\* A send buffer that stays full loses that one event and no other.
Send(q, event) ==
  \/ /\ over[q] # 0
     /\ down' = [down EXCEPT ![over[q]] = Append(@, event)]
     /\ UNCHANGED mishaps
  \/ over[q] = 0 /\ UNCHANGED <<down, mishaps>>
  \/ /\ over[q] # 0 /\ mishaps < MaxMishaps
     /\ mishaps' = mishaps + 1
     /\ UNCHANGED down

\* Fault: an execution that fails emits nothing more.
HostEmitsNoError(q) ==
  /\ told[q] < WholeStory
  /\ \/ /\ Send(q, Story(q)[told[q] + 1])
        /\ told' = [told EXCEPT ![q] = @ + 1]
     \/ /\ told' = [told EXCEPT ![q] = WholeStory]
        /\ UNCHANGED <<down, mishaps>>
  /\ UNCHANGED <<asked, got, pending, queue, waiting, link, links, up, over, riding>>

\* The host's execution emits its next event, or an error that ends it.
HostEmits(q) ==
  /\ told[q] < WholeStory
  /\ \/ /\ Send(q, Story(q)[told[q] + 1])
        /\ told' = [told EXCEPT ![q] = @ + 1]
     \/ /\ Send(q, Event(q, "error", 0))
        /\ told' = [told EXCEPT ![q] = WholeStory]
  /\ UNCHANGED <<asked, got, pending, queue, waiting, link, links, up, over, riding>>

-----------------------------------------------------------------------------
(***************************************************************************)
(* The tool's side: local_proxy.rs                                          *)
(***************************************************************************)

\* What the proxy makes of the next event of a request it waits for.
First(event) ==
  CASE event.kind = "start" -> "streaming"
    [] event.kind = "unsent" -> "unsent"
    [] OTHER -> "failed"

\* Fault: the end of the stream is believed without its digest.
FollowingUnchecked(event, chunks) ==
  CASE event.kind = "chunk" -> "streaming"
    [] event.kind = "end" -> "whole"
    [] OTHER -> "failed"

\* What it makes of an event of a body it streams: the end must bring the
\* digest of the very chunks that came.
Following(event, chunks) ==
  CASE event.kind = "chunk" -> "streaming"
    [] event.kind = "end" /\ chunks = [n \in 1 .. event.n |-> n] -> "whole"
    [] OTHER -> "failed"

ToolReads(q) ==
  LET event == Head(queue[q]) IN
  /\ Listens(q) /\ queue[q] # <<>>
  /\ queue' = [queue EXCEPT ![q] = Tail(@)]
  /\ asked' = [asked EXCEPT ![q] =
       IF @ = "waiting" THEN First(event) ELSE Following(event, got[q])]
  /\ got' = [got EXCEPT ![q] =
       IF asked[q] = "streaming" /\ event.kind = "chunk" THEN Append(@, event.n) ELSE @]
  /\ UNCHANGED <<pending, waiting, link, links, up, down, told, over, riding, mishaps>>

\* No first event came in time.  The sender stays in the bridge.
StartTimesOut(q) ==
  /\ asked[q] = "waiting" /\ queue[q] = <<>>
  /\ asked' = [asked EXCEPT ![q] = "failed"]
  /\ UNCHANGED <<got, pending, queue, waiting, link, links, up, down, told, over, riding, mishaps>>

\* The tool hangs up.
ToolGoes(q) ==
  /\ Listens(q)
  /\ asked' = [asked EXCEPT ![q] = "gone"]
  /\ queue' = [queue EXCEPT ![q] = <<>>]
  /\ UNCHANGED <<got, pending, waiting, link, links, up, down, told, over, riding, mishaps>>

BridgeNext ==
  \/ LinkOpens \/ LinkLost \/ StopRide
  \/ \E c \in 1 .. MaxLinks : Deliver(c) \/ HostTakes(c)
  \/ \E q \in Ask : \/ AskFor(q) \/ BridgeTimesOut(q) \/ HostEmits(q)
                    \/ ToolReads(q) \/ StartTimesOut(q) \/ ToolGoes(q)

\* Timers fire, the event loops run, the host's execution has its own timeouts
\* and a tool that listens reads on.
BridgeFairness ==
  /\ \A c \in 1 .. MaxLinks : WF_bridgeVars(Deliver(c)) /\ WF_bridgeVars(HostTakes(c))
  /\ \A q \in Ask : /\ WF_bridgeVars(BridgeTimesOut(q)) /\ WF_bridgeVars(HostEmits(q))
                    /\ WF_bridgeVars(ToolReads(q)) /\ WF_bridgeVars(StartTimesOut(q))

BridgeSpec == BridgeInit /\ [][BridgeNext]_bridgeVars /\ BridgeFairness

-----------------------------------------------------------------------------
(***************************************************************************)
(* Properties                                                               *)
(***************************************************************************)

\* Types; a channel holds no more than its room, and a request waits for a
\* connection only while there is none.
BridgeTypeOK ==
  /\ asked \in [Ask -> Final \cup {"new", "waiting", "streaming"}]
  /\ \A q \in Ask : Len(queue[q]) <= Room /\ told[q] \in 0 .. NotTaken
  /\ pending \subseteq Ask
  /\ link # 0 => waiting = {}
  /\ mishaps \in 0 .. MaxMishaps

\* A body that ends without an error is the host's whole answer, whatever was
\* lost on the way (RelayHttpBody compares the digest).
BodiesAreWhole ==
  \A q \in Ask : asked[q] = "whole" =>
    got[q] = [n \in 1 .. Chunks |-> n] /\ told[q] = WholeStory

\* Where a request is on the way to the host, and how often it is on its way or
\* was taken.
Wire(q) ==
  UNION {{<<c, i>> : i \in {j \in DOMAIN up[c] : up[c][j] = q}} : c \in 1 .. MaxLinks}
Copies(q) == Cardinality(Wire(q)) + (IF q \in waiting THEN 1 ELSE 0)
                                  + (IF told[q] = NotTaken THEN 0 ELSE 1)

\* A request is executed once at most, and one whose tool was told that it
\* could not be sent is never executed: the tool may repeat it.
SentOnceOrNotAtAll ==
  \A q \in Ask : /\ Copies(q) <= 1
                 /\ asked[q] = "unsent" => Copies(q) = 0

\* Without a loss on the way every request comes to its end: no event is stuck
\* behind the one of another request and no channel stays full.
RequestsEnd ==
  \A q \in Ask : Listens(q) ~> (asked[q] \in Final \/ mishaps > 0)

\* The tool is told the truth: a whole answer is the host's, and a request that is
\* said not to have been sent was not, nor will be.
AnswersAreTrue == BodiesAreWhole /\ SentOnceOrNotAtAll
=============================================================================
