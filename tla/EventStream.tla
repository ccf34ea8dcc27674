---------------------------- MODULE EventStream ----------------------------
(***************************************************************************)
(* Pub/sub of the registry and the SSE streams of the HTTP server, for one *)
(* slug: GET /api/slugs/{slug}/events runs requireSlugOwner, GetEvents,    *)
(* Subscribe, the replay of the history and the loop over the channel,     *)
(* each of the first three in a critical section of its own, against       *)
(* handlers that record, clear and delete and against Cleanup.             *)
(*                                                                         *)
(* A channel is the sequence of hits buffered in it; closing it is         *)
(* membership in "closed".  In Go, sending on a closed channel and closing *)
(* one twice both panic; receiving from a closed one first drains it.      *)
(*                                                                         *)
(* Hits are numbered in the order in which they are recorded.  Heartbeats  *)
(* and the geoip enrichment change no state and are left out.  The slug    *)
(* exists when the model starts and, its id being random, never returns    *)
(* once it is removed.                                                     *)
(***************************************************************************)
EXTENDS Naturals, Sequences, FiniteSets, Functions

CONSTANTS
  Streams,         \* the SSE requests
  ChanCap,         \* capacity of a subscriber's channel (64)
  MaxEvents,       \* limits.max_events_per_slug
  MaxHits          \* bound: requests recorded

ASSUME EventStreamAssumption ==
  /\ IsFiniteSet(Streams)
  /\ ChanCap \in Nat \ {0}
  /\ MaxEvents \in Nat \ {0}
  /\ MaxHits \in Nat

VARIABLES
  present,         \* the slug is in the registry's map
  events,          \* its ring buffer
  subscribers,     \* its subscribers
  hits,            \* requests recorded so far
  chan,            \* what is buffered in each stream's channel
  closed,          \* the channels that are closed
  pc,              \* where each stream handler is
  history,         \* what its GetEvents returned
  sent,            \* the hits written to its client
  told,            \* the clients that received "event: close"
  since,           \* history variable: hits recorded before Subscribe
  lagged           \* history variable: streams for which a hit was dropped

registryVars == <<present, events, subscribers, hits>>
channelVars  == <<chan, closed>>
streamVars   == <<pc, history, sent, told>>
vars == <<registryVars, channelVars, streamVars, since, lagged>>

StreamPC == {"idle", "getEvents", "subscribe", "replay", "live", "unsub",
             "done"}

Hit == 1..MaxHits

TypeOK ==
  /\ present \in BOOLEAN
  /\ events \in Seq(Hit)
  /\ subscribers \subseteq Streams
  /\ hits \in 0..MaxHits
  /\ chan \in [Streams -> Seq(Hit)]
  /\ closed \subseteq Streams
  /\ pc \in [Streams -> StreamPC]
  /\ history \in [Streams -> Seq(Hit)]
  /\ sent \in [Streams -> Seq(Hit)]
  /\ told \subseteq Streams
  /\ since \in [Streams -> 0..MaxHits]
  /\ lagged \subseteq Streams

Init ==
  /\ present = TRUE
  /\ events = <<>>
  /\ subscribers = {}
  /\ hits = 0
  /\ chan = [st \in Streams |-> <<>>]
  /\ closed = {}
  /\ pc = [st \in Streams |-> "idle"]
  /\ history = [st \in Streams |-> <<>>]
  /\ sent = [st \in Streams |-> <<>>]
  /\ told = {}
  /\ since = [st \in Streams |-> 0]
  /\ lagged = {}
-----------------------------------------------------------------------------
(* The registry.                                                           *)

\* recordEvent: the oldest event makes room for the new one.
Push(buffer, hit) ==
  Append(IF Len(buffer) >= MaxEvents THEN Tail(buffer) ELSE buffer, hit)

HasRoom(st) == Len(chan[st]) < ChanCap

\* Mutant: a full channel ends the loop, so nobody else gets the hit either.
RecordStopsAtFull ==
  /\ present
  /\ hits < MaxHits
  /\ hits' = hits + 1
  /\ events' = Push(events, hits')
  /\ chan' = [st \in Streams |->
                IF st \in subscribers /\ \A other \in subscribers : HasRoom(other)
                THEN Append(chan[st], hits') ELSE chan[st]]
  /\ lagged' = lagged \cup {st \in subscribers : ~HasRoom(st)}
  /\ UNCHANGED <<present, subscribers, closed, streamVars, since>>

\* recordEvent offers the hit to every subscriber and waits for none.
Record ==
  /\ present
  /\ hits < MaxHits
  /\ hits' = hits + 1
  /\ events' = Push(events, hits')
  /\ chan' = [st \in Streams |-> IF st \in subscribers /\ HasRoom(st)
                                 THEN Append(chan[st], hits') ELSE chan[st]]
  /\ lagged' = lagged \cup {st \in subscribers : ~HasRoom(st)}
  /\ UNCHANGED <<present, subscribers, closed, streamVars, since>>

ClearEvents ==
  /\ present
  /\ events' = <<>>
  /\ UNCHANGED <<present, subscribers, hits, channelVars, streamVars, since,
                 lagged>>

\* Mutant: the entry is dropped and its channels are forgotten.
RemoveWithoutClosing ==
  /\ present
  /\ present' = FALSE
  /\ events' = <<>>
  /\ subscribers' = {}
  /\ UNCHANGED <<hits, channelVars, streamVars, since, lagged>>

\* DeleteSlug, and Cleanup once expires_at has passed: close every channel,
\* drop the entry.
RemoveSlug ==
  /\ present
  /\ present' = FALSE
  /\ events' = <<>>
  /\ subscribers' = {}
  /\ closed' = closed \cup subscribers
  /\ UNCHANGED <<hits, chan, streamVars, since, lagged>>
-----------------------------------------------------------------------------
(* A stream handler.                                                       *)

Goto(st, from, to) == pc[st] = from /\ pc' = [pc EXCEPT ![st] = to]

\* requireSlugOwner has found the slug.
Open(st) ==
  /\ present
  /\ Goto(st, "idle", "getEvents")
  /\ UNCHANGED <<registryVars, channelVars, history, sent, told, since, lagged>>

\* GetEvents copies the buffer; nothing if the slug is gone.
GetEvents(st) ==
  /\ Goto(st, "getEvents", "subscribe")
  /\ history' = [history EXCEPT ![st] = events]
  /\ UNCHANGED <<registryVars, channelVars, sent, told, since, lagged>>

\* A new channel, or one that is closed already if the slug is gone.
Subscribe(st) ==
  /\ Goto(st, "subscribe", "replay")
  /\ subscribers' = IF present THEN subscribers \cup {st} ELSE subscribers
  /\ closed' = IF present THEN closed ELSE closed \cup {st}
  /\ since' = [since EXCEPT ![st] = hits]
  /\ UNCHANGED <<present, events, hits, chan, history, sent, told, lagged>>

\* Mutant: the buffer is read again when it is replayed.
ReplayFresh(st) ==
  /\ Goto(st, "replay", "live")
  /\ sent' = [sent EXCEPT ![st] = events]
  /\ UNCHANGED <<registryVars, channelVars, history, told, since, lagged>>

\* The history goes to the client, then the loop starts.
Replay(st) ==
  /\ Goto(st, "replay", "live")
  /\ sent' = [sent EXCEPT ![st] = history[st]]
  /\ UNCHANGED <<registryVars, channelVars, history, told, since, lagged>>

\* case ev := <-ch
Deliver(st) ==
  /\ pc[st] = "live"
  /\ chan[st] # <<>>
  /\ sent' = [sent EXCEPT ![st] = Append(@, Head(chan[st]))]
  /\ chan' = [chan EXCEPT ![st] = Tail(@)]
  /\ UNCHANGED <<registryVars, closed, pc, history, told, since, lagged>>

\* Mutant: "ok" is not looked at, the client gets a zero event.
DeliverZeroEvent(st) ==
  /\ st \in closed
  /\ chan[st] = <<>>
  /\ pc[st] = "live"
  /\ sent' = [sent EXCEPT ![st] = Append(@, 0)]
  /\ UNCHANGED <<registryVars, channelVars, pc, history, told, since, lagged>>

\* The channel is closed and empty.
DeliverClose(st) ==
  /\ st \in closed
  /\ chan[st] = <<>>
  /\ Goto(st, "live", "unsub")
  /\ told' = told \cup {st}
  /\ UNCHANGED <<registryVars, channelVars, history, sent, since, lagged>>

\* case <-r.Context().Done(): the client went away.  select takes any ready
\* case, so this may overtake events and a close that are waiting.
Leave(st) ==
  /\ Goto(st, "live", "unsub")
  /\ UNCHANGED <<registryVars, channelVars, history, sent, told, since, lagged>>

\* Mutant: the channel is closed and stays subscribed.
UnsubStaysListed(st) ==
  /\ Goto(st, "unsub", "done")
  /\ closed' = IF present /\ st \in subscribers THEN closed \cup {st} ELSE closed
  /\ UNCHANGED <<registryVars, chan, history, sent, told, since, lagged>>

\* Mutant: nobody calls unsub.
UnsubForgotten(st) ==
  /\ Goto(st, "unsub", "done")
  /\ UNCHANGED <<registryVars, channelVars, history, sent, told, since, lagged>>

\* The deferred unsub closes the channel if the entry still lists it.
Unsub(st) ==
  /\ Goto(st, "unsub", "done")
  /\ subscribers' = subscribers \ {st}
  /\ closed' = IF st \in subscribers THEN closed \cup {st} ELSE closed
  /\ UNCHANGED <<present, events, hits, chan, history, sent, told, since,
                 lagged>>
-----------------------------------------------------------------------------
Next ==
  \/ Record
  \/ ClearEvents
  \/ RemoveSlug
  \/ \E st \in Streams :
       \/ Open(st)
       \/ GetEvents(st)
       \/ Subscribe(st)
       \/ Replay(st)
       \/ Deliver(st)
       \/ DeliverClose(st)
       \/ Leave(st)
       \/ Unsub(st)

Spec == Init /\ [][Next]_vars

\* Handler goroutines run and their clients read what is written to them.
Fairness ==
  \A st \in Streams :
    WF_vars(\/ GetEvents(st) \/ Subscribe(st) \/ Replay(st) \/ Deliver(st)
            \/ DeliverClose(st) \/ Unsub(st))

FairSpec == Spec /\ Fairness
-----------------------------------------------------------------------------
\* What stream st has been given so far: written or waiting in its channel.
Given(st) == sent[st] \o chan[st]

\* st is in its loop and has not been cut short by its client.
Listening(st) == pc[st] = "live" \/ st \in told

\* No panic: whoever closes a channel has taken it off the list first, so that
\* recordEvent never sends on a closed channel and DeleteSlug, Cleanup and
\* unsub never close one twice, in whatever order they run.
SubscribersOpen == subscribers \cap closed = {}

\* Channels do not leak: as long as the slug exists exactly the handlers
\* between Subscribe and their deferred unsub are subscribed, and a channel
\* that nobody lists any more is closed.
NoSubscriberLeak ==
  /\ subscribers = {st \in Streams :
                      present /\ pc[st] \in {"replay", "live", "unsub"}}
  /\ \A st \in Streams :
       pc[st] \in {"replay", "live", "unsub", "done"} =>
         st \in subscribers \cup closed

\* A client gets hits in the order in which they were recorded and none twice,
\* across the seam between the replayed history and the live channel.
StreamInOrder ==
  \A st \in Streams : \A i, j \in DOMAIN Given(st) :
    i < j => Given(st)[i] < Given(st)[j]

\* A stream whose channel was never full gets its history and then every hit
\* recorded since Subscribe, whatever other streams do, and it gets all of them
\* before it is told that the slug is gone.
NothingSkipped ==
  \A st \in Streams :
    Listening(st) /\ st \notin lagged =>
      Given(st) = history[st] \o [i \in 1..(hits - since[st]) |-> since[st] + i]

\* The streams of a slug that is deleted or expires all end: no handler waits
\* on a channel that nobody will close, wherever the removal met it.
RemovalEndsStreams ==
  \A st \in Streams : ~present /\ pc[st] # "idle" ~> pc[st] = "done"
-----------------------------------------------------------------------------
\* ARCHITECTURE: the event stream "replays history, then live".  A client
\* whose channel was never full has every event that the registry holds.
ReplaysHistoryThenLive ==
  \A st \in Streams :
    Listening(st) /\ st \notin lagged =>
      Range(events) \subseteq Range(Given(st))
=============================================================================
