-------------------------- MODULE EventStreamProofs --------------------------
(***************************************************************************)
(* What holds of EventStream for any number of streams and hits and any    *)
(* capacities of buffer and channels.                                      *)
(***************************************************************************)
EXTENDS EventStream, SequenceTheorems, TLAPS

-----------------------------------------------------------------------------
(* Type correctness.                                                       *)

\* recordEvent keeps the ring buffer a sequence of hits.
LEMMA PushType ==
  ASSUME NEW buffer \in Seq(Hit), NEW h \in Hit
  PROVE  Push(buffer, h) \in Seq(Hit)
<1>1. CASE Len(buffer) >= MaxEvents
  <2>1. buffer # <<>>
    BY <1>1, EventStreamAssumption
  <2>. QED  BY <1>1, <2>1 DEF Push
<1>2. CASE ~(Len(buffer) >= MaxEvents)
  BY <1>2 DEF Push
<1>. QED  BY <1>1, <1>2

LEMMA InitTypeOK == Init => TypeOK
<1> SUFFICES ASSUME Init  PROVE TypeOK
  OBVIOUS
<1>1. <<>> \in Seq(Hit) /\ 0 \in 0..MaxHits
  BY EventStreamAssumption
<1>. QED  BY <1>1 DEF Init, TypeOK, StreamPC

\* A handler's step to a place of its program.
LEMMA GotoType ==
  ASSUME TypeOK, NEW st \in Streams, NEW from, NEW to \in StreamPC,
         Goto(st, from, to)
  PROVE  /\ pc' \in [Streams -> StreamPC]
         /\ pc[st] = from /\ pc'[st] = to
         /\ \A other \in Streams \ {st} : pc'[other] = pc[other]
BY DEF Goto, TypeOK

LEMMA NextTypeOK == TypeOK /\ [Next]_vars => TypeOK'
<1> SUFFICES ASSUME TypeOK, [Next]_vars  PROVE TypeOK'
  OBVIOUS
<1> USE DEF TypeOK, registryVars, channelVars, streamVars
<1>1. CASE Record
  <2>1. hits' \in 0..MaxHits /\ hits' \in Hit
    BY <1>1, EventStreamAssumption DEF Record, Hit
  <2>2. events' \in Seq(Hit)
    BY <1>1, <2>1, PushType DEF Record
  <2>3. chan' \in [Streams -> Seq(Hit)]
    BY <1>1, <2>1 DEF Record
  <2>4. lagged' \subseteq Streams
    BY <1>1 DEF Record
  <2>. QED  BY <1>1, <2>1, <2>2, <2>3, <2>4 DEF Record
<1>2. CASE ClearEvents
  BY <1>2 DEF ClearEvents
<1>3. CASE RemoveSlug
  <2>1. present' \in BOOLEAN
    BY <1>3, Zenon DEF RemoveSlug
  <2>2. /\ events' = <<>>
        /\ subscribers' \subseteq Streams /\ closed' \subseteq Streams
    BY <1>3 DEF RemoveSlug
  <2>3. events' \in Seq(Hit)
    BY <2>2
  <2>. QED  BY <1>3, <2>1, <2>2, <2>3, Zenon DEF RemoveSlug
<1>4. ASSUME NEW st \in Streams, Open(st)  PROVE TypeOK'
  BY <1>4, GotoType DEF Open, StreamPC
<1>5. ASSUME NEW st \in Streams, GetEvents(st)  PROVE TypeOK'
  BY <1>5, GotoType DEF GetEvents, StreamPC
<1>6. ASSUME NEW st \in Streams, Subscribe(st)  PROVE TypeOK'
  <2>1. pc' \in [Streams -> StreamPC]
    BY <1>6, GotoType DEF Subscribe, StreamPC
  <2>2. subscribers' \subseteq Streams /\ closed' \subseteq Streams
    BY <1>6 DEF Subscribe
  <2>. QED  BY <1>6, <2>1, <2>2 DEF Subscribe
<1>7. ASSUME NEW st \in Streams, Replay(st)  PROVE TypeOK'
  BY <1>7, GotoType DEF Replay, StreamPC
<1>8. ASSUME NEW st \in Streams, Deliver(st)  PROVE TypeOK'
  <2>1. Head(chan[st]) \in Hit /\ Tail(chan[st]) \in Seq(Hit)
    BY <1>8 DEF Deliver
  <2>2. Append(sent[st], Head(chan[st])) \in Seq(Hit)
    BY <2>1
  <2>. QED  BY <1>8, <2>1, <2>2 DEF Deliver
<1>9. ASSUME NEW st \in Streams, DeliverClose(st)  PROVE TypeOK'
  BY <1>9, GotoType DEF DeliverClose, StreamPC
<1>10. ASSUME NEW st \in Streams, Leave(st)  PROVE TypeOK'
  BY <1>10, GotoType DEF Leave, StreamPC
<1>11. ASSUME NEW st \in Streams, Unsub(st)  PROVE TypeOK'
  BY <1>11, GotoType DEF Unsub, StreamPC
<1>12. CASE UNCHANGED vars
  BY <1>12 DEF vars
<1>. QED
  BY <1>1, <1>2, <1>3, <1>4, <1>5, <1>6, <1>7, <1>8, <1>9, <1>10, <1>11, <1>12
     DEF Next

\* Buffers, channels and replies hold recorded hits only; in particular no
\* client is sent the zero value that a closed channel yields.
THEOREM TypeCorrect == Spec => []TypeOK
BY InitTypeOK, NextTypeOK, PTL DEF Spec
-----------------------------------------------------------------------------
(* Channels.                                                               *)

\* Between Subscribe and the end of the handler.
Subscribed(st) == pc[st] \in {"replay", "live", "unsub", "done"}

\* A handler that has not subscribed has no closed channel.
ChannelInvariant ==
  /\ SubscribersOpen
  /\ NoSubscriberLeak
  /\ \A st \in closed : Subscribed(st)

LEMMA ChannelStep ==
  TypeOK /\ ChannelInvariant /\ [Next]_vars => ChannelInvariant'
<1> SUFFICES ASSUME TypeOK, ChannelInvariant, [Next]_vars
             PROVE  ChannelInvariant'
  OBVIOUS
<1> USE DEF ChannelInvariant, SubscribersOpen, NoSubscriberLeak, Subscribed,
            TypeOK, registryVars, channelVars, streamVars
<1>1. CASE Record \/ ClearEvents
  BY <1>1 DEF Record, ClearEvents
<1>2. CASE RemoveSlug
  BY <1>2 DEF RemoveSlug
<1>3. ASSUME NEW st \in Streams, Open(st)  PROVE ChannelInvariant'
  BY <1>3 DEF Open, Goto
<1>4. ASSUME NEW st \in Streams, GetEvents(st)  PROVE ChannelInvariant'
  BY <1>4 DEF GetEvents, Goto
<1>5. ASSUME NEW st \in Streams, Subscribe(st)  PROVE ChannelInvariant'
  BY <1>5 DEF Subscribe, Goto
<1>6. ASSUME NEW st \in Streams, Replay(st)  PROVE ChannelInvariant'
  BY <1>6 DEF Replay, Goto
<1>7. ASSUME NEW st \in Streams, Deliver(st)  PROVE ChannelInvariant'
  BY <1>7 DEF Deliver
<1>8. ASSUME NEW st \in Streams, DeliverClose(st) \/ Leave(st)
      PROVE  ChannelInvariant'
  <2>1. /\ UNCHANGED <<present, subscribers, closed>>
        /\ pc[st] = "live" /\ pc' = [pc EXCEPT ![st] = "unsub"]
    BY <1>8 DEF DeliverClose, Leave, Goto
  <2>. QED  BY <2>1
<1>9. ASSUME NEW st \in Streams, Unsub(st)  PROVE ChannelInvariant'
  BY <1>9 DEF Unsub, Goto
<1>10. CASE UNCHANGED vars
  BY <1>10 DEF vars
<1>. QED
  BY <1>1, <1>2, <1>3, <1>4, <1>5, <1>6, <1>7, <1>8, <1>9, <1>10 DEF Next

LEMMA ChannelsCorrect == Spec => []ChannelInvariant
<1>1. Init => ChannelInvariant
  BY DEF Init, ChannelInvariant, SubscribersOpen, NoSubscriberLeak, Subscribed
<1>. QED  BY <1>1, ChannelStep, TypeCorrect, PTL DEF Spec

\* recordEvent never sends on a closed channel, and neither unsub nor DeleteSlug
\* nor Cleanup closes one twice.
THEOREM NoChannelPanic == Spec => []SubscribersOpen
<1>1. ChannelInvariant => SubscribersOpen
  BY DEF ChannelInvariant
<1>. QED  BY <1>1, ChannelsCorrect, PTL

\* Exactly the handlers between Subscribe and unsub are subscribed, and whatever
\* is not listed any more is closed.
THEOREM NoChannelLeak == Spec => []NoSubscriberLeak
<1>1. ChannelInvariant => NoSubscriberLeak
  BY DEF ChannelInvariant
<1>. QED  BY <1>1, ChannelsCorrect, PTL
-----------------------------------------------------------------------------
(* Sequences of hits.                                                      *)

Increasing(s) == \A i, j \in DOMAIN s : i < j => s[i] < s[j]

Below(s, n) == \A i \in DOMAIN s : s[i] <= n

\* The hits after a, up to b.
Hits(a, b) == [i \in 1..(b - a) |-> a + i]

LEMMA AppendIncreasing ==
  ASSUME NEW s \in Seq(Nat), NEW n \in Nat, Increasing(s), Below(s, n)
  PROVE  Increasing(Append(s, n + 1)) /\ Below(Append(s, n + 1), n + 1)
BY DEF Increasing, Below

LEMMA TailIncreasing ==
  ASSUME NEW s \in Seq(Nat), s # <<>>, Increasing(s)
  PROVE  /\ Increasing(Tail(s))
         /\ \A n \in Nat : Below(s, n) => Below(Tail(s), n)
<1>1. /\ Tail(s) \in Seq(Nat)
      /\ Len(Tail(s)) = Len(s) - 1
      /\ \A i \in 1..Len(Tail(s)) : Tail(s)[i] = s[i + 1]
  BY HeadTailProperties
<1>2. DOMAIN Tail(s) = 1..(Len(s) - 1) /\ DOMAIN s = 1..Len(s) /\ Len(s) \in Nat
  BY <1>1, LenProperties
<1>3. \A i \in DOMAIN Tail(s) : i + 1 \in DOMAIN s /\ Tail(s)[i] = s[i + 1] /\ i \in Nat
  BY <1>1, <1>2
<1>4. Increasing(Tail(s))
  BY <1>3 DEF Increasing
<1>5. ASSUME NEW n \in Nat, Below(s, n)  PROVE Below(Tail(s), n)
  BY <1>3, <1>5 DEF Below
<1>. QED  BY <1>4, <1>5

LEMMA ConcatIncreasing ==
  ASSUME NEW s \in Seq(Nat), NEW t \in Seq(Nat), NEW m \in Nat, NEW n \in Nat,
         Increasing(s), Increasing(t), Below(s, m), Below(t, n), m <= n,
         \A i \in DOMAIN t : t[i] > m
  PROVE  Increasing(s \o t) /\ Below(s \o t, n)
<1>0. PICK c : c = s \o t
  OBVIOUS
<1>1. /\ DOMAIN s = 1..Len(s) /\ DOMAIN t = 1..Len(t)
      /\ Len(s) \in Nat /\ Len(t) \in Nat
      /\ \A i \in DOMAIN s : s[i] \in Nat
      /\ \A i \in DOMAIN t : t[i] \in Nat
  BY LenProperties, ElementOfSeq
<1>2. c \in Seq(Nat) /\ Len(c) = Len(s) + Len(t)
  BY <1>0, ConcatProperties
<1>2a. DOMAIN c = 1..(Len(s) + Len(t))
  BY <1>2, LenProperties
<1>3. \A i \in 1..Len(s) : c[i] = s[i] /\ c[i] \in Nat /\ c[i] <= m
  <2> SUFFICES ASSUME NEW i \in 1..Len(s)
               PROVE  c[i] = s[i] /\ c[i] \in Nat /\ c[i] <= m
    OBVIOUS
  <2>1. i \in DOMAIN s /\ i <= Len(s) /\ i \in 1..(Len(s) + Len(t))
    BY <1>1
  <2>2. c[i] = s[i]
    BY <1>0, <2>1, ConcatProperties
  <2>. QED  BY <1>1, <2>1, <2>2 DEF Below
<1>4. \A i \in (Len(s) + 1)..(Len(s) + Len(t)) :
        c[i] = t[i - Len(s)] /\ c[i] \in Nat /\ m < c[i] /\ c[i] <= n
  <2> SUFFICES ASSUME NEW i \in (Len(s) + 1)..(Len(s) + Len(t))
               PROVE  c[i] = t[i - Len(s)] /\ c[i] \in Nat /\ m < c[i] /\ c[i] <= n
    OBVIOUS
  <2>1. i - Len(s) \in DOMAIN t /\ ~(i <= Len(s)) /\ i \in 1..(Len(s) + Len(t))
    BY <1>1
  <2>2. c[i] = t[i - Len(s)]
    BY <1>0, <2>1, ConcatProperties
  <2>. QED  BY <1>1, <2>1, <2>2 DEF Below
<1>5. Below(c, n)
  <2> SUFFICES ASSUME NEW i \in DOMAIN c  PROVE c[i] <= n
    BY DEF Below
  <2>1. i \in 1..Len(s) \/ i \in (Len(s) + 1)..(Len(s) + Len(t))
    BY <1>1, <1>2a
  <2>2. CASE i \in 1..Len(s)
    BY <1>3, <2>2
  <2>. QED  BY <1>4, <2>1, <2>2
<1>6. ASSUME NEW i \in DOMAIN c, NEW j \in DOMAIN c, i < j
      PROVE  c[i] < c[j]
  <2>1. /\ i \in 1..(Len(s) + Len(t)) /\ j \in 1..(Len(s) + Len(t)) /\ i < j
    BY <1>2a, <1>6
  <2>2. CASE j <= Len(s)
    <3>1. i \in 1..Len(s) /\ j \in 1..Len(s)
      BY <1>1, <2>1, <2>2
    <3>2. c[i] = s[i] /\ c[j] = s[j]
      BY <1>3, <3>1
    <3>3. s[i] < s[j]
      BY <1>1, <2>1, <3>1 DEF Increasing
    <3>. QED  BY <3>2, <3>3
  <2>3. CASE i <= Len(s) /\ Len(s) < j
    <3>1. i \in 1..Len(s) /\ j \in (Len(s) + 1)..(Len(s) + Len(t))
      BY <1>1, <2>1, <2>3
    <3>2. c[i] \in Nat /\ c[i] <= m /\ c[j] \in Nat /\ m < c[j]
      BY <1>3, <1>4, <3>1
    <3>. QED  BY <3>2
  <2>4. CASE Len(s) < i
    <3>1. /\ i - Len(s) \in 1..Len(t) /\ j - Len(s) \in 1..Len(t)
          /\ i - Len(s) < j - Len(s)
          /\ i \in (Len(s) + 1)..(Len(s) + Len(t))
          /\ j \in (Len(s) + 1)..(Len(s) + Len(t))
      BY <1>1, <2>1, <2>4, SMTT(30)
    <3>2. c[i] = t[i - Len(s)] /\ c[j] = t[j - Len(s)]
      BY <1>4, <3>1
    <3>3. t[i - Len(s)] < t[j - Len(s)]
      BY <1>1, <3>1 DEF Increasing
    <3>. QED  BY <3>2, <3>3
  <2>. QED  BY <1>1, <2>1, <2>2, <2>3, <2>4
<1>7. Increasing(c)
  BY <1>6 DEF Increasing
<1>. QED  BY <1>0, <1>5, <1>7

LEMMA PushIncreasing ==
  ASSUME NEW buffer \in Seq(Nat), NEW n \in Nat,
         Increasing(buffer), Below(buffer, n)
  PROVE  Increasing(Push(buffer, n + 1)) /\ Below(Push(buffer, n + 1), n + 1)
<1>1. CASE Len(buffer) >= MaxEvents
  <2>1. buffer # <<>>
    BY <1>1, EventStreamAssumption
  <2>2. Tail(buffer) \in Seq(Nat) /\ Increasing(Tail(buffer)) /\ Below(Tail(buffer), n)
    BY <2>1, TailIncreasing
  <2>. QED  BY <1>1, <2>2, AppendIncreasing DEF Push
<1>2. CASE ~(Len(buffer) >= MaxEvents)
  BY <1>2, AppendIncreasing DEF Push
<1>. QED  BY <1>1, <1>2

\* recordEvent appends to what a stream is given ...
LEMMA ConcatAppend ==
  ASSUME NEW s \in Seq(Nat), NEW t \in Seq(Nat), NEW x \in Nat
  PROVE  s \o Append(t, x) = Append(s \o t, x)
<1>1. <<x>> \in Seq(Nat) /\ s \o t \in Seq(Nat)
  OBVIOUS
<1>. QED  BY <1>1, AppendIsConcat, ConcatAssociative

\* ... and the loop over the channel only moves it.
LEMMA ConcatMove ==
  ASSUME NEW s \in Seq(Nat), NEW t \in Seq(Nat), t # <<>>
  PROVE  Append(s, Head(t)) \o Tail(t) = s \o t
<1>1. /\ Head(t) \in Nat /\ Tail(t) \in Seq(Nat) /\ <<Head(t)>> \in Seq(Nat)
      /\ Append(s, Head(t)) = s \o <<Head(t)>>
  BY HeadTailProperties, AppendIsConcat
<1>2. <<Head(t)>> \o Tail(t) = t
  <2>1. <<Head(t)>> \o Tail(t) \in Seq(Nat)
    BY <1>1
  <2>. QED  BY <1>1, <2>1, SeqEqual
<1>3. (s \o <<Head(t)>>) \o Tail(t) = s \o (<<Head(t)>> \o Tail(t))
  BY <1>1, ConcatAssociative
<1>. QED  BY <1>1, <1>2, <1>3

LEMMA HitsNone == ASSUME NEW a \in Nat  PROVE Hits(a, a) = <<>>
<1>1. Hits(a, a) \in Seq(Nat) /\ Len(Hits(a, a)) = 0
  BY DEF Hits
<1>. QED  BY <1>1

LEMMA HitsType ==
  ASSUME NEW a \in Nat, NEW b \in Nat, a <= b
  PROVE  Hits(a, b) \in Seq(Nat) /\ Len(Hits(a, b)) = b - a
BY DEF Hits

LEMMA HitsNext ==
  ASSUME NEW a \in Nat, NEW b \in Nat, a <= b
  PROVE  Hits(a, b + 1) = Append(Hits(a, b), b + 1)
<1>1. Hits(a, b) \in Seq(Nat) /\ Len(Hits(a, b)) = b - a
  BY HitsType
<1>2. Hits(a, b + 1) \in Seq(Nat) /\ Len(Hits(a, b + 1)) = b + 1 - a
  BY HitsType
<1>3. ASSUME NEW i \in 1..(b + 1 - a)
      PROVE  Hits(a, b + 1)[i] = Append(Hits(a, b), b + 1)[i]
  BY <1>1 DEF Hits
<1>. QED  BY <1>1, <1>2, <1>3, SeqEqual

LEMMA HitSequences == \A s \in Seq(Hit) : s \in Seq(Nat)
BY EventStreamAssumption DEF Hit

LEMMA EmptyInOrder == Increasing(<<>>) /\ \A n : Below(<<>>, n)
BY DEF Increasing, Below

LEMMA BelowMore ==
  ASSUME NEW s \in Seq(Nat), NEW m \in Nat, NEW n \in Nat, m <= n, Below(s, m)
  PROVE  Below(s, n)
BY DEF Below
-----------------------------------------------------------------------------
(* The order of what a stream is given.                                    *)

\* The history was read before Subscribe: it ends before the channel begins.
HistoryFirst(st) ==
  /\ since[st] <= hits
  /\ Increasing(history[st])
  /\ Below(history[st], IF Subscribed(st) THEN since[st] ELSE hits)

\* The channel has hits recorded since Subscribe.
ChannelAfter(st) ==
  /\ ~Subscribed(st) => chan[st] = <<>>
  /\ Increasing(chan[st]) /\ Below(chan[st], hits)
  /\ \A i \in DOMAIN chan[st] : chan[st][i] > since[st]

\* What the client is given continues in order.
GivenInOrder(st) ==
  /\ pc[st] \notin {"live", "unsub", "done"} => sent[st] = <<>>
  /\ Increasing(Given(st)) /\ Below(Given(st), hits)

\* As long as no hit was dropped nothing is missing: the channel has everything
\* since Subscribe until the replay, and the client is given it after that.
NothingLost(st) ==
  st \notin lagged =>
    /\ pc[st] = "replay" => chan[st] = Hits(since[st], hits)
    /\ Listening(st) => Given(st) = history[st] \o Hits(since[st], hits)

\* The close event is sent only once the slug is gone.
ToldLast(st) == st \in told => ~present /\ pc[st] \in {"unsub", "done"}

StreamOrder(st) ==
  /\ HistoryFirst(st)
  /\ ChannelAfter(st)
  /\ GivenInOrder(st)
  /\ NothingLost(st)
  /\ ToldLast(st)

OrderInvariant ==
  /\ Increasing(events) /\ Below(events, hits)
  /\ \A st \in Streams : StreamOrder(st)

\* A step that leaves a stream's own state alone leaves its order alone.
LEMMA StreamFrame ==
  ASSUME NEW st \in Streams, StreamOrder(st), present' => present,
         hits' = hits, pc'[st] = pc[st], history'[st] = history[st],
         chan'[st] = chan[st], sent'[st] = sent[st], since'[st] = since[st],
         st \in told' <=> st \in told, st \in lagged' <=> st \in lagged
  PROVE  StreamOrder(st)'
<1>1. HistoryFirst(st)'
  BY DEF StreamOrder, HistoryFirst, Subscribed
<1>2. ChannelAfter(st)'
  BY DEF StreamOrder, ChannelAfter, Subscribed
<1>3. GivenInOrder(st)'
  BY DEF StreamOrder, GivenInOrder, Given
<1>4. NothingLost(st)'
  BY DEF StreamOrder, NothingLost, Given, Listening
<1>5. ToldLast(st)'
  BY DEF StreamOrder, ToldLast
<1>. QED  BY <1>1, <1>2, <1>3, <1>4, <1>5 DEF StreamOrder

\* What the types give for one stream.
LEMMA StreamTypes ==
  ASSUME TypeOK, NEW st \in Streams
  PROVE  /\ hits \in Nat /\ since[st] \in Nat
         /\ history[st] \in Seq(Nat) /\ chan[st] \in Seq(Nat)
         /\ sent[st] \in Seq(Nat) /\ Given(st) \in Seq(Nat)
<1>1. hits \in Nat /\ since[st] \in Nat
  BY EventStreamAssumption DEF TypeOK
<1>2. history[st] \in Seq(Hit) /\ chan[st] \in Seq(Hit) /\ sent[st] \in Seq(Hit)
  BY DEF TypeOK
<1>3. history[st] \in Seq(Nat) /\ chan[st] \in Seq(Nat) /\ sent[st] \in Seq(Nat)
  BY <1>2, HitSequences
<1>. QED  BY <1>1, <1>3 DEF Given

\* recordEvent hands the new hit to a stream whose channel has room, and marks
\* one whose channel has none.
LEMMA RecordOrder ==
  ASSUME TypeOK, ChannelInvariant, Record, NEW st \in Streams, StreamOrder(st)
  PROVE  StreamOrder(st)'
<1>1. /\ hits \in Nat /\ since[st] \in Nat
      /\ history[st] \in Seq(Nat) /\ chan[st] \in Seq(Nat)
      /\ sent[st] \in Seq(Nat) /\ Given(st) \in Seq(Nat)
  BY StreamTypes
<1>1a. hits + 1 \in Nat /\ hits <= hits + 1
  BY <1>1
<1>2. /\ present /\ hits' = hits + 1
      /\ pc' = pc /\ history' = history /\ sent' = sent /\ told' = told
      /\ since' = since
      /\ lagged' = lagged \cup {x \in subscribers : ~HasRoom(x)}
  BY DEF Record, streamVars
<1>3. chan'[st] = IF st \in subscribers /\ HasRoom(st)
                  THEN Append(chan[st], hits + 1) ELSE chan[st]
  BY <1>2 DEF Record
<1>4. st \in subscribers <=> pc[st] \in {"replay", "live", "unsub"}
  BY <1>2 DEF ChannelInvariant, NoSubscriberLeak
<1>5. HistoryFirst(st)'
  <2>1. Below(history[st], hits) => Below(history[st], hits + 1)
    BY <1>1, <1>1a, BelowMore
  <2>. QED  BY <1>1, <1>2, <2>1 DEF StreamOrder, HistoryFirst, Subscribed
<1>6. ToldLast(st)' /\ st \notin told
  BY <1>2 DEF StreamOrder, ToldLast
<1>7. CASE st \in subscribers /\ HasRoom(st)
  <2>1. chan'[st] = Append(chan[st], hits + 1)
    BY <1>3, <1>7
  <2>2. ChannelAfter(st)'
    <3>1. Increasing(chan'[st]) /\ Below(chan'[st], hits + 1)
      BY <1>1, <2>1, AppendIncreasing DEF StreamOrder, ChannelAfter
    <3>2. \A i \in DOMAIN chan'[st] : chan'[st][i] > since[st]
      BY <1>1, <2>1 DEF StreamOrder, ChannelAfter, HistoryFirst
    <3>3. Subscribed(st)'
      BY <1>2, <1>4, <1>7 DEF Subscribed
    <3>. QED  BY <1>2, <3>1, <3>2, <3>3 DEF ChannelAfter
  <2>3. Given(st)' = Append(Given(st), hits + 1)
    <3>1. Given(st)' = sent[st] \o Append(chan[st], hits + 1)
      BY <1>2, <2>1 DEF Given
    <3>. QED  BY <1>1, <1>1a, <3>1, ConcatAppend DEF Given
  <2>4. GivenInOrder(st)'
    <3>1. Increasing(Given(st))' /\ Below(Given(st), hits)'
      BY <1>1, <1>2, <2>3, AppendIncreasing DEF StreamOrder, GivenInOrder
    <3>. QED  BY <1>2, <3>1 DEF StreamOrder, GivenInOrder
  <2>5. NothingLost(st)'
    <3> SUFFICES ASSUME st \notin lagged
                 PROVE  /\ pc[st] = "replay" => chan'[st] = Hits(since[st], hits + 1)
                        /\ pc[st] = "live" =>
                             Given(st)' = history[st] \o Hits(since[st], hits + 1)
      BY <1>2, <1>6 DEF NothingLost, Listening
    <3>1. /\ Hits(since[st], hits + 1) = Append(Hits(since[st], hits), hits + 1)
          /\ Hits(since[st], hits) \in Seq(Nat)
      BY <1>1, HitsNext, HitsType DEF StreamOrder, HistoryFirst
    <3>2. ASSUME pc[st] = "replay"  PROVE chan'[st] = Hits(since[st], hits + 1)
      BY <2>1, <3>1, <3>2 DEF StreamOrder, NothingLost
    <3>3. ASSUME pc[st] = "live"
          PROVE  Given(st)' = history[st] \o Hits(since[st], hits + 1)
      <4>1. Given(st) = history[st] \o Hits(since[st], hits)
        BY <3>3 DEF StreamOrder, NothingLost, Listening
      <4>2. history[st] \o Append(Hits(since[st], hits), hits + 1)
              = Append(history[st] \o Hits(since[st], hits), hits + 1)
        BY <1>1, <1>1a, <3>1, ConcatAppend
      <4>. QED  BY <2>3, <3>1, <4>1, <4>2
    <3>. QED  BY <3>2, <3>3
  <2>. QED  BY <1>5, <1>6, <2>2, <2>4, <2>5 DEF StreamOrder
<1>8. CASE ~(st \in subscribers /\ HasRoom(st))
  <2>1. chan'[st] = chan[st] /\ Given(st)' = Given(st)
    BY <1>2, <1>3, <1>8 DEF Given
  <2>2. ChannelAfter(st)'
    <3>1. Below(chan[st], hits + 1)
      BY <1>1, <1>1a, BelowMore DEF StreamOrder, ChannelAfter
    <3>. QED  BY <1>2, <2>1, <3>1 DEF StreamOrder, ChannelAfter, Subscribed
  <2>3. GivenInOrder(st)'
    <3>1. Below(Given(st), hits + 1)
      BY <1>1, <1>1a, BelowMore DEF StreamOrder, GivenInOrder
    <3>. QED  BY <1>2, <2>1, <3>1 DEF StreamOrder, GivenInOrder
  <2>4. NothingLost(st)'
    <3>1. st \in lagged' \/ pc[st] \notin {"replay", "live"}
      BY <1>2, <1>4, <1>8
    <3>. QED  BY <1>2, <1>6, <3>1 DEF NothingLost, Listening
  <2>. QED  BY <1>5, <1>6, <2>2, <2>3, <2>4 DEF StreamOrder
<1>. QED  BY <1>7, <1>8

\* A handler's own steps, one lemma each.
LEMMA GetEventsOrder ==
  ASSUME TypeOK, NEW st \in Streams, StreamOrder(st), GetEvents(st),
         Increasing(events), Below(events, hits)
  PROVE  StreamOrder(st)'
<1>1. /\ pc[st] = "getEvents" /\ pc'[st] = "subscribe" /\ history'[st] = events
      /\ UNCHANGED <<present, hits, chan, sent, told, since, lagged>>
  BY DEF GetEvents, Goto, TypeOK, registryVars, channelVars
<1>2. HistoryFirst(st)' /\ ChannelAfter(st)' /\ GivenInOrder(st)' /\ ToldLast(st)'
  BY <1>1 DEF StreamOrder, HistoryFirst, ChannelAfter, GivenInOrder, ToldLast,
              Subscribed, Given
<1>3. NothingLost(st)'
  BY <1>1 DEF StreamOrder, NothingLost, Listening, ToldLast
<1>. QED  BY <1>2, <1>3 DEF StreamOrder

LEMMA SubscribeOrder ==
  ASSUME TypeOK, NEW st \in Streams, StreamOrder(st), Subscribe(st)
  PROVE  StreamOrder(st)'
<1>1. /\ pc[st] = "subscribe" /\ pc'[st] = "replay" /\ since'[st] = hits
      /\ UNCHANGED <<present, hits, chan, history, sent, told, lagged>>
  BY DEF Subscribe, Goto, TypeOK
<1>2. chan[st] = <<>> /\ hits \in Nat /\ st \notin told
  BY <1>1, StreamTypes DEF StreamOrder, ChannelAfter, Subscribed, ToldLast
<1>3. Hits(since[st], hits)' = <<>>
  BY <1>1, <1>2, HitsNone
<1>4. HistoryFirst(st)'
  BY <1>1, <1>2 DEF StreamOrder, HistoryFirst, Subscribed
<1>5. ChannelAfter(st)'
  BY <1>1, <1>2, EmptyInOrder DEF ChannelAfter, Subscribed
<1>6. GivenInOrder(st)'
  BY <1>1 DEF StreamOrder, GivenInOrder, Given
<1>7. NothingLost(st)' /\ ToldLast(st)'
  BY <1>1, <1>2, <1>3 DEF NothingLost, Listening, ToldLast
<1>. QED  BY <1>4, <1>5, <1>6, <1>7 DEF StreamOrder

\* The seam: the history ends where the channel begins.
LEMMA ReplayOrder ==
  ASSUME TypeOK, NEW st \in Streams, StreamOrder(st), Replay(st)
  PROVE  StreamOrder(st)'
<1>1. /\ pc[st] = "replay" /\ pc'[st] = "live" /\ sent'[st] = history[st]
      /\ UNCHANGED <<present, hits, chan, history, told, since, lagged>>
  BY DEF Replay, Goto, TypeOK, registryVars, channelVars
<1>2. /\ hits \in Nat /\ since[st] \in Nat
      /\ history[st] \in Seq(Nat) /\ chan[st] \in Seq(Nat)
  BY StreamTypes
<1>3. Given(st)' = history[st] \o chan[st]
  BY <1>1 DEF Given
<1>4. HistoryFirst(st)' /\ ChannelAfter(st)' /\ ToldLast(st)' /\ st \notin told
  BY <1>1 DEF StreamOrder, HistoryFirst, ChannelAfter, ToldLast, Subscribed
<1>5. GivenInOrder(st)'
  <2>1. /\ since[st] <= hits /\ Increasing(history[st])
        /\ Below(history[st], since[st])
        /\ Increasing(chan[st]) /\ Below(chan[st], hits)
        /\ \A i \in DOMAIN chan[st] : chan[st][i] > since[st]
    BY <1>1 DEF StreamOrder, HistoryFirst, ChannelAfter, Subscribed
  <2>2. Increasing(history[st] \o chan[st]) /\ Below(history[st] \o chan[st], hits)
    BY <1>2, <2>1, ConcatIncreasing
  <2>. QED  BY <1>1, <1>3, <2>2 DEF GivenInOrder
<1>6. NothingLost(st)'
  BY <1>1, <1>3, <1>4 DEF StreamOrder, NothingLost, Listening
<1>. QED  BY <1>4, <1>5, <1>6 DEF StreamOrder

LEMMA DeliverOrder ==
  ASSUME TypeOK, NEW st \in Streams, StreamOrder(st), Deliver(st)
  PROVE  StreamOrder(st)'
<1>1. /\ pc[st] = "live" /\ chan[st] # <<>>
      /\ sent'[st] = Append(sent[st], Head(chan[st]))
      /\ chan'[st] = Tail(chan[st])
      /\ UNCHANGED <<present, hits, pc, history, told, since, lagged>>
  BY DEF Deliver, TypeOK, registryVars
<1>2. /\ hits \in Nat /\ since[st] \in Nat
      /\ chan[st] \in Seq(Nat) /\ sent[st] \in Seq(Nat)
  BY StreamTypes
<1>3. Given(st)' = Given(st)
  BY <1>1, <1>2, ConcatMove DEF Given
<1>4. ChannelAfter(st)'
  <2>1. Increasing(Tail(chan[st])) /\ Below(Tail(chan[st]), hits)
    BY <1>1, <1>2, TailIncreasing DEF StreamOrder, ChannelAfter
  <2>2. \A i \in DOMAIN Tail(chan[st]) :
          i + 1 \in DOMAIN chan[st] /\ Tail(chan[st])[i] = chan[st][i + 1]
    BY <1>1, <1>2, HeadTailProperties, LenProperties
  <2>3. \A i \in DOMAIN Tail(chan[st]) : Tail(chan[st])[i] > since[st]
    BY <2>2 DEF StreamOrder, ChannelAfter
  <2>. QED  BY <1>1, <2>1, <2>3 DEF ChannelAfter, Subscribed
<1>5. HistoryFirst(st)' /\ GivenInOrder(st)' /\ ToldLast(st)'
  BY <1>1, <1>3 DEF StreamOrder, HistoryFirst, GivenInOrder, ToldLast, Subscribed
<1>6. NothingLost(st)'
  BY <1>1, <1>3 DEF StreamOrder, NothingLost, Listening
<1>. QED  BY <1>4, <1>5, <1>6 DEF StreamOrder

\* DeliverClose follows the last hit and finds the slug gone; a client that has
\* left is promised nothing more.
LEMMA EndingOrder ==
  ASSUME TypeOK, ChannelInvariant, NEW st \in Streams, StreamOrder(st),
         DeliverClose(st) \/ Leave(st) \/ Unsub(st)
  PROVE  StreamOrder(st)'
<1>1. /\ pc[st] \in {"live", "unsub"} /\ pc'[st] \in {"unsub", "done"}
      /\ UNCHANGED <<present, hits, chan, history, sent, since, lagged>>
  BY DEF DeliverClose, Leave, Unsub, Goto, TypeOK, registryVars, channelVars
<1>2. \/ /\ pc[st] = "live" /\ ~present
      \/ st \in told' <=> st \in told
  <2>1. CASE DeliverClose(st)
    <3>1. st \in closed /\ pc[st] = "live"
      BY <2>1 DEF DeliverClose, Goto
    <3>2. st \notin subscribers
      BY <3>1 DEF ChannelInvariant, SubscribersOpen
    <3>. QED  BY <3>1, <3>2 DEF ChannelInvariant, NoSubscriberLeak
  <2>. QED  BY <2>1 DEF Leave, Unsub
<1>3. Given(st)' = Given(st)
  BY <1>1 DEF Given
<1>4. HistoryFirst(st)' /\ ChannelAfter(st)' /\ GivenInOrder(st)'
  BY <1>1, <1>3 DEF StreamOrder, HistoryFirst, ChannelAfter, GivenInOrder,
                    Subscribed
<1>5. ToldLast(st)'
  BY <1>1, <1>2 DEF StreamOrder, ToldLast
<1>6. Listening(st)' => Listening(st)
  BY <1>1, <1>2 DEF Listening
<1>7. NothingLost(st)'
  BY <1>1, <1>3, <1>6 DEF StreamOrder, NothingLost
<1>. QED  BY <1>4, <1>5, <1>7 DEF StreamOrder

LEMMA OrderStep ==
  TypeOK /\ ChannelInvariant /\ OrderInvariant /\ [Next]_vars => OrderInvariant'
<1> SUFFICES ASSUME TypeOK, ChannelInvariant, OrderInvariant, [Next]_vars
             PROVE  OrderInvariant'
  OBVIOUS
<1>1. CASE Record
  <2>1. hits \in Nat /\ events \in Seq(Nat)
    BY EventStreamAssumption, HitSequences DEF TypeOK
  <2>2. Increasing(events)' /\ Below(events, hits)'
    BY <1>1, <2>1, PushIncreasing DEF Record, OrderInvariant
  <2>3. \A st \in Streams : StreamOrder(st)'
    BY <1>1, RecordOrder DEF OrderInvariant
  <2>. QED  BY <2>2, <2>3 DEF OrderInvariant
<1>2. CASE ClearEvents \/ RemoveSlug \/ UNCHANGED vars
  <2>1. /\ UNCHANGED <<hits, chan, pc, history, sent, told, since, lagged>>
        /\ events' = <<>> \/ events' = events
    BY <1>2 DEF ClearEvents, RemoveSlug, vars, registryVars, channelVars, streamVars
  <2>2. present' => present
    BY <1>2 DEF ClearEvents, RemoveSlug, vars, registryVars
  <2>3. Increasing(events)' /\ Below(events, hits)'
    BY <2>1, EmptyInOrder DEF OrderInvariant
  <2>4. \A st \in Streams : StreamOrder(st)'
    BY <2>1, <2>2, StreamFrame DEF OrderInvariant
  <2>. QED  BY <2>3, <2>4 DEF OrderInvariant
<1>3. ASSUME NEW st \in Streams,
             \/ Open(st) \/ GetEvents(st) \/ Subscribe(st) \/ Replay(st)
             \/ Deliver(st) \/ DeliverClose(st) \/ Leave(st) \/ Unsub(st)
      PROVE  OrderInvariant'
  <2>1. /\ UNCHANGED <<present, events, hits, lagged>>
        /\ \A x \in Streams \ {st} :
             /\ pc'[x] = pc[x] /\ history'[x] = history[x] /\ chan'[x] = chan[x]
             /\ sent'[x] = sent[x] /\ since'[x] = since[x]
             /\ x \in told' <=> x \in told
    <3> USE DEF TypeOK, Goto, registryVars, channelVars
    <3>1. CASE Open(st) \/ GetEvents(st) \/ Leave(st)
      BY <3>1 DEF Open, GetEvents, Leave
    <3>2. CASE Subscribe(st) \/ Replay(st)
      BY <3>2 DEF Subscribe, Replay
    <3>3. CASE Deliver(st)
      BY <3>3 DEF Deliver
    <3>4. CASE DeliverClose(st) \/ Unsub(st)
      BY <3>4 DEF DeliverClose, Unsub
    <3>. QED  BY <1>3, <3>1, <3>2, <3>3, <3>4
  <2>2. StreamOrder(st) /\ Increasing(events) /\ Below(events, hits)
    BY DEF OrderInvariant
  <2>3. StreamOrder(st)'
    <3>1. CASE Open(st)
      <4>1. /\ pc[st] = "idle" /\ pc'[st] = "getEvents"
            /\ UNCHANGED <<present, hits, chan, history, sent, told, since, lagged>>
        BY <3>1 DEF Open, Goto, TypeOK, registryVars, channelVars
      <4>2. HistoryFirst(st)' /\ ChannelAfter(st)' /\ GivenInOrder(st)'
        BY <2>2, <4>1 DEF StreamOrder, HistoryFirst, ChannelAfter, GivenInOrder,
                          Subscribed, Given
      <4>3. NothingLost(st)' /\ ToldLast(st)'
        BY <2>2, <4>1 DEF StreamOrder, NothingLost, ToldLast, Listening
      <4>. QED  BY <4>2, <4>3 DEF StreamOrder
    <3>. QED  BY <1>3, <2>2, <3>1, GetEventsOrder, SubscribeOrder, ReplayOrder,
                 DeliverOrder, EndingOrder
  <2>4. ASSUME NEW x \in Streams \ {st}  PROVE StreamOrder(x)'
    BY <2>1, StreamFrame DEF OrderInvariant
  <2>5. Increasing(events)' /\ Below(events, hits)'
    BY <2>1, <2>2
  <2>. QED  BY <2>3, <2>4, <2>5 DEF OrderInvariant
<1>. QED  BY <1>1, <1>2, <1>3 DEF Next

LEMMA OrderCorrect == Spec => []OrderInvariant
<1>1. Init => OrderInvariant
  <2> SUFFICES ASSUME Init  PROVE OrderInvariant
    OBVIOUS
  <2>1. <<>> \o <<>> = <<>>
    OBVIOUS
  <2>2. ASSUME NEW st \in Streams  PROVE StreamOrder(st)
    <3>1. /\ pc[st] = "idle" /\ chan[st] = <<>> /\ history[st] = <<>>
          /\ sent[st] = <<>> /\ since[st] = 0 /\ hits = 0 /\ told = {}
      BY DEF Init
    <3>2. HistoryFirst(st) /\ ChannelAfter(st) /\ GivenInOrder(st)
      BY <2>1, <3>1, EmptyInOrder
         DEF HistoryFirst, ChannelAfter, GivenInOrder, Given, Subscribed
    <3>3. NothingLost(st) /\ ToldLast(st)
      BY <3>1 DEF NothingLost, ToldLast, Listening
    <3>. QED  BY <3>2, <3>3 DEF StreamOrder
  <2>3. Increasing(events) /\ Below(events, hits)
    BY EmptyInOrder DEF Init
  <2>. QED  BY <2>2, <2>3 DEF OrderInvariant
<1>. QED  BY <1>1, OrderStep, TypeCorrect, ChannelsCorrect, PTL DEF Spec

\* A client gets hits in the order of their recording and none twice, wherever
\* GetEvents, Subscribe and recordEvent fall between each other.
THEOREM StreamsInOrder == Spec => []StreamInOrder
<1>1. OrderInvariant => StreamInOrder
  BY DEF OrderInvariant, StreamOrder, GivenInOrder, Increasing, StreamInOrder
<1>. QED  BY <1>1, OrderCorrect, PTL

\* A stream whose channel was never full gets its history and every hit since
\* Subscribe, all of them before the close event.
THEOREM StreamsComplete == Spec => []NothingSkipped
<1>1. OrderInvariant => NothingSkipped
  BY DEF OrderInvariant, StreamOrder, NothingLost, NothingSkipped, Hits
<1>. QED  BY <1>1, OrderCorrect, PTL
=============================================================================
