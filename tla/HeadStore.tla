----------------------------- MODULE HeadStore ------------------------------
(***************************************************************************)
(* Redihead (svc/node/stores/headstores/redihead/module.go): the head of   *)
(* every chain as one node knows it.  All nodes share one redis stream;    *)
(* whoever stalks appends (chain, number) to it, and the goroutine that    *)
(* New starts on every node reads it and tells the subscribers of On.      *)
(*                                                                         *)
(* setHead has two critical sections, first on headMu (the number), then   *)
(* on mu (the subscribers): other goroutines run between the two.          *)
(***************************************************************************)
EXTENDS Naturals, Sequences

CONSTANTS
    Chain,
    Sub,       \* subscribers of one node
    MaxHead,   \* block numbers are 1..MaxHead
    MaxStream, \* messages in the stream
    Dollar,    \* the stream id "$": whatever is added from now on
    Nothing    \* not registered / nothing to announce

ASSUME HeadStoreAssumption ==
    /\ MaxHead \in Nat /\ MaxStream \in Nat
    /\ Dollar \notin Nat /\ Nothing \notin Chain

Number == 1..MaxHead
Message == [chain : Chain, value : Number]

VARIABLES
    stream,    \* the redis stream
    head,      \* Redihead.head; 0 is "not in the map"
    reader,    \* run: "range", "connect" or "consume"
    start,     \* the position run gives to every consumer
    next,      \* messages the current consumer has delivered or passed over
    announce,  \* the message of a setHead between its critical sections
    topic,     \* the chain whose subs hold the subscriber
    chan,      \* its channel of capacity 1; 0 is empty
    got        \* history: the last number it received from this channel

store    == <<stream, head, reader, start, next, announce>>
channels == <<topic, chan, got>>
hvars    == <<store, channels>>

StoreTypeOK ==
    /\ stream \in Seq(Message) /\ Len(stream) <= MaxStream
    /\ head \in [Chain -> 0..MaxHead]
    /\ reader \in {"range", "connect", "consume"}
    /\ start \in 0..MaxStream \cup {Dollar}
    /\ next \in 0..MaxStream
    /\ announce \in Message \cup {Nothing}
    /\ topic \in [Sub -> Chain \cup {Nothing}]
    /\ chan \in [Sub -> 0..MaxHead]
    /\ got \in [Sub -> 0..MaxHead]

StoreInit ==
    /\ stream = <<>>
    /\ head = [c \in Chain |-> 0]
    /\ reader = "range" /\ start = Dollar /\ next = 0 /\ announce = Nothing
    /\ topic = [s \in Sub |-> Nothing]
    /\ chan = [s \in Sub |-> 0]
    /\ got = [s \in Sub |-> 0]

-----------------------------------------------------------------------------
(* Writers *)

\* Put: the stalker of this or of any other node.  Put appends whatever it is
\* given; two stalkers, or a remote that lags, make numbers repeat or go back.
Put(c, h) ==
    /\ Len(stream) < MaxStream
    /\ stream' = Append(stream, [chain |-> c, value |-> h])
    /\ UNCHANGED <<head, reader, start, next, announce, channels>>

-----------------------------------------------------------------------------
(* The reader goroutine: start, run, consume *)

\* Variant: an equal number counts as news.
StoreHeadOrEqual(m) ==
    IF m.value < head[m.chain]
    THEN UNCHANGED <<head, announce>>
    ELSE head' = [head EXCEPT ![m.chain] = m.value] /\ announce' = m

\* setHead, critical section on headMu: a number that is no news ends it.
StoreHead(m) ==
    IF m.value <= head[m.chain]
    THEN UNCHANGED <<head, announce>>
    ELSE /\ head' = [head EXCEPT ![m.chain] = m.value]
         /\ announce' = m

\* setHead, critical section on mu: a non-blocking send to every subscriber.
Announce ==
    /\ announce # Nothing
    /\ chan' = [s \in Sub |->
                   IF topic[s] = announce.chain /\ chan[s] = 0
                   THEN announce.value ELSE chan[s]]
    /\ announce' = Nothing
    /\ UNCHANGED <<stream, head, reader, start, next, topic, got>>

\* RevRange "+" "-" 1: the newest message of the whole stream.
Range ==
    /\ reader = "range" /\ announce = Nothing
    /\ reader' = "connect"
    /\ IF stream = <<>>
       THEN start' = Dollar /\ UNCHANGED <<head, announce>>
       ELSE /\ start' = Len(stream)
            /\ StoreHead(stream[Len(stream)])
    /\ UNCHANGED <<stream, next, channels>>

\* Variant: every consumer starts from what is new when it connects.
ConnectFromNow ==
    /\ reader = "connect" /\ announce = Nothing
    /\ reader' = "consume"
    /\ next' = Len(stream)
    /\ UNCHANGED <<stream, head, start, announce, channels>>

\* NewConsumer: "$" is resolved when the consumer connects.
Connect ==
    /\ reader = "connect" /\ announce = Nothing
    /\ reader' = "consume"
    /\ next' = IF start = Dollar THEN Len(stream) ELSE start
    /\ UNCHANGED <<stream, head, start, announce, channels>>

Consume ==
    /\ reader = "consume" /\ announce = Nothing
    /\ next < Len(stream)
    /\ next' = next + 1
    /\ StoreHead(stream[next + 1])
    /\ UNCHANGED <<stream, reader, start, channels>>

\* The consumer's channel is closed: reconnect, again from start.
Disconnect ==
    /\ reader = "consume" /\ announce = Nothing
    /\ reader' = "connect"
    /\ UNCHANGED <<stream, head, start, next, announce, channels>>

Reader == Announce \/ Range \/ Connect \/ Consume

-----------------------------------------------------------------------------
(* Subscribers *)

On(s, c) ==
    /\ topic[s] = Nothing
    /\ topic' = [topic EXCEPT ![s] = c]
    /\ chan' = [chan EXCEPT ![s] = 0]
    /\ got' = [got EXCEPT ![s] = 0]
    /\ UNCHANGED store

Receive(s) ==
    /\ topic[s] # Nothing /\ chan[s] # 0
    /\ got' = [got EXCEPT ![s] = chan[s]]
    /\ chan' = [chan EXCEPT ![s] = 0]
    /\ UNCHANGED <<store, topic>>

\* The function On returns: unregister and close, under mu.
Done(s) ==
    /\ topic[s] # Nothing
    /\ topic' = [topic EXCEPT ![s] = Nothing]
    /\ chan' = [chan EXCEPT ![s] = 0]
    /\ got' = [got EXCEPT ![s] = 0]
    /\ UNCHANGED store

StoreNext ==
    \/ Reader \/ Disconnect
    \/ \E c \in Chain, h \in Number : Put(c, h)
    \/ \E s \in Sub : Receive(s) \/ Done(s) \/ \E c \in Chain : On(s, c)

StoreSpec == StoreInit /\ [][StoreNext]_hvars

\* The reader goroutine is scheduled and redis answers it.
FairStoreSpec == StoreSpec /\ WF_hvars(Reader)

-----------------------------------------------------------------------------
(* Properties *)

\* The head of a chain never goes back, whatever stalkers publish and however
\* often a reconnect replays the stream from start.
HeadNeverRetreats == [][\A c \in Chain : head'[c] >= head[c]]_hvars

\* What waits in a channel is news to its subscriber, and Get already answers
\* with at least that number: setHead stores before it announces.
AnnouncedIsNewAndStored ==
    \A s \in Sub : chan[s] # 0 => got[s] < chan[s] /\ chan[s] <= head[topic[s]]

\* Why: what is being announced is the head and news to every subscriber of its
\* chain, because only this goroutine raises the head and it announces in between.
StoreInv ==
    /\ announce # Nothing => announce.value = head[announce.chain]
    /\ \A s \in Sub : topic[s] # Nothing =>
          got[s] <= head[topic[s]] /\ chan[s] <= head[topic[s]]
    /\ \A s \in Sub : chan[s] # 0 => topic[s] # Nothing /\ got[s] < chan[s]
    /\ announce # Nothing => \A s \in Sub : topic[s] = announce.chain =>
          got[s] < announce.value /\ chan[s] < announce.value

\* A message from the start position on reaches the local head, through any
\* finite number of reconnects, if run found a message to start from.  (Each
\* reconnect replays from start: drops that never end may outrun the replay.)
MessageReachesHead ==
    <>[][~Disconnect]_hvars =>
    \A i \in 1..MaxStream :
        (reader # "range" /\ start # Dollar /\ start <= i /\ i <= Len(stream))
            ~> (i <= Len(stream) /\ head[stream[i].chain] >= stream[i].value)

-----------------------------------------------------------------------------
(* Claims of the documentation that do not hold: README, "Refuted claims" *)

\* "a way to publish and read the near-head state of a chain" (readme.md): once
\* the reader consumes, every chain published before it started has a head.
StartKnowsEveryHead ==
    reader = "consume" /\ announce = Nothing /\ start # Dollar =>
        \A i \in 1..start : head[stream[i].chain] # 0
=============================================================================
