------------------------------- MODULE PubSub -------------------------------
(***************************************************************************)
(* The broker of system-design/pub-sub/pubsub.go.  Subscribe, Unsubscribe  *)
(* and Close are critical sections of ps.mu; Publish copies the topic's    *)
(* subscribers under the read lock and then sends to them one by one       *)
(* without it, so subscriptions may end between the copy and a send.       *)
(***************************************************************************)
EXTENDS Integers, FiniteSets, Sequences, SequencesExt

CONSTANTS Topics,      \* topic names
          Channels,    \* bound: the channels Subscribe makes, one per subscription
          Publishers,  \* goroutines that call Publish
          BufSize,     \* NewPubSub's argument, possibly not positive
          MaxPublish   \* bound: Publish calls per publisher

ASSUME PubSubAssumption ==
    IsFiniteSet(Channels) /\ BufSize \in Int /\ MaxPublish \in Nat

\* NewPubSub replaces a size that is not positive by 64.
Capacity == IF BufSize <= 0 THEN 64 ELSE BufSize

VARIABLES subscribers,  \* ps.subscribers: per topic the slice of channels
          chan,         \* a channel is not made yet, open or closed
          buf,          \* the messages buffered in each channel
          seen,         \* history: last message number received, per publisher
          sent,         \* number of the publisher's current or last message
          topic,        \* topic of the publisher's current or last message
          todo,         \* what is left of the publisher's copied slice
          panicked      \* a goroutine hit a runtime panic: the program is gone

vars == <<subscribers, chan, buf, seen, sent, topic, todo, panicked>>

\* A message: who published it, as its how-manieth, on which topic.
Messages == [by : Publishers, number : 1 .. MaxPublish, topic : Topics]

\* The shape of the state; no channel holds more than its capacity.
TypeOK ==
    /\ subscribers \in [Topics -> Seq(Channels)]
    /\ chan \in [Channels -> {"unmade", "open", "closed"}]
    /\ buf \in [Channels -> Seq(Messages)]
    /\ \A c \in Channels : Len(buf[c]) <= Capacity
    /\ seen \in [Channels -> [Publishers -> 0 .. MaxPublish]]
    /\ sent \in [Publishers -> 0 .. MaxPublish]
    /\ topic \in [Publishers -> Topics]
    /\ todo \in [Publishers -> Seq(Channels)]
    /\ panicked \in BOOLEAN

Init ==
    /\ subscribers = [t \in Topics |-> <<>>]
    /\ chan = [c \in Channels |-> "unmade"]
    /\ buf = [c \in Channels |-> <<>>]
    /\ seen = [c \in Channels |-> [p \in Publishers |-> 0]]
    /\ sent = [p \in Publishers |-> 0]
    /\ topic \in {[p \in Publishers |-> t] : t \in Topics}
    /\ todo = [p \in Publishers |-> <<>>]
    /\ panicked = FALSE

pubVars == <<sent, topic, todo>>
-----------------------------------------------------------------------------
Subscribe(t, c) ==
    /\ ~ panicked
    /\ chan[c] = "unmade"
    /\ chan' = [chan EXCEPT ![c] = "open"]
    /\ subscribers' = [subscribers EXCEPT ![t] = Append(@, c)]
    /\ UNCHANGED <<buf, seen, pubVars, panicked>>

\* Mutant: the last element is dropped without being swapped in.
SwapRemove_NoSwap(s, i) == SubSeq(s, 1, Len(s) - 1)

\* Remove the element at i by swapping the last one in.
SwapRemove(s, i) == SubSeq([s EXCEPT ![i] = s[Len(s)]], 1, Len(s) - 1)

\* Mutant: Publish makes no copy but ranges over the topic's own slice, into
\* which the removal writes.
Unsubscribe_IntoRange(t, c) ==
    /\ ~ panicked
    /\ \E i \in 1 .. Len(subscribers[t]) :
          /\ subscribers[t][i] = c
          /\ subscribers' = [subscribers EXCEPT ![t] = SwapRemove(@, i)]
    /\ todo' = [p \in Publishers |->
                  IF topic[p] # t THEN todo[p]
                  ELSE [k \in DOMAIN todo[p] |->
                          IF todo[p][k] = c THEN Last(subscribers[t]) ELSE todo[p][k]]]
    /\ chan' = [chan EXCEPT ![c] = "closed"]
    /\ panicked' = (chan[c] = "closed")
    /\ UNCHANGED <<buf, seen, sent, topic>>

\* Unsubscribe of a channel that is on the topic; any other call is a no-op.
Unsubscribe(t, c) ==
    /\ ~ panicked
    /\ \E i \in 1 .. Len(subscribers[t]) :
          /\ subscribers[t][i] = c
          /\ \A k \in 1 .. i - 1 : subscribers[t][k] # c
          /\ subscribers' = [subscribers EXCEPT ![t] = SwapRemove(@, i)]
    /\ chan' = [chan EXCEPT ![c] = "closed"]
    /\ panicked' = (chan[c] = "closed")   \* close of a closed channel
    /\ UNCHANGED <<buf, seen, pubVars>>

Close ==
    /\ ~ panicked
    /\ \E t \in Topics : subscribers[t] # <<>>
    /\ LET ended == UNION {ToSet(subscribers[t]) : t \in Topics}
       IN  /\ chan' = [c \in Channels |-> IF c \in ended THEN "closed" ELSE chan[c]]
           /\ panicked' = (\E c \in ended : chan[c] = "closed")
    /\ subscribers' = [t \in Topics |-> <<>>]
    /\ UNCHANGED <<buf, seen, pubVars>>

\* Publish, up to the RUnlock.
PublishCopy(p, t) ==
    /\ ~ panicked
    /\ todo[p] = <<>>
    /\ sent[p] < MaxPublish
    /\ sent' = [sent EXCEPT ![p] = @ + 1]
    /\ topic' = [topic EXCEPT ![p] = t]
    /\ todo' = [todo EXCEPT ![p] = subscribers[t]]
    /\ UNCHANGED <<subscribers, chan, buf, seen, panicked>>

message(p) == [by |-> p, number |-> sent[p], topic |-> topic[p]]

\* Mutant: the send has no default case and waits for room.
PublishSend_Blocking(p) ==
    /\ ~ panicked
    /\ todo[p] # <<>>
    /\ LET c == Head(todo[p])
       IN  \/ /\ chan[c] = "closed"
              /\ panicked' = TRUE
              /\ UNCHANGED buf
           \/ /\ chan[c] = "open" /\ Len(buf[c]) < Capacity
              /\ buf' = [buf EXCEPT ![c] = Append(@, message(p))]
              /\ UNCHANGED panicked
    /\ todo' = [todo EXCEPT ![p] = Tail(@)]
    /\ UNCHANGED <<subscribers, chan, seen, sent, topic>>

\* Mutant: the fullness check is off by one.
PublishSend_OneTooMany(p) ==
    /\ ~ panicked
    /\ todo[p] # <<>>
    /\ LET c == Head(todo[p])
       IN  buf' = IF Len(buf[c]) <= Capacity
                  THEN [buf EXCEPT ![c] = Append(@, message(p))] ELSE buf
    /\ todo' = [todo EXCEPT ![p] = Tail(@)]
    /\ UNCHANGED <<subscribers, chan, seen, sent, topic, panicked>>

\* One turn of Publish's loop: a send that would block is dropped, and a send
\* on a closed channel panics.
PublishSend(p) ==
    /\ ~ panicked
    /\ todo[p] # <<>>
    /\ LET c == Head(todo[p])
       IN  \/ /\ chan[c] = "closed"
              /\ panicked' = TRUE
              /\ UNCHANGED buf
           \/ /\ chan[c] = "open" /\ Len(buf[c]) < Capacity
              /\ buf' = [buf EXCEPT ![c] = Append(@, message(p))]
              /\ UNCHANGED panicked
           \/ /\ chan[c] = "open" /\ Len(buf[c]) >= Capacity
              /\ UNCHANGED <<buf, panicked>>
    /\ todo' = [todo EXCEPT ![p] = Tail(@)]
    /\ UNCHANGED <<subscribers, chan, seen, sent, topic>>

\* The subscriber receives; a closed channel still hands out what it holds.
Receive(c) ==
    /\ ~ panicked
    /\ buf[c] # <<>>
    /\ seen' = [seen EXCEPT ![c][Head(buf[c]).by] = Head(buf[c]).number]
    /\ buf' = [buf EXCEPT ![c] = Tail(@)]
    /\ UNCHANGED <<subscribers, chan, pubVars, panicked>>

Next ==
    \/ \E t \in Topics, c \in Channels : Subscribe(t, c) \/ Unsubscribe(t, c)
    \/ Close
    \/ \E p \in Publishers, t \in Topics : PublishCopy(p, t)
    \/ \E p \in Publishers : PublishSend(p)
    \/ \E c \in Channels : Receive(c)

Spec == Init /\ [][Next]_vars
-----------------------------------------------------------------------------
\* Where a channel is registered: topic and index in the topic's slice.
Places(c) ==
    {x \in Topics \X (1 .. Cardinality(Channels)) :
        x[2] <= Len(subscribers[x[1]]) /\ subscribers[x[1]][x[2]] = c}

\* The registry is exact: the registered channels are the open ones, each on
\* one topic and once, so that the swap-with-last removal loses nobody and
\* neither Unsubscribe nor Close closes a channel twice.
RegistryExact ==
    \A c \in Channels : Cardinality(Places(c)) = IF chan[c] = "open" THEN 1 ELSE 0

\* A subscriber gets the messages of its topic only, those of one publisher in
\* the order they were published and none twice, whatever is dropped in
\* between.
DeliveredInOrder ==
    \A c \in Channels :
        /\ \A i \in 1 .. Len(buf[c]) : seen[c][buf[c][i].by] < buf[c][i].number
        /\ \A i, k \in 1 .. Len(buf[c]) :
              i < k /\ buf[c][i].by = buf[c][k].by => buf[c][i].number < buf[c][k].number
        /\ \A t \in Topics :
              c \in ToSet(subscribers[t]) => \A m \in ToSet(buf[c]) : m.topic = t

\* Publish always returns, without any subscriber receiving.
PublishReturns == \A p \in Publishers : todo[p] # <<>> ~> todo[p] = <<>> \/ panicked

\* pubsub.go:20, "a thread-safe publish-subscribe broker": no interleaving of
\* its methods panics.
NeverPanics == ~ panicked
=============================================================================
