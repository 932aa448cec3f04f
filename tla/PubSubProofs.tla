---------------------------- MODULE PubSubProofs ----------------------------
(***************************************************************************)
(* What TLAPS proves about the broker of system-design/pub-sub/pubsub.go   *)
(* for every set of topics and publishers, any finite number of            *)
(* subscriptions and every buffer size.                                    *)
(***************************************************************************)
EXTENDS PubSub, FiniteSetTheorems, SequenceTheorems, TLAPS

\* c is an element of the slice s.
On(s, c) == \E i \in 1 .. Len(s) : s[i] = c

\* The slice s has no element twice.
Distinct(s) == \A i, k \in 1 .. Len(s) : s[i] = s[k] => i = k

LEMMA OnToSet ==
    ASSUME NEW S, NEW s \in Seq(S), NEW c PROVE c \in ToSet(s) <=> On(s, c)
BY DEF ToSet, On

LEMMA OnEmpty == Distinct(<<>>) /\ \A c : ~ On(<<>>, c)
BY DEF On, Distinct

LEMMA OnAppend ==
    ASSUME NEW S, NEW s \in Seq(S), NEW x \in S
    PROVE  /\ Append(s, x) \in Seq(S)
           /\ Len(Append(s, x)) = Len(s) + 1
           /\ \A c : On(Append(s, x), c) <=> On(s, c) \/ c = x
           /\ Distinct(s) /\ ~ On(s, x) => Distinct(Append(s, x))
<1> DEFINE a == Append(s, x)
<1>1. /\ a \in Seq(S) /\ Len(s) \in Nat /\ Len(a) = Len(s) + 1
      /\ \A i \in 1 .. Len(s) : a[i] = s[i]
      /\ a[Len(s) + 1] = x
  BY AppendProperties
<1> HIDE DEF a
<1>2. ASSUME NEW c, On(a, c) PROVE On(s, c) \/ c = x
  <2>1. PICK i \in 1 .. Len(s) + 1 : a[i] = c
    BY <1>1, <1>2 DEF On
  <2>2. i \in 1 .. Len(s) \/ i = Len(s) + 1
    BY <1>1, <2>1
  <2>3. QED
    BY <1>1, <2>1, <2>2 DEF On
<1>3. ASSUME NEW c, On(s, c) PROVE On(a, c)
  <2>1. PICK i \in 1 .. Len(s) : s[i] = c
    BY <1>3 DEF On
  <2>2. i \in 1 .. Len(a) /\ a[i] = c
    BY <1>1, <2>1
  <2>3. QED
    BY <2>2 DEF On
<1>4. On(a, x)
  BY <1>1 DEF On
<1>5. ASSUME Distinct(s), ~ On(s, x) PROVE Distinct(a)
  <2>1. \A i \in 1 .. Len(s) : a[i] # x
    BY <1>1, <1>5 DEF On
  <2>2. \A i, k \in 1 .. Len(s) : a[i] = a[k] => i = k
    BY <1>1, <1>5 DEF Distinct
  <2>3. \A i \in 1 .. Len(a) : i \in 1 .. Len(s) \/ i = Len(s) + 1
    BY <1>1
  <2>4. QED
    BY <1>1, <2>1, <2>2, <2>3 DEF Distinct
<1>6. QED
  BY <1>1, <1>2, <1>3, <1>4, <1>5 DEF a

LEMMA OnTail ==
    ASSUME NEW S, NEW s \in Seq(S), s # <<>>
    PROVE  /\ Head(s) \in S /\ Tail(s) \in Seq(S)
           /\ On(s, Head(s))
           /\ \A c : On(Tail(s), c) => On(s, c)
           /\ Distinct(s) => Distinct(Tail(s)) /\ ~ On(Tail(s), Head(s))
<1>1. /\ Head(s) \in S /\ Tail(s) \in Seq(S)
      /\ Len(s) \in Nat \ {0} /\ Len(Tail(s)) = Len(s) - 1
      /\ Head(s) = s[1]
      /\ \A i \in 1 .. Len(s) - 1 : Tail(s)[i] = s[i + 1]
  OBVIOUS
<1>2. On(s, Head(s))
  BY <1>1 DEF On
<1>3. ASSUME NEW c, On(Tail(s), c) PROVE On(s, c)
  <2>1. PICK i \in 1 .. Len(s) - 1 : Tail(s)[i] = c
    BY <1>1, <1>3 DEF On
  <2>2. i + 1 \in 1 .. Len(s) /\ s[i + 1] = c
    BY <1>1, <2>1
  <2>3. QED
    BY <2>2 DEF On
<1>4. ASSUME Distinct(s) PROVE Distinct(Tail(s)) /\ ~ On(Tail(s), Head(s))
  <2>1. \A i \in 1 .. Len(s) - 1 : i + 1 \in 1 .. Len(s) /\ i + 1 # 1
    BY <1>1
  <2>2. ASSUME NEW i \in 1 .. Len(s) - 1 PROVE Tail(s)[i] # Head(s)
    BY <1>1, <1>4, <2>1 DEF Distinct
  <2>3. ASSUME NEW i \in 1 .. Len(s) - 1, NEW k \in 1 .. Len(s) - 1,
               Tail(s)[i] = Tail(s)[k]
        PROVE  i = k
    <3>1. i + 1 = k + 1
      BY <1>1, <1>4, <2>1, <2>3 DEF Distinct
    <3>2. QED
      BY <3>1
  <2>4. QED
    BY <1>1, <2>2, <2>3 DEF On, Distinct
<1>5. QED
  BY <1>1, <1>2, <1>3, <1>4

\* The swap-with-last removal takes out the element at i and no other.
LEMMA SwapRemoveExact ==
    ASSUME NEW S, NEW s \in Seq(S), NEW i \in 1 .. Len(s), Distinct(s)
    PROVE  /\ SwapRemove(s, i) \in Seq(S)
           /\ Distinct(SwapRemove(s, i))
           /\ \A c : On(SwapRemove(s, i), c) <=> On(s, c) /\ c # s[i]
<1> DEFINE n == Len(s)
           e == [s EXCEPT ![i] = s[n]]
           r == SwapRemove(s, i)
<1>1. n \in Nat /\ n >= 1 /\ i \in 1 .. n /\ s[n] \in S /\ s[i] \in S
  OBVIOUS
<1>2. /\ e \in Seq(S) /\ Len(e) = n
      /\ \A j \in 1 .. n : e[j] = IF j = i THEN s[n] ELSE s[j]
  BY <1>1, ExceptSeq
<1>3. r = SubSeq(e, 1, n - 1)
  BY DEF SwapRemove
<1> HIDE DEF e, r
<1>4. /\ r \in Seq(S) /\ Len(r) = n - 1
      /\ \A j \in 1 .. n - 1 : r[j] = e[j]
  <2>1. 1 \in Int /\ n - 1 \in Int /\ \A j \in 1 .. n - 1 : e[j] \in S
    BY <1>1, <1>2
  <2>2. /\ SubSeq(e, 1, n - 1) \in Seq(S)
        /\ Len(SubSeq(e, 1, n - 1)) = IF 1 <= n - 1 THEN (n - 1) - 1 + 1 ELSE 0
        /\ \A j \in 1 .. (n - 1) - 1 + 1 : SubSeq(e, 1, n - 1)[j] = e[1 + j - 1]
    BY <2>1, SubSeqProperties
  <2> HIDE DEF n
  <2>3. QED
    BY <1>1, <1>3, <2>2
<1>5. \A j \in 1 .. n - 1 : r[j] = IF j = i THEN s[n] ELSE s[j]
  BY <1>1, <1>2, <1>4
<1>6. \A j, k \in 1 .. n : s[j] = s[k] => j = k
  BY DEF Distinct
<1>7. Distinct(r)
  <2>1. \A j \in 1 .. n - 1 : j \in 1 .. n /\ j # n
    BY <1>1
  <2>2. n \in 1 .. n
    BY <1>1
  <2> HIDE DEF n
  <2>3. QED
    BY <1>4, <1>5, <1>6, <2>1, <2>2 DEF Distinct
<1>8. ASSUME NEW c, On(r, c) PROVE On(s, c) /\ c # s[i]
  <2>1. PICK j \in 1 .. n - 1 : r[j] = c
    BY <1>4, <1>8 DEF On
  <2>2. PICK k \in 1 .. n : k # i /\ c = s[k]
    <3>1. CASE j = i
      BY <1>1, <1>5, <2>1, <3>1
    <3>2. CASE j # i
      BY <1>1, <1>5, <2>1, <3>2
    <3>3. QED
      BY <3>1, <3>2
  <2>3. QED
    BY <1>1, <1>6, <2>2 DEF On
<1>9. ASSUME NEW c, On(s, c), c # s[i] PROVE On(r, c)
  <2>1. PICK k \in 1 .. n : s[k] = c /\ k # i
    BY <1>9 DEF On
  <2>2. CASE k = n
    <3>1. i \in 1 .. n - 1 /\ r[i] = c
      BY <1>1, <1>5, <2>1, <2>2
    <3>2. QED
      BY <1>4, <3>1 DEF On
  <2>3. CASE k # n
    <3>1. k \in 1 .. n - 1 /\ r[k] = c
      BY <1>1, <1>5, <2>1, <2>3
    <3>2. QED
      BY <1>4, <3>1 DEF On
  <2>4. QED
    BY <2>2, <2>3
<1>10. QED
  BY <1>4, <1>7, <1>8, <1>9 DEF r

-----------------------------------------------------------------------------
LEMMA CapacityPositive == Capacity \in Nat /\ Capacity >= 1
BY PubSubAssumption DEF Capacity

\* The type invariant with the one fact it needs to be inductive: a publisher
\* that still has sends to do has numbered its message.
Typed == TypeOK /\ \A p \in Publishers : todo[p] # <<>> => sent[p] >= 1

LEMMA TypedInit == Init => Typed
<1> SUFFICES ASSUME Init PROVE Typed
  OBVIOUS
<1>1. Len(<<>>) = 0 /\ 0 \in 0 .. MaxPublish
  BY PubSubAssumption
<1>2. subscribers \in [Topics -> Seq(Channels)] /\ todo \in [Publishers -> Seq(Channels)]
  BY DEF Init
<1>3. /\ buf \in [Channels -> Seq(Messages)]
      /\ \A c \in Channels : Len(buf[c]) <= Capacity
  BY <1>1, CapacityPositive DEF Init
<1>4. seen \in [Channels -> [Publishers -> 0 .. MaxPublish]]
  BY <1>1 DEF Init
<1>5. sent \in [Publishers -> 0 .. MaxPublish] /\ topic \in [Publishers -> Topics]
  BY <1>1 DEF Init
<1>6. \A p \in Publishers : todo[p] = <<>>
  BY DEF Init
<1>7. QED
  BY <1>2, <1>3, <1>4, <1>5, <1>6 DEF Init, Typed, TypeOK

\* What a step of Receive changes.
LEMMA ReceiveEffect ==
    ASSUME TypeOK, NEW c \in Channels, Receive(c)
    PROVE  LET m == Head(buf[c])
           IN  /\ m \in Messages /\ m.by \in Publishers /\ m.number \in 1 .. MaxPublish
               /\ buf'[c] = Tail(buf[c]) /\ buf'[c] \in Seq(Messages)
               /\ Len(buf'[c]) = Len(buf[c]) - 1
               /\ Len(buf[c]) \in Nat \ {0}
               /\ m = buf[c][1]
               /\ \A i \in 1 .. Len(buf[c]) - 1 : buf'[c][i] = buf[c][i + 1]
               /\ buf' \in [Channels -> Seq(Messages)]
               /\ \A d \in Channels : d # c => buf'[d] = buf[d] /\ seen'[d] = seen[d]
               /\ seen' \in [Channels -> [Publishers -> 0 .. MaxPublish]]
               /\ seen'[c][m.by] = m.number
               /\ \A p \in Publishers : p # m.by => seen'[c][p] = seen[c][p]
<1> DEFINE m == Head(buf[c])
<1>1. buf[c] \in Seq(Messages) /\ buf[c] # <<>>
  BY DEF TypeOK, Receive
<1>2. /\ m \in Messages /\ m = buf[c][1]
      /\ Tail(buf[c]) \in Seq(Messages) /\ Len(Tail(buf[c])) = Len(buf[c]) - 1
      /\ Len(buf[c]) \in Nat \ {0}
      /\ \A i \in 1 .. Len(buf[c]) - 1 : Tail(buf[c])[i] = buf[c][i + 1]
  BY <1>1
<1>3. m.by \in Publishers /\ m.number \in 1 .. MaxPublish
  BY <1>2 DEF Messages
<1>4. m.number \in 0 .. MaxPublish
  BY <1>3, PubSubAssumption
<1>5. /\ buf' = [buf EXCEPT ![c] = Tail(@)]
      /\ seen' = [seen EXCEPT ![c][m.by] = m.number]
  BY DEF Receive
<1> HIDE DEF m
<1>6. /\ buf' \in [Channels -> Seq(Messages)]
      /\ buf'[c] = Tail(buf[c])
      /\ \A d \in Channels : d # c => buf'[d] = buf[d]
  BY <1>2, <1>5 DEF TypeOK
<1>7. /\ seen' \in [Channels -> [Publishers -> 0 .. MaxPublish]]
      /\ seen'[c][m.by] = m.number
      /\ \A d \in Channels : d # c => seen'[d] = seen[d]
      /\ \A p \in Publishers : p # m.by => seen'[c][p] = seen[c][p]
  BY <1>3, <1>4, <1>5 DEF TypeOK
<1>8. QED
  BY <1>2, <1>3, <1>6, <1>7 DEF m

\* What a send changes: the publisher's copy loses its head, and the head's
\* buffer keeps its messages and may get the publisher's at its end.
LEMMA SendEffect ==
    ASSUME Typed, NEW p \in Publishers, PublishSend(p)
    PROVE  LET c == Head(todo[p])
               n == Len(buf[c])
           IN  /\ c \in Channels /\ message(p) \in Messages
               /\ n \in Nat /\ n <= Capacity
               /\ todo' \in [Publishers -> Seq(Channels)] /\ todo'[p] = Tail(todo[p])
               /\ \A q \in Publishers : q # p => todo'[q] = todo[q]
               /\ buf' \in [Channels -> Seq(Messages)]
               /\ \A d \in Channels : d # c => buf'[d] = buf[d]
               /\ \/ buf'[c] = buf[c]
                  \/ /\ n < Capacity
                     /\ Len(buf'[c]) = n + 1 /\ buf'[c][n + 1] = message(p)
                     /\ \A i \in 1 .. n : buf'[c][i] = buf[c][i]
<1> DEFINE c == Head(todo[p])
           n == Len(buf[c])
<1>1. todo[p] \in Seq(Channels) /\ todo[p] # <<>> /\ sent[p] >= 1
  BY DEF Typed, TypeOK, PublishSend
<1>2. c \in Channels /\ Tail(todo[p]) \in Seq(Channels)
  BY <1>1
<1>3. message(p) \in Messages
  BY <1>1 DEF message, Messages, Typed, TypeOK
<1>4. buf[c] \in Seq(Messages) /\ n \in Nat /\ n <= Capacity
  BY <1>2 DEF Typed, TypeOK
<1>5. /\ todo' \in [Publishers -> Seq(Channels)] /\ todo'[p] = Tail(todo[p])
      /\ \A q \in Publishers : q # p => todo'[q] = todo[q]
  BY <1>2 DEF Typed, TypeOK, PublishSend
<1>6. \/ buf' = buf
      \/ n < Capacity /\ buf' = [buf EXCEPT ![c] = Append(@, message(p))]
  BY DEF PublishSend
<1>7. CASE buf' = buf
  BY <1>2, <1>3, <1>4, <1>5, <1>7 DEF Typed, TypeOK
<1>8. CASE n < Capacity /\ buf' = [buf EXCEPT ![c] = Append(@, message(p))]
  <2>1. /\ Append(buf[c], message(p)) \in Seq(Messages)
        /\ Len(Append(buf[c], message(p))) = n + 1
        /\ Append(buf[c], message(p))[n + 1] = message(p)
        /\ \A i \in 1 .. n : Append(buf[c], message(p))[i] = buf[c][i]
    BY <1>3, <1>4, AppendProperties
  <2>2. /\ buf' \in [Channels -> Seq(Messages)]
        /\ buf'[c] = Append(buf[c], message(p))
        /\ \A d \in Channels : d # c => buf'[d] = buf[d]
    BY <1>2, <1>8, <2>1 DEF Typed, TypeOK
  <2>3. QED
    BY <1>2, <1>3, <1>4, <1>5, <1>8, <2>1, <2>2
<1>9. QED
  BY <1>6, <1>7, <1>8

LEMMA TypedStep == Typed /\ [Next]_vars => Typed'
<1> SUFFICES ASSUME Typed, [Next]_vars PROVE Typed'
  OBVIOUS
<1> USE PubSubAssumption
<1>1. ASSUME NEW t \in Topics, NEW c \in Channels, Subscribe(t, c) PROVE Typed'
  <2>1. Append(subscribers[t], c) \in Seq(Channels)
    BY DEF Typed, TypeOK
  <2>2. subscribers' \in [Topics -> Seq(Channels)]
    BY <1>1, <2>1 DEF Subscribe, Typed, TypeOK
  <2>3. QED
    BY <1>1, <2>2 DEF Subscribe, Typed, TypeOK, pubVars
<1>2. ASSUME NEW t \in Topics, NEW c \in Channels, Unsubscribe(t, c) PROVE Typed'
  <2>1. PICK i \in 1 .. Len(subscribers[t]) :
              subscribers' = [subscribers EXCEPT ![t] = SwapRemove(@, i)]
    BY <1>2 DEF Unsubscribe
  <2>2. SwapRemove(subscribers[t], i) \in Seq(Channels)
    <3> DEFINE s == subscribers[t]
    <3>1. s \in Seq(Channels) /\ i \in 1 .. Len(s) /\ Len(s) \in Nat
      BY <2>1 DEF Typed, TypeOK
    <3>2. s[Len(s)] \in Channels
      BY <3>1
    <3> HIDE DEF s
    <3>3. /\ [s EXCEPT ![i] = s[Len(s)]] \in Seq(Channels)
          /\ Len([s EXCEPT ![i] = s[Len(s)]]) = Len(s)
      BY <3>1, <3>2, ExceptSeq
    <3>4. SubSeq([s EXCEPT ![i] = s[Len(s)]], 1, Len(s) - 1) \in Seq(Channels)
      BY <3>1, <3>3
    <3>5. QED
      BY <3>4 DEF SwapRemove, s
  <2>3. subscribers' \in [Topics -> Seq(Channels)]
    BY <2>1, <2>2 DEF Typed, TypeOK
  <2>4. QED
    BY <1>2, <2>3 DEF Unsubscribe, Typed, TypeOK, pubVars
<1>3. ASSUME Close PROVE Typed'
  <2>1. subscribers' \in [Topics -> Seq(Channels)]
    BY <1>3 DEF Close
  <2>2. chan' \in [Channels -> {"unmade", "open", "closed"}] /\ panicked' \in BOOLEAN
    BY <1>3 DEF Close, Typed, TypeOK
  <2>3. QED
    BY <1>3, <2>1, <2>2 DEF Close, Typed, TypeOK, pubVars
<1>4. ASSUME NEW p \in Publishers, NEW t \in Topics, PublishCopy(p, t) PROVE Typed'
  <2>1. /\ sent' \in [Publishers -> 0 .. MaxPublish]
        /\ sent'[p] >= 1 /\ \A q \in Publishers : q # p => sent'[q] = sent[q]
    BY <1>4 DEF PublishCopy, Typed, TypeOK
  <2>2. /\ todo' \in [Publishers -> Seq(Channels)] /\ topic' \in [Publishers -> Topics]
        /\ \A q \in Publishers : q # p => todo'[q] = todo[q]
    BY <1>4 DEF PublishCopy, Typed, TypeOK
  <2>3. QED
    BY <1>4, <2>1, <2>2 DEF PublishCopy, Typed, TypeOK
<1>5. ASSUME NEW p \in Publishers, PublishSend(p) PROVE Typed'
  <2> DEFINE c == Head(todo[p])
  <2>1. todo[p] # <<>> /\ UNCHANGED <<subscribers, chan, seen, sent, topic>>
    BY <1>5 DEF PublishSend
  <2>2. panicked' \in BOOLEAN
    BY <1>5 DEF PublishSend, Typed, TypeOK
  <2>3. \A d \in Channels : Len(buf'[d]) <= Capacity
    <3>1. \A d \in Channels : d # c => Len(buf'[d]) <= Capacity
      BY <1>5, SendEffect DEF Typed, TypeOK
    <3>2. /\ Len(buf[c]) \in Nat /\ Len(buf[c]) <= Capacity
          /\ \/ Len(buf'[c]) = Len(buf[c])
             \/ Len(buf[c]) < Capacity /\ Len(buf'[c]) = Len(buf[c]) + 1
      BY <1>5, SendEffect
    <3> HIDE DEF c
    <3>3. Len(buf'[c]) <= Capacity
      BY <3>2, CapacityPositive
    <3>4. QED
      BY <3>1, <3>3
  <2>4. \A q \in Publishers : todo'[q] # <<>> => sent[q] >= 1
    BY <1>5, <2>1, SendEffect DEF Typed
  <2>5. buf' \in [Channels -> Seq(Messages)] /\ todo' \in [Publishers -> Seq(Channels)]
    BY <1>5, SendEffect
  <2>6. QED
    BY <2>1, <2>2, <2>3, <2>4, <2>5 DEF Typed, TypeOK
<1>6. ASSUME NEW c \in Channels, Receive(c) PROVE Typed'
  <2>1. TypeOK
    BY DEF Typed
  <2>2. /\ buf' \in [Channels -> Seq(Messages)]
        /\ seen' \in [Channels -> [Publishers -> 0 .. MaxPublish]]
        /\ \A d \in Channels : d # c => buf'[d] = buf[d]
        /\ Len(buf'[c]) = Len(buf[c]) - 1 /\ Len(buf[c]) \in Nat
    BY <1>6, <2>1, ReceiveEffect
  <2>3. \A d \in Channels : Len(buf'[d]) <= Capacity
    <3>1. Len(buf[c]) <= Capacity
      BY <2>1 DEF TypeOK
    <3>2. Len(buf'[c]) <= Capacity
      BY <2>2, <3>1, CapacityPositive
    <3>3. \A d \in Channels : d # c => Len(buf'[d]) <= Capacity
      BY <2>1, <2>2 DEF TypeOK
    <3>4. QED
      BY <3>2, <3>3
  <2>4. QED
    BY <1>6, <2>2, <2>3 DEF Receive, Typed, TypeOK, pubVars
<1>7. ASSUME UNCHANGED vars PROVE Typed'
  BY <1>7 DEF vars, Typed, TypeOK
<1>8. QED
  BY <1>1, <1>2, <1>3, <1>4, <1>5, <1>6, <1>7 DEF Next

\* Publish's select with default never overfills a subscriber's buffer, and
\* every variable keeps its range.
THEOREM BrokerTyped == Spec => []TypeOK
<1>1. Typed => TypeOK
  BY DEF Typed
<1>2. QED
  BY <1>1, TypedInit, TypedStep, PTL DEF Spec

-----------------------------------------------------------------------------
\* The open channels are those some topic's slice holds, each slice holds a
\* channel once, and no two topics hold the same one.
Registry ==
    /\ \A c \in Channels : chan[c] = "open" <=> \E t \in Topics : On(subscribers[t], c)
    /\ \A t \in Topics : Distinct(subscribers[t])
    /\ \A t, u \in Topics, c \in Channels :
          On(subscribers[t], c) /\ On(subscribers[u], c) => t = u

\* What a publisher in the middle of its sends, and a channel, remember of the
\* messages: a channel still to be sent to has none of the current message, no
\* channel is sent to twice, and a channel keeps to the topic it was made for.
Delivery ==
    /\ \A c \in Channels : chan[c] = "unmade" => buf[c] = <<>>
    /\ \A c \in Channels : \A i \in 1 .. Len(buf[c]) :
          buf[c][i].number <= sent[buf[c][i].by]
    /\ \A c \in Channels, p \in Publishers : seen[c][p] <= sent[p]
    /\ \A p \in Publishers : Distinct(todo[p])
    /\ \A p \in Publishers, c \in Channels : On(todo[p], c) =>
          /\ chan[c] # "unmade"
          /\ seen[c][p] < sent[p]
          /\ \A i \in 1 .. Len(buf[c]) : buf[c][i].by = p => buf[c][i].number < sent[p]
          /\ \A t \in Topics : On(subscribers[t], c) => topic[p] = t

BrokerInv == Typed /\ Registry /\ Delivery /\ DeliveredInOrder

\* What Subscribe, Unsubscribe and Close do to the topics' slices.
LEMMA SubscribeEffect ==
    ASSUME Typed, Registry, NEW t \in Topics, NEW c \in Channels, Subscribe(t, c)
    PROVE  /\ \A u \in Topics : ~ On(subscribers[u], c)
           /\ \A u \in Topics : \A d :
                 On(subscribers'[u], d) <=> On(subscribers[u], d) \/ (u = t /\ d = c)
           /\ \A u \in Topics : Distinct(subscribers'[u])
<1>1. chan[c] = "unmade" /\ subscribers' = [subscribers EXCEPT ![t] = Append(@, c)]
  BY DEF Subscribe
<1>2. \A u \in Topics : ~ On(subscribers[u], c)
  BY <1>1 DEF Registry
<1>3. subscribers[t] \in Seq(Channels) /\ Distinct(subscribers[t])
  BY DEF Typed, TypeOK, Registry
<1>4. /\ \A d : On(Append(subscribers[t], c), d) <=> On(subscribers[t], d) \/ d = c
      /\ Distinct(Append(subscribers[t], c))
  BY <1>2, <1>3, OnAppend
<1>5. /\ subscribers'[t] = Append(subscribers[t], c)
      /\ \A u \in Topics : u # t => subscribers'[u] = subscribers[u]
  BY <1>1 DEF Typed, TypeOK
<1>6. \A u \in Topics : Distinct(subscribers'[u])
  BY <1>4, <1>5 DEF Registry
<1>7. ASSUME NEW u \in Topics, NEW d
      PROVE  On(subscribers'[u], d) <=> On(subscribers[u], d) \/ (u = t /\ d = c)
  BY <1>4, <1>5
<1>8. QED
  BY <1>2, <1>6, <1>7

LEMMA UnsubscribeEffect ==
    ASSUME Typed, Registry, NEW t \in Topics, NEW c \in Channels, Unsubscribe(t, c)
    PROVE  /\ On(subscribers[t], c)
           /\ \A u \in Topics : \A d :
                 On(subscribers'[u], d) <=> On(subscribers[u], d) /\ ~ (u = t /\ d = c)
           /\ \A u \in Topics : Distinct(subscribers'[u])
<1>1. PICK i \in 1 .. Len(subscribers[t]) :
            /\ subscribers[t][i] = c
            /\ subscribers' = [subscribers EXCEPT ![t] = SwapRemove(@, i)]
  BY DEF Unsubscribe
<1>2. On(subscribers[t], c)
  BY <1>1 DEF On
<1>3. subscribers[t] \in Seq(Channels) /\ Distinct(subscribers[t])
  BY DEF Typed, TypeOK, Registry
<1>4. /\ \A d : On(SwapRemove(subscribers[t], i), d) <=> On(subscribers[t], d) /\ d # c
      /\ Distinct(SwapRemove(subscribers[t], i))
  BY <1>1, <1>3, SwapRemoveExact
<1>5. /\ subscribers'[t] = SwapRemove(subscribers[t], i)
      /\ \A u \in Topics : u # t => subscribers'[u] = subscribers[u]
  BY <1>1 DEF Typed, TypeOK
<1>6. \A u \in Topics : Distinct(subscribers'[u])
  BY <1>4, <1>5 DEF Registry
<1>7. ASSUME NEW u \in Topics, NEW d
      PROVE  On(subscribers'[u], d) <=> On(subscribers[u], d) /\ ~ (u = t /\ d = c)
  BY <1>4, <1>5
<1>8. QED
  BY <1>2, <1>6, <1>7

LEMMA CloseEffect ==
    ASSUME Typed, Close
    PROVE  /\ \A u \in Topics : subscribers'[u] = <<>> /\ Distinct(subscribers'[u])
           /\ \A u \in Topics : \A d : ~ On(subscribers'[u], d)
           /\ \A c \in Channels :
                 chan'[c] = IF \E t \in Topics : On(subscribers[t], c)
                            THEN "closed" ELSE chan[c]
<1>1. \A u \in Topics : subscribers'[u] = <<>>
  BY DEF Close
<1>2. \A c \in Channels, t \in Topics : c \in ToSet(subscribers[t]) <=> On(subscribers[t], c)
  BY OnToSet DEF Typed, TypeOK
<1>3. \A c \in Channels :
         c \in UNION {ToSet(subscribers[t]) : t \in Topics}
            <=> \E t \in Topics : On(subscribers[t], c)
  BY <1>2
<1>4. \A c \in Channels :
         chan'[c] = IF c \in UNION {ToSet(subscribers[t]) : t \in Topics}
                    THEN "closed" ELSE chan[c]
  BY DEF Close
<1>5. \A u \in Topics : \A d : ~ On(subscribers'[u], d)
  BY <1>1, OnEmpty
<1>6. \A u \in Topics : Distinct(subscribers'[u])
  BY <1>1, OnEmpty
<1>7. \A c \in Channels :
         chan'[c] = IF \E t \in Topics : On(subscribers[t], c) THEN "closed" ELSE chan[c]
  BY <1>3, <1>4
<1>8. QED
  BY <1>1, <1>5, <1>6, <1>7

LEMMA RegistryInit == Init => Registry
<1> SUFFICES ASSUME Init PROVE Registry
  OBVIOUS
<1>1. \A t \in Topics : subscribers[t] = <<>>
  BY DEF Init
<1>2. \A c \in Channels : chan[c] # "open"
  BY DEF Init
<1>3. QED
  BY <1>1, <1>2, OnEmpty DEF Registry

LEMMA RegistryStep == Typed /\ Registry /\ [Next]_vars => Registry'
<1> SUFFICES ASSUME Typed, Registry, [Next]_vars PROVE Registry'
  OBVIOUS
<1>1. ASSUME NEW t \in Topics, NEW c \in Channels, Subscribe(t, c) PROVE Registry'
  <2>1. chan'[c] = "open" /\ \A d \in Channels : d # c => chan'[d] = chan[d]
    BY <1>1 DEF Subscribe, Typed, TypeOK
  <2>2. /\ \A u \in Topics : ~ On(subscribers[u], c)
        /\ \A u \in Topics : \A d :
              On(subscribers'[u], d) <=> On(subscribers[u], d) \/ (u = t /\ d = c)
        /\ \A u \in Topics : Distinct(subscribers'[u])
    BY <1>1, SubscribeEffect
  <2>3. QED
    BY <2>1, <2>2, SMTT(30) DEF Registry
<1>2. ASSUME NEW t \in Topics, NEW c \in Channels, Unsubscribe(t, c) PROVE Registry'
  <2>1. chan'[c] = "closed" /\ \A d \in Channels : d # c => chan'[d] = chan[d]
    BY <1>2 DEF Unsubscribe, Typed, TypeOK
  <2>2. /\ On(subscribers[t], c)
        /\ \A u \in Topics : \A d :
              On(subscribers'[u], d) <=> On(subscribers[u], d) /\ ~ (u = t /\ d = c)
        /\ \A u \in Topics : Distinct(subscribers'[u])
    BY <1>2, UnsubscribeEffect
  <2>3. \A u \in Topics : ~ On(subscribers'[u], c)
    BY <2>2 DEF Registry
  <2>4. \A u \in Topics, d \in Channels :
           d # c => (On(subscribers'[u], d) <=> On(subscribers[u], d))
    BY <2>2
  <2>5. \A d \in Channels : chan'[d] = "open" <=> \E u \in Topics : On(subscribers'[u], d)
    BY <2>1, <2>3, <2>4 DEF Registry
  <2>6. \A u, v \in Topics, d \in Channels :
           On(subscribers'[u], d) /\ On(subscribers'[v], d) => u = v
    BY <2>2 DEF Registry
  <2>7. QED
    BY <2>2, <2>5, <2>6 DEF Registry
<1>3. ASSUME Close PROVE Registry'
  BY <1>3, CloseEffect DEF Registry
<1>4. ASSUME UNCHANGED <<subscribers, chan>> PROVE Registry'
  BY <1>4 DEF Registry
<1>5. QED
  BY <1>1, <1>2, <1>3, <1>4 DEF Next, PublishCopy, PublishSend, Receive, vars

\* A slice without repetition is no longer than there are channels.
LEMMA SliceBounded ==
    ASSUME NEW s \in Seq(Channels), Distinct(s)
    PROVE  /\ Cardinality(Channels) \in Nat
           /\ Len(s) \in Nat /\ Len(s) <= Cardinality(Channels)
<1>1. IsFiniteSet(Channels) /\ Cardinality(Channels) \in Nat
  BY PubSubAssumption, FS_CardinalityType
<1>2. Len(s) \in Nat /\ s \in [1 .. Len(s) -> Channels]
  OBVIOUS
<1>3. s \in Injection(1 .. Len(s), Channels)
  BY <1>2 DEF Distinct, Injection, IsInjective
<1>4. Cardinality(1 .. Len(s)) <= Cardinality(Channels)
  BY <1>1, <1>3, FS_Injection
<1>5. Cardinality(1 .. Len(s)) = Len(s)
  <2>1. 1 \in Int /\ Len(s) \in Int
    BY <1>2
  <2>2. Cardinality(1 .. Len(s)) = IF 1 > Len(s) THEN 0 ELSE Len(s) - 1 + 1
    BY <2>1, FS_Interval
  <2>3. QED
    BY <1>2, <2>2
<1>6. QED
  BY <1>1, <1>2, <1>4, <1>5

\* An open channel is registered in one place, any other in none.
LEMMA RegistryPlaces == Typed /\ Registry => RegistryExact
<1> SUFFICES ASSUME Typed, Registry, NEW c \in Channels
             PROVE  Cardinality(Places(c)) = IF chan[c] = "open" THEN 1 ELSE 0
  BY DEF RegistryExact
<1>1. \A t \in Topics : subscribers[t] \in Seq(Channels) /\ Distinct(subscribers[t])
  BY DEF Typed, TypeOK, Registry
<1>2. CASE chan[c] = "open"
  <2>1. PICK t \in Topics : On(subscribers[t], c)
    BY <1>2 DEF Registry
  <2>2. PICK i \in 1 .. Len(subscribers[t]) : subscribers[t][i] = c
    BY <2>1 DEF On
  <2>3. i \in 1 .. Cardinality(Channels) /\ i <= Len(subscribers[t])
    BY <1>1, <2>2, SliceBounded
  <2>4. <<t, i>> \in Places(c)
    BY <2>2, <2>3 DEF Places
  <2>5. ASSUME NEW x \in Places(c) PROVE x = <<t, i>>
    <3>1. PICK u \in Topics, k \in 1 .. Cardinality(Channels) :
                x = <<u, k>> /\ k <= Len(subscribers[u]) /\ subscribers[u][k] = c
      BY <2>5 DEF Places
    <3>2. k \in 1 .. Len(subscribers[u])
      BY <1>1, <3>1, SliceBounded
    <3>3. On(subscribers[u], c)
      BY <3>1, <3>2 DEF On
    <3>4. u = t
      BY <2>1, <3>3 DEF Registry
    <3>5. k = i
      BY <1>1, <2>2, <3>1, <3>2, <3>4 DEF Distinct
    <3>6. QED
      BY <3>1, <3>4, <3>5
  <2>6. Places(c) = {<<t, i>>}
    BY <2>4, <2>5
  <2>7. QED
    BY <1>2, <2>6, FS_Singleton
<1>3. CASE chan[c] # "open"
  <2>1. ASSUME NEW x \in Places(c) PROVE FALSE
    <3>1. PICK u \in Topics, k \in 1 .. Cardinality(Channels) :
                x = <<u, k>> /\ k <= Len(subscribers[u]) /\ subscribers[u][k] = c
      BY <2>1 DEF Places
    <3>2. k \in 1 .. Len(subscribers[u])
      BY <1>1, <3>1, SliceBounded
    <3>3. On(subscribers[u], c)
      BY <3>1, <3>2 DEF On
    <3>4. QED
      BY <1>3, <3>1, <3>3 DEF Registry
  <2>2. Places(c) = {}
    BY <2>1
  <2>3. QED
    BY <1>3, <2>2, FS_EmptySet
<1>4. QED
  BY <1>2, <1>3

\* Whatever the order of Subscribe, Unsubscribe and Close calls, the registered
\* channels are the open ones, each in one place.
THEOREM BrokerRegistryExact == Spec => []RegistryExact
BY TypedInit, TypedStep, RegistryInit, RegistryStep, RegistryPlaces, PTL DEF Spec

-----------------------------------------------------------------------------
\* DeliveredInOrder with the slices and buffers read by index.
InOrder ==
    \A c \in Channels :
        /\ \A i \in 1 .. Len(buf[c]) : seen[c][buf[c][i].by] < buf[c][i].number
        /\ \A i, k \in 1 .. Len(buf[c]) :
              i < k /\ buf[c][i].by = buf[c][k].by => buf[c][i].number < buf[c][k].number
        /\ \A t \in Topics : On(subscribers[t], c) =>
              \A i \in 1 .. Len(buf[c]) : buf[c][i].topic = t

LEMMA InOrderDelivered == TypeOK => (DeliveredInOrder <=> InOrder)
<1> SUFFICES ASSUME TypeOK PROVE DeliveredInOrder <=> InOrder
  OBVIOUS
<1>1. \A c \in Channels, t \in Topics : c \in ToSet(subscribers[t]) <=> On(subscribers[t], c)
  BY OnToSet DEF TypeOK
<1>2. ASSUME NEW c \in Channels, NEW t \in Topics
      PROVE  (\A m \in ToSet(buf[c]) : m.topic = t)
                <=> \A i \in 1 .. Len(buf[c]) : buf[c][i].topic = t
  <2>1. buf[c] \in Seq(Messages)
    BY DEF TypeOK
  <2>2. ToSet(buf[c]) = {buf[c][i] : i \in 1 .. Len(buf[c])}
    BY <2>1 DEF ToSet
  <2>3. QED
    BY <2>2
<1>3. QED
  BY <1>1, <1>2 DEF DeliveredInOrder, InOrder

LEMMA DeliveryInit == Init => Delivery /\ InOrder
<1> SUFFICES ASSUME Init PROVE Delivery /\ InOrder
  OBVIOUS
<1>1. \A c \in Channels : buf[c] = <<>> /\ Len(buf[c]) = 0
  BY DEF Init
<1>2. \A p \in Publishers : todo[p] = <<>> /\ sent[p] = 0
  BY DEF Init
<1>3. \A c \in Channels, p \in Publishers : seen[c][p] = 0
  BY DEF Init
<1>4. \A c \in Channels : 1 .. Len(buf[c]) = {}
  BY <1>1
<1>5. InOrder
  BY <1>4 DEF InOrder
<1>6. Delivery
  BY <1>1, <1>2, <1>3, <1>4, OnEmpty DEF Delivery
<1>7. QED
  BY <1>5, <1>6

\* Steps of the registry: they touch no message and register only channels
\* that were not made yet, which nobody has sent to.
LEMMA DeliveryRegistry ==
    ASSUME Delivery, InOrder, UNCHANGED <<buf, seen, sent, topic, todo>>,
           \A c \in Channels : chan'[c] = "unmade" => chan[c] = "unmade",
           \A t \in Topics, c \in Channels :
              On(subscribers'[t], c) => On(subscribers[t], c) \/ chan[c] = "unmade"
    PROVE  Delivery' /\ InOrder'
<1>1. ASSUME NEW p \in Publishers, NEW c \in Channels, On(todo[p], c)
      PROVE  /\ chan'[c] # "unmade"
             /\ \A t \in Topics : On(subscribers'[t], c) => topic[p] = t
  BY <1>1 DEF Delivery
<1>2. Delivery'
  BY <1>1 DEF Delivery
<1>3. ASSUME NEW c \in Channels, NEW t \in Topics, On(subscribers'[t], c),
             NEW i \in 1 .. Len(buf[c])
      PROVE  buf[c][i].topic = t
  <2>1. CASE On(subscribers[t], c)
    BY <2>1 DEF InOrder
  <2>2. CASE chan[c] = "unmade"
    BY <1>3, <2>2 DEF Delivery
  <2>3. QED
    BY <1>3, <2>1, <2>2
<1>4. InOrder'
  BY <1>3 DEF InOrder
<1>5. QED
  BY <1>2, <1>4

\* The numbers the invariants compare.
LEMMA Numbers ==
    ASSUME TypeOK
    PROVE  /\ \A c \in Channels : /\ Len(buf[c]) \in Nat
                               /\ \A i \in 1 .. Len(buf[c]) :
                                     /\ buf[c][i].number \in Nat
                                     /\ buf[c][i].by \in Publishers
           /\ \A c \in Channels, q \in Publishers : seen[c][q] \in Nat
           /\ \A q \in Publishers : sent[q] \in Nat
<1>1. ASSUME NEW c \in Channels
      PROVE  Len(buf[c]) \in Nat /\ \A i \in 1 .. Len(buf[c]) : buf[c][i] \in Messages
  <2>1. buf[c] \in Seq(Messages)
    BY DEF TypeOK
  <2>2. QED
    BY <2>1
<1>2. \A m \in Messages : m.number \in Nat /\ m.by \in Publishers
  BY PubSubAssumption DEF Messages
<1>3. \A c \in Channels, q \in Publishers : seen[c][q] \in Nat
  BY PubSubAssumption DEF TypeOK
<1>4. \A q \in Publishers : sent[q] \in Nat
  BY PubSubAssumption DEF TypeOK
<1>5. QED
  BY <1>1, <1>2, <1>3, <1>4

LEMMA DeliveryCopy ==
    ASSUME Typed, Registry, Delivery, InOrder,
           NEW p \in Publishers, NEW t \in Topics, PublishCopy(p, t)
    PROVE  Delivery' /\ InOrder'
<1>1. UNCHANGED <<subscribers, chan, buf, seen>>
  BY DEF PublishCopy
<1>2. /\ sent'[p] = sent[p] + 1 /\ topic'[p] = t /\ todo'[p] = subscribers[t]
      /\ \A q \in Publishers :
            q # p => sent'[q] = sent[q] /\ topic'[q] = topic[q] /\ todo'[q] = todo[q]
  BY DEF PublishCopy, Typed, TypeOK
<1>3. \A q \in Publishers : sent[q] \in Nat
  BY Numbers DEF Typed
<1>4. \A c \in Channels : \A i \in 1 .. Len(buf[c]) :
         buf[c][i].number \in Nat /\ buf[c][i].by \in Publishers
  BY Numbers DEF Typed
<1>5. \A c \in Channels, q \in Publishers : seen[c][q] \in Nat
  BY Numbers DEF Typed
<1>6. \A c \in Channels : \A i \in 1 .. Len(buf[c]) : buf[c][i].number <= sent'[buf[c][i].by]
  BY <1>2, <1>3, <1>4, SMTT(30) DEF Delivery
<1>7. \A c \in Channels, q \in Publishers : seen[c][q] <= sent'[q]
  BY <1>2, <1>3, <1>5 DEF Delivery
<1>8. \A q \in Publishers : Distinct(todo'[q])
  BY <1>2 DEF Delivery, Registry
<1>9. ASSUME NEW q \in Publishers, NEW c \in Channels, On(todo'[q], c)
      PROVE  /\ chan[c] # "unmade"
             /\ seen[c][q] < sent'[q]
             /\ \A i \in 1 .. Len(buf[c]) : buf[c][i].by = q => buf[c][i].number < sent'[q]
             /\ \A u \in Topics : On(subscribers[u], c) => topic'[q] = u
  <2>1. CASE q # p
    BY <1>2, <1>9, <2>1 DEF Delivery
  <2>2. CASE q = p
    <3>1. On(subscribers[t], c)
      BY <1>2, <1>9, <2>2
    <3>2. chan[c] = "open" /\ \A u \in Topics : On(subscribers[u], c) => topic'[q] = u
      BY <1>2, <2>2, <3>1 DEF Registry
    <3>3. seen[c][q] < sent'[q]
      BY <1>2, <1>3, <1>5, <2>2 DEF Delivery
    <3>4. \A i \in 1 .. Len(buf[c]) : buf[c][i].by = q => buf[c][i].number < sent'[q]
      BY <1>2, <1>3, <1>4, <2>2 DEF Delivery
    <3>5. QED
      BY <3>2, <3>3, <3>4
  <2>3. QED
    BY <2>1, <2>2
<1>10. Delivery'
  BY <1>1, <1>6, <1>7, <1>8, <1>9 DEF Delivery
<1>11. InOrder'
  BY <1>1 DEF InOrder
<1>12. QED
  BY <1>10, <1>11

LEMMA DeliverySend ==
    ASSUME Typed, Delivery, InOrder, NEW p \in Publishers, PublishSend(p)
    PROVE  Delivery' /\ InOrder'
<1> DEFINE c == Head(todo[p])
           n == Len(buf[c])
           m == message(p)
<1>1. UNCHANGED <<subscribers, chan, seen, sent, topic>> /\ todo[p] # <<>>
  BY DEF PublishSend
<1>2. /\ c \in Channels /\ n \in Nat
      /\ todo'[p] = Tail(todo[p])
      /\ \A q \in Publishers : q # p => todo'[q] = todo[q]
      /\ \A d \in Channels : d # c => buf'[d] = buf[d]
      /\ \/ buf'[c] = buf[c]
         \/ /\ Len(buf'[c]) = n + 1 /\ buf'[c][n + 1] = m
            /\ \A i \in 1 .. n : buf'[c][i] = buf[c][i]
  BY SendEffect
<1>3. m.by = p /\ m.number = sent[p] /\ m.topic = topic[p]
  BY DEF message
<1>4. /\ On(todo[p], c)
      /\ \A d : On(todo'[p], d) => On(todo[p], d) /\ d # c
      /\ Distinct(todo'[p])
  <2>1. todo[p] \in Seq(Channels) /\ Distinct(todo[p])
    BY DEF Typed, TypeOK, Delivery
  <2>2. /\ On(todo[p], c) /\ ~ On(Tail(todo[p]), c)
        /\ \A d : On(Tail(todo[p]), d) => On(todo[p], d)
        /\ Distinct(Tail(todo[p]))
    BY <1>1, <2>1, OnTail
  <2>3. QED
    BY <1>2, <2>2
<1> HIDE DEF c, n, m
<1>5. /\ chan[c] # "unmade"
      /\ seen[c][p] < sent[p]
      /\ \A i \in 1 .. Len(buf[c]) : buf[c][i].by = p => buf[c][i].number < sent[p]
      /\ \A t \in Topics : On(subscribers[t], c) => topic[p] = t
  BY <1>2, <1>4 DEF Delivery
<1>6. \A d \in Channels : \A i \in 1 .. Len(buf'[d]) :
         \/ i \in 1 .. Len(buf[d]) /\ buf'[d][i] = buf[d][i]
         \/ d = c /\ i = Len(buf[d]) + 1 /\ buf'[d][i] = m
  BY <1>2 DEF n
<1>7. \A q \in Publishers, d \in Channels :
         On(todo'[q], d) => On(todo[q], d) /\ ~ (q = p /\ d = c)
  BY <1>2, <1>4
<1>8. /\ \A d \in Channels : Len(buf[d]) \in Nat
      /\ \A q \in Publishers : sent[q] \in Nat
  BY Numbers DEF Typed
<1>9. Delivery'
  <2>1. \A d \in Channels : chan'[d] = "unmade" => buf'[d] = <<>>
    BY <1>1, <1>2, <1>5 DEF Delivery
  <2>2. \A d \in Channels : \A i \in 1 .. Len(buf'[d]) :
           buf'[d][i].number <= sent[buf'[d][i].by]
    BY <1>3, <1>6, <1>8, SMTT(30) DEF Delivery
  <2>3. \A q \in Publishers : Distinct(todo'[q])
    BY <1>2, <1>4 DEF Delivery
  <2>4. ASSUME NEW q \in Publishers, NEW d \in Channels, On(todo'[q], d)
        PROVE  /\ chan[d] # "unmade" /\ seen[d][q] < sent[q]
               /\ \A i \in 1 .. Len(buf'[d]) :
                     buf'[d][i].by = q => buf'[d][i].number < sent[q]
               /\ \A t \in Topics : On(subscribers[t], d) => topic[q] = t
    <3>1. On(todo[q], d) /\ ~ (q = p /\ d = c)
      BY <1>7, <2>4
    <3>2. \A i \in 1 .. Len(buf'[d]) : buf'[d][i].by = q => buf'[d][i].number < sent[q]
      BY <1>3, <1>6, <3>1 DEF Delivery
    <3>3. QED
      BY <3>1, <3>2 DEF Delivery
  <2>5. QED
    BY <1>1, <2>1, <2>2, <2>3, <2>4 DEF Delivery
<1>10. InOrder'
  <2> SUFFICES ASSUME NEW d \in Channels
               PROVE  /\ \A i \in 1 .. Len(buf'[d]) :
                            seen[d][buf'[d][i].by] < buf'[d][i].number
                      /\ \A i, k \in 1 .. Len(buf'[d]) :
                            i < k /\ buf'[d][i].by = buf'[d][k].by
                               => buf'[d][i].number < buf'[d][k].number
                      /\ \A t \in Topics : On(subscribers[t], d) =>
                            \A i \in 1 .. Len(buf'[d]) : buf'[d][i].topic = t
    BY <1>1 DEF InOrder
  <2>1. \A i \in 1 .. Len(buf'[d]) : seen[d][buf'[d][i].by] < buf'[d][i].number
    BY <1>3, <1>5, <1>6 DEF InOrder
  <2>2. ASSUME NEW i \in 1 .. Len(buf'[d]), NEW k \in 1 .. Len(buf'[d]),
               i < k, buf'[d][i].by = buf'[d][k].by
        PROVE  buf'[d][i].number < buf'[d][k].number
    <3>1. i \in 1 .. Len(buf[d]) /\ buf'[d][i] = buf[d][i]
      <4>1. CASE k \in 1 .. Len(buf[d])
        <5>1. i # Len(buf[d]) + 1
          BY <1>8, <2>2, <4>1
        <5>2. QED
          BY <1>6, <5>1
      <4>2. CASE k = Len(buf[d]) + 1
        <5>1. i # Len(buf[d]) + 1
          BY <1>8, <2>2, <4>2
        <5>2. QED
          BY <1>6, <5>1
      <4>3. QED
        BY <1>6, <4>1, <4>2
    <3>2. CASE k \in 1 .. Len(buf[d]) /\ buf'[d][k] = buf[d][k]
      BY <2>2, <3>1, <3>2 DEF InOrder
    <3>3. CASE d = c /\ k = Len(buf[d]) + 1 /\ buf'[d][k] = m
      BY <1>3, <1>5, <2>2, <3>1, <3>3
    <3>4. QED
      BY <1>6, <3>2, <3>3
  <2>3. ASSUME NEW t \in Topics, On(subscribers[t], d), NEW i \in 1 .. Len(buf'[d])
        PROVE  buf'[d][i].topic = t
    BY <1>3, <1>5, <1>6, <2>3 DEF InOrder
  <2>4. QED
    BY <2>1, <2>2, <2>3
<1>11. QED
  BY <1>9, <1>10

LEMMA DeliveryReceive ==
    ASSUME Typed, Delivery, InOrder, NEW c \in Channels, Receive(c)
    PROVE  Delivery' /\ InOrder'
<1> DEFINE m == Head(buf[c])
           n == Len(buf[c])
<1>1. UNCHANGED <<subscribers, chan, sent, topic, todo>> /\ buf[c] # <<>>
  BY DEF Receive, pubVars
<1>2. /\ m.by \in Publishers /\ m = buf[c][1]
      /\ n \in Nat \ {0} /\ Len(buf'[c]) = n - 1
      /\ \A i \in 1 .. n - 1 : buf'[c][i] = buf[c][i + 1]
      /\ \A d \in Channels : d # c => buf'[d] = buf[d] /\ seen'[d] = seen[d]
      /\ seen'[c][m.by] = m.number
      /\ \A p \in Publishers : p # m.by => seen'[c][p] = seen[c][p]
  BY ReceiveEffect DEF Typed
<1>3. /\ \A d \in Channels : \A i \in 1 .. Len(buf[d]) :
            buf[d][i].number \in Nat /\ buf[d][i].by \in Publishers
      /\ \A q \in Publishers : sent[q] \in Nat
  BY Numbers DEF Typed
<1> HIDE DEF m
<1>4. 1 \in 1 .. n /\ \A i \in 1 .. n - 1 : i + 1 \in 1 .. n /\ 1 < i + 1
  BY <1>2
<1>5. /\ m.number <= sent[m.by]
      /\ \A p \in Publishers : On(todo[p], c) /\ m.by = p => m.number < sent[p]
  BY <1>2, <1>4 DEF Delivery
<1>6. \A d \in Channels : \A i \in 1 .. Len(buf'[d]) :
         \E k \in 1 .. Len(buf[d]) : buf'[d][i] = buf[d][k]
  <2>1. \A i \in 1 .. Len(buf'[c]) : \E k \in 1 .. n : buf'[c][i] = buf[c][k]
    BY <1>2, <1>4
  <2>2. \A d \in Channels : d # c => buf'[d] = buf[d]
    BY <1>2
  <2>3. QED
    BY <2>1, <2>2
<1>7. Delivery'
  <2>1. \A d \in Channels : chan[d] = "unmade" => buf'[d] = <<>>
    BY <1>1, <1>2 DEF Delivery
  <2>2. \A d \in Channels : \A i \in 1 .. Len(buf'[d]) :
           buf'[d][i].number <= sent[buf'[d][i].by]
    BY <1>6 DEF Delivery
  <2>3. \A d \in Channels, p \in Publishers : seen'[d][p] <= sent[p]
    BY <1>2, <1>5 DEF Delivery
  <2>4. ASSUME NEW p \in Publishers, NEW d \in Channels, On(todo[p], d)
        PROVE  /\ seen'[d][p] < sent[p]
               /\ \A i \in 1 .. Len(buf'[d]) :
                     buf'[d][i].by = p => buf'[d][i].number < sent[p]
    <3>1. seen'[d][p] < sent[p]
      BY <1>2, <1>5, <2>4 DEF Delivery
    <3>2. \A k \in 1 .. Len(buf[d]) : buf[d][k].by = p => buf[d][k].number < sent[p]
      BY <2>4 DEF Delivery
    <3>3. \A i \in 1 .. Len(buf'[d]) : buf'[d][i].by = p => buf'[d][i].number < sent[p]
      BY <1>6, <3>2
    <3>4. QED
      BY <3>1, <3>3
  <2>5. QED
    BY <1>1, <2>1, <2>2, <2>3, <2>4 DEF Delivery
<1>8. InOrder'
  <2>1. ASSUME NEW d \in Channels, d # c
        PROVE  /\ \A i \in 1 .. Len(buf'[d]) : seen'[d][buf'[d][i].by] < buf'[d][i].number
               /\ \A i, k \in 1 .. Len(buf'[d]) :
                     i < k /\ buf'[d][i].by = buf'[d][k].by
                        => buf'[d][i].number < buf'[d][k].number
               /\ \A t \in Topics : On(subscribers[t], d) =>
                     \A i \in 1 .. Len(buf'[d]) : buf'[d][i].topic = t
    BY <1>2, <2>1, SMTT(30) DEF InOrder
  <2>2. ASSUME NEW i \in 1 .. n - 1 PROVE seen'[c][buf[c][i + 1].by] < buf[c][i + 1].number
    <3> DEFINE x == buf[c][i + 1]
    <3>0. i + 1 \in 1 .. n /\ 1 \in 1 .. n /\ 1 < i + 1 /\ x.by \in Publishers
      BY <1>3, <1>4
    <3>1. CASE x.by = m.by
      <4>1. m.number < x.number
        BY <1>2, <3>0, <3>1 DEF InOrder
      <4>2. seen'[c][x.by] = m.number
        BY <1>2, <3>1
      <4>3. QED
        BY <4>1, <4>2
    <3>2. CASE x.by # m.by
      <4>1. seen[c][x.by] < x.number
        BY <3>0 DEF InOrder
      <4>2. seen'[c][x.by] = seen[c][x.by]
        BY <1>2, <3>0, <3>2
      <4>3. QED
        BY <4>1, <4>2
    <3>3. QED
      BY <3>1, <3>2
  <2>3. ASSUME NEW i \in 1 .. n - 1, NEW k \in 1 .. n - 1, i < k,
               buf[c][i + 1].by = buf[c][k + 1].by
        PROVE  buf[c][i + 1].number < buf[c][k + 1].number
    <3>1. i + 1 < k + 1
      BY <2>3
    <3>2. QED
      BY <1>4, <2>3, <3>1 DEF InOrder
  <2>4. ASSUME NEW t \in Topics, On(subscribers[t], c), NEW i \in 1 .. n - 1
        PROVE  buf[c][i + 1].topic = t
    BY <1>4, <2>4 DEF InOrder
  <2>5. Len(buf'[c]) = n - 1 /\ \A i \in 1 .. n - 1 : buf'[c][i] = buf[c][i + 1]
    BY <1>2
  <2> HIDE DEF n
  <2>6. \A i \in 1 .. Len(buf'[c]) : seen'[c][buf'[c][i].by] < buf'[c][i].number
    BY <2>2, <2>5
  <2>7. \A i, k \in 1 .. Len(buf'[c]) :
           i < k /\ buf'[c][i].by = buf'[c][k].by
              => buf'[c][i].number < buf'[c][k].number
    BY <2>3, <2>5, ZenonT(30)
  <2>8. \A t \in Topics : On(subscribers[t], c) =>
           \A i \in 1 .. Len(buf'[c]) : buf'[c][i].topic = t
    BY <2>4, <2>5
  <2>9. QED
    BY <1>1, <2>1, <2>6, <2>7, <2>8 DEF InOrder
<1>9. QED
  BY <1>7, <1>8

LEMMA DeliveryStep ==
    Typed /\ Registry /\ Delivery /\ InOrder /\ [Next]_vars => Delivery' /\ InOrder'
<1> SUFFICES ASSUME Typed, Registry, Delivery, InOrder, [Next]_vars
             PROVE  Delivery' /\ InOrder'
  OBVIOUS
<1>1. ASSUME NEW t \in Topics, NEW c \in Channels, Subscribe(t, c)
      PROVE  Delivery' /\ InOrder'
  <2>1. /\ UNCHANGED <<buf, seen, sent, topic, todo>> /\ chan[c] = "unmade"
        /\ \A d \in Channels : chan'[d] = "unmade" => chan[d] = "unmade"
    BY <1>1 DEF Subscribe, pubVars, Typed, TypeOK
  <2>2. \A u \in Topics, d \in Channels :
           On(subscribers'[u], d) => On(subscribers[u], d) \/ chan[d] = "unmade"
    BY <1>1, <2>1, SubscribeEffect
  <2>3. QED
    BY <2>1, <2>2, DeliveryRegistry
<1>2. ASSUME NEW t \in Topics, NEW c \in Channels, Unsubscribe(t, c)
      PROVE  Delivery' /\ InOrder'
  <2>1. /\ UNCHANGED <<buf, seen, sent, topic, todo>>
        /\ \A d \in Channels : chan'[d] = "unmade" => chan[d] = "unmade"
    BY <1>2 DEF Unsubscribe, pubVars, Typed, TypeOK
  <2>2. \A u \in Topics, d \in Channels :
           On(subscribers'[u], d) => On(subscribers[u], d) \/ chan[d] = "unmade"
    BY <1>2, UnsubscribeEffect
  <2>3. QED
    BY <2>1, <2>2, DeliveryRegistry
<1>3. ASSUME Close PROVE Delivery' /\ InOrder'
  <2>1. UNCHANGED <<buf, seen, sent, topic, todo>>
    BY <1>3 DEF Close, pubVars
  <2>2. /\ \A d \in Channels : chan'[d] = "unmade" => chan[d] = "unmade"
        /\ \A u \in Topics, d \in Channels :
              On(subscribers'[u], d) => On(subscribers[u], d) \/ chan[d] = "unmade"
    BY <1>3, CloseEffect
  <2>3. QED
    BY <2>1, <2>2, DeliveryRegistry
<1>4. ASSUME UNCHANGED vars PROVE Delivery' /\ InOrder'
  BY <1>4 DEF vars, Delivery, InOrder
<1>5. QED
  BY <1>1, <1>2, <1>3, <1>4, DeliveryCopy, DeliverySend, DeliveryReceive DEF Next

\* Every reachable state of the broker satisfies the inductive invariant.
THEOREM BrokerInvariant == Spec => []BrokerInv
<1>1. Typed => (DeliveredInOrder <=> InOrder)
  BY InOrderDelivered DEF Typed
<1>2. QED
  BY <1>1, TypedInit, TypedStep, RegistryInit, RegistryStep, DeliveryInit, DeliveryStep,
     PTL DEF Spec, BrokerInv

\* A subscriber gets the messages of its topic only, those of one publisher in
\* the order of their Publish calls and none twice, however many publishers
\* send at once, whatever is dropped and whoever subscribes or leaves.
THEOREM BrokerDeliversInOrder == Spec => []DeliveredInOrder
BY BrokerInvariant, PTL DEF BrokerInv

\* The only runtime panic of the broker is the send of a Publish to a channel
\* that was closed after the copy of the slice: neither Unsubscribe nor Close
\* closes a channel twice.
THEOREM BrokerPanicsOnlyInPublish ==
    Spec => [][panicked' # panicked => \E p \in Publishers : PublishSend(p)]_vars
<1> DEFINE OnlySend == panicked' # panicked => \E p \in Publishers : PublishSend(p)
<1>1. ASSUME BrokerInv, [Next]_vars PROVE [OnlySend]_vars
  <2>1. Typed /\ Registry
    BY <1>1 DEF BrokerInv
  <2>2. ASSUME NEW t \in Topics, NEW c \in Channels, Unsubscribe(t, c) PROVE OnlySend
    <3>1. chan[c] = "open"
      BY <2>1, <2>2, UnsubscribeEffect DEF Registry
    <3>2. panicked' = FALSE
      BY <2>2, <3>1 DEF Unsubscribe
    <3>3. panicked = FALSE
      BY <2>1, <2>2 DEF Unsubscribe, Typed, TypeOK
    <3>4. QED
      BY <3>2, <3>3
  <2>3. ASSUME Close PROVE OnlySend
    <3>1. \A t \in Topics : \A c \in ToSet(subscribers[t]) :
             c \in Channels /\ On(subscribers[t], c)
      <4>1. ASSUME NEW t \in Topics, NEW c \in ToSet(subscribers[t])
            PROVE  c \in Channels /\ On(subscribers[t], c)
        <5>1. subscribers[t] \in Seq(Channels)
          BY <2>1 DEF Typed, TypeOK
        <5>2. c \in Channels
          BY <5>1 DEF ToSet
        <5>3. QED
          BY <5>1, <5>2, OnToSet
      <4>2. QED
        BY <4>1
    <3>2. \A c \in UNION {ToSet(subscribers[t]) : t \in Topics} : chan[c] = "open"
      BY <2>1, <3>1 DEF Registry
    <3>3. panicked' = FALSE
      BY <2>3, <3>2 DEF Close
    <3>4. panicked = FALSE
      BY <2>1, <2>3 DEF Close, Typed, TypeOK
    <3>5. QED
      BY <3>3, <3>4
  <2>4. QED
    BY <1>1, <2>2, <2>3 DEF Next, Subscribe, PublishCopy, Receive, vars
<1>2. QED
  BY <1>1, BrokerInvariant, PTL DEF Spec
=============================================================================
