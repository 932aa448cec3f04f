---------------------------- MODULE MetricsProofs ---------------------------
(***************************************************************************)
(* What TLAPS proves about the metrics registry of the API gateway for any *)
(* set of tenants and any finite number of recording goroutines.           *)
(***************************************************************************)
EXTENDS Metrics, FiniteSetTheorems, SequenceTheorems, TLAPS

Requests == [Total : Nat, Errors : Nat, ClientErr : Nat, latency : Seq(Recorders)]
Steps    == {"create", "total", "class", "latency", "done"}
Active   == [tenant : TenantIDs, class : Classes, m : Nat, step : Steps]

Typed ==
    /\ metrics \in Seq(Requests)
    /\ buckets \in [TenantIDs -> 0 .. Len(metrics)]
    /\ job \in [Recorders -> [step : {"idle"}] \union Active]

\* No two tenants share a RequestMetrics, and a goroutine that has left For
\* holds the one that the registry has for its tenant.
OnePerTenant ==
    /\ \A t, u \in TenantIDs : buckets[t] # 0 /\ buckets[t] = buckets[u] => t = u
    /\ \A g \in Recorders : job[g].step \in Steps \ {"create"} =>
          job[g].m # 0 /\ job[g].m = buckets[job[g].tenant]

\* The counters of one tenant.
Right(t) ==
    /\ Shown(t).Total = Cardinality(Past(t, {"class", "latency", "done"}, Classes))
    /\ Shown(t).Errors = Cardinality(Past(t, {"latency", "done"}, {"5xx"}))
    /\ Shown(t).ClientErr = Cardinality(Past(t, {"latency", "done"}, {"4xx"}))
    /\ LET recorded == Cardinality(Past(t, {"done"}, Classes))
       IN  Len(Shown(t).latency) = IF recorded < MaxSamples THEN recorded ELSE MaxSamples

\* The inductive invariant.
MetricsInv == Typed /\ OnePerTenant /\ NoRecordLost

LEMMA RightAll == NoRecordLost <=> \A t \in TenantIDs : Right(t)
BY DEF NoRecordLost, Right

-----------------------------------------------------------------------------
(***************************************************************************)
(* The recorders that have passed a step.                                  *)
(***************************************************************************)
LEMMA PastFinite ==
    ASSUME NEW t, NEW S, NEW C
    PROVE  IsFiniteSet(Past(t, S, C)) /\ Cardinality(Past(t, S, C)) \in Nat
<1>1. Past(t, S, C) \subseteq Recorders
  BY DEF Past
<1>2. IsFiniteSet(Past(t, S, C))
  BY <1>1, MetricsAssumption, FS_Subset
<1>3. QED
  BY <1>2, FS_CardinalityType

\* What Go does to a goroutine at work.
LEMMA Moved ==
    ASSUME Typed, NEW g \in Recorders, job[g].step \in Steps, NEW s \in Steps, Go(g, s)
    PROVE  /\ job' \in [Recorders -> [step : {"idle"}] \union Active]
           /\ \A h \in Recorders : h # g => job'[h] = job[h]
           /\ job'[g].step = s /\ job'[g].tenant = job[g].tenant
           /\ job'[g].class = job[g].class /\ job'[g].m = job[g].m
           /\ job[g].tenant \in TenantIDs /\ job[g].class \in Classes /\ job[g].m \in Nat
<1>1. job[g] \in Active
  BY DEF Typed, Steps
<1>2. job' = [job EXCEPT ![g] = [job[g] EXCEPT !.step = s]]
  BY DEF Go
<1>3. [job[g] EXCEPT !.step = s] \in Active
  BY <1>1 DEF Active
<1>4. job'[g] = [job[g] EXCEPT !.step = s]
  BY <1>2 DEF Typed
<1>5. /\ job'[g].step = s /\ job'[g].tenant = job[g].tenant
      /\ job'[g].class = job[g].class /\ job'[g].m = job[g].m
  BY <1>1, <1>4 DEF Active
<1>6. \A h \in Recorders : h # g => job'[h] = job[h]
  BY <1>2 DEF Typed
<1>7. job' \in [Recorders -> [step : {"idle"}] \union Active]
  BY <1>2, <1>3 DEF Typed
<1>8. QED
  BY <1>1, <1>5, <1>6, <1>7 DEF Active

\* A goroutine that passes one of the steps S is counted once, for its own
\* tenant and class.
LEMMA PastGrows ==
    ASSUME Typed, NEW g \in Recorders, job[g].step \in Steps, NEW s \in Steps, Go(g, s),
           NEW t, NEW S, NEW C, job[g].step \notin S
    PROVE  Cardinality(Past(t, S, C)') =
              IF s \in S /\ job[g].tenant = t /\ job[g].class \in C
              THEN Cardinality(Past(t, S, C)) + 1 ELSE Cardinality(Past(t, S, C))
<1>1. /\ \A h \in Recorders : h # g => job'[h] = job[h]
      /\ job'[g].step = s /\ job'[g].tenant = job[g].tenant
      /\ job'[g].class = job[g].class
  BY Moved
<1>2. g \notin Past(t, S, C) /\ IsFiniteSet(Past(t, S, C))
  <2>1. g \notin Past(t, S, C)
    BY DEF Past
  <2>2. QED
    BY <2>1, PastFinite
<1>3. CASE s \in S /\ job[g].tenant = t /\ job[g].class \in C
  <2>1. Past(t, S, C)' = Past(t, S, C) \union {g}
    BY <1>1, <1>3 DEF Past
  <2>2. Cardinality(Past(t, S, C) \union {g}) = Cardinality(Past(t, S, C)) + 1
    BY <1>2, FS_AddElement
  <2>3. QED
    BY <1>3, <2>1, <2>2
<1>4. CASE ~ (s \in S /\ job[g].tenant = t /\ job[g].class \in C)
  <2>1. Past(t, S, C)' = Past(t, S, C)
    BY <1>1, <1>2, <1>4 DEF Past
  <2>2. QED
    BY <1>4, <2>1
<1>5. QED
  BY <1>3, <1>4

\* A step within S moves nobody in or out.
LEMMA PastStays ==
    ASSUME Typed, NEW g \in Recorders, job[g].step \in Steps, NEW s \in Steps, Go(g, s),
           NEW t, NEW S, NEW C, job[g].step \in S, s \in S
    PROVE  Past(t, S, C)' = Past(t, S, C)
<1>1. /\ \A h \in Recorders : h # g => job'[h] = job[h]
      /\ job'[g].step = s /\ job'[g].tenant = job[g].tenant
      /\ job'[g].class = job[g].class
  BY Moved
<1>2. QED
  BY <1>1 DEF Past

-----------------------------------------------------------------------------
(***************************************************************************)
(* What a reader of the registry finds.                                    *)
(***************************************************************************)
LEMMA ShownTyped ==
    ASSUME Typed, NEW t \in TenantIDs
    PROVE  /\ Shown(t) \in Requests
           /\ buckets[t] # 0 => buckets[t] \in 1 .. Len(metrics)
<1>1. Zero \in Requests
  <2>1. <<>> \in Seq(Recorders)
    OBVIOUS
  <2>2. QED
    BY <2>1 DEF Zero, Requests
<1>2. buckets[t] \in 0 .. Len(metrics) /\ Len(metrics) \in Nat
  BY DEF Typed
<1>3. buckets[t] # 0 => buckets[t] \in 1 .. Len(metrics)
  BY <1>2
<1>4. buckets[t] # 0 => metrics[buckets[t]] \in Requests
  BY <1>3, ElementOfSeq DEF Typed
<1>5. QED
  BY <1>1, <1>3, <1>4 DEF Shown

\* A goroutine in Record updates what is shown for its tenant and no other.
LEMMA Updated ==
    ASSUME Typed, OnePerTenant, NEW g \in Recorders, job[g].step \in Steps \ {"create"},
           NEW rec \in Requests, metrics' = [metrics EXCEPT ![job[g].m] = rec],
           buckets' = buckets
    PROVE  /\ job[g].tenant \in TenantIDs /\ metrics[job[g].m] = Shown(job[g].tenant)
           /\ job[g].m \in DOMAIN metrics
           /\ metrics' \in Seq(Requests) /\ Len(metrics') = Len(metrics)
           /\ \A t \in TenantIDs : Shown(t)' = IF t = job[g].tenant THEN rec ELSE Shown(t)
<1> DEFINE n == job[g].m
           u == job[g].tenant
<1>1. job[g] \in Active
  BY DEF Typed, Steps
<1>2. u \in TenantIDs
  BY <1>1 DEF Active
<1>3. n # 0 /\ n = buckets[u]
  BY DEF OnePerTenant
<1>4. n \in 1 .. Len(metrics)
  BY <1>2, <1>3, ShownTyped
<1>5. metrics \in Seq(Requests) /\ DOMAIN metrics = 1 .. Len(metrics)
      /\ Len(metrics) \in Nat
  BY DEF Typed
<1> HIDE DEF n, u
<1>6. metrics' = [metrics EXCEPT ![n] = rec]
  BY DEF n
<1>7. metrics' \in Seq(Requests) /\ Len(metrics') = Len(metrics)
  <2>1. /\ [metrics EXCEPT ![n] = rec] \in Seq(Requests)
        /\ Len([metrics EXCEPT ![n] = rec]) = Len(metrics)
    BY <1>4, <1>5, ExceptSeq
  <2>2. QED
    BY <1>6, <2>1
<1>8. metrics'[n] = rec /\ \A k \in 1 .. Len(metrics) : k # n => metrics'[k] = metrics[k]
  BY <1>4, <1>5, <1>6
<1>9. ASSUME NEW t \in TenantIDs PROVE Shown(t)' = IF t = u THEN rec ELSE Shown(t)
  <2>1. CASE t = u
    BY <1>3, <1>8, <2>1 DEF Shown
  <2>2. CASE t # u
    <3>1. buckets[t] # 0 => buckets[t] # n /\ buckets[t] \in 1 .. Len(metrics)
      BY <1>2, <1>3, <2>2, ShownTyped DEF OnePerTenant
    <3>2. QED
      BY <1>8, <2>2, <3>1 DEF Shown
  <2>3. QED
    BY <2>1, <2>2
<1>10. metrics[n] = Shown(u)
  BY <1>3 DEF Shown
<1>11. QED
  BY <1>2, <1>4, <1>5, <1>7, <1>9, <1>10 DEF n, u

-----------------------------------------------------------------------------
(***************************************************************************)
(* The steps.                                                              *)
(***************************************************************************)
LEMMA MetricsInitInv == MetricsInit => MetricsInv
<1> SUFFICES ASSUME MetricsInit PROVE MetricsInv
  OBVIOUS
<1>1. \A g \in Recorders : job[g].step = "idle"
  BY DEF MetricsInit
<1>2. Typed
  <2>1. <<>> \in Seq(Requests) /\ Len(<<>>) = 0
    OBVIOUS
  <2>2. QED
    BY <2>1 DEF MetricsInit, Typed
<1>3. OnePerTenant
  BY <1>1 DEF MetricsInit, OnePerTenant, Steps
<1>4. ASSUME NEW t \in TenantIDs PROVE Right(t)
  <2>1. Shown(t) = Zero
    BY DEF MetricsInit, Shown
  <2>2. ASSUME NEW S, NEW C, "idle" \notin S PROVE Cardinality(Past(t, S, C)) = 0
    <3>1. Past(t, S, C) = {}
      BY <1>1, <2>2 DEF Past
    <3>2. QED
      BY <3>1, FS_EmptySet
  <2>3. /\ Cardinality(Past(t, {"class", "latency", "done"}, Classes)) = 0
        /\ Cardinality(Past(t, {"latency", "done"}, {"5xx"})) = 0
        /\ Cardinality(Past(t, {"latency", "done"}, {"4xx"})) = 0
        /\ Cardinality(Past(t, {"done"}, Classes)) = 0
    BY <2>2
  <2>4. Shown(t).Total = 0 /\ Shown(t).Errors = 0 /\ Shown(t).ClientErr = 0
        /\ Len(Shown(t).latency) = 0
    BY <2>1 DEF Zero
  <2>5. 0 = IF 0 < MaxSamples THEN 0 ELSE MaxSamples
    BY MetricsAssumption
  <2>6. QED
    BY <2>3, <2>4, <2>5 DEF Right
<1>5. QED
  BY <1>2, <1>3, <1>4, RightAll DEF MetricsInv

\* A step that changes neither what is shown nor who is past a step.
LEMMA RightKept ==
    ASSUME NEW t \in TenantIDs, Right(t), Shown(t)' = Shown(t),
           \A g \in Recorders :
              \/ job'[g] = job[g]
              \/ /\ job[g].step \notin {"class", "latency", "done"}
                 /\ job'[g].step \notin {"class", "latency", "done"}
    PROVE  Right(t)'
<1>1. /\ Past(t, {"class", "latency", "done"}, Classes)'
            = Past(t, {"class", "latency", "done"}, Classes)
      /\ Past(t, {"done"}, Classes)' = Past(t, {"done"}, Classes)
  BY DEF Past
<1>2. /\ Past(t, {"latency", "done"}, {"5xx"})' = Past(t, {"latency", "done"}, {"5xx"})
      /\ Past(t, {"latency", "done"}, {"4xx"})' = Past(t, {"latency", "done"}, {"4xx"})
  BY DEF Past
<1>3. QED
  BY <1>1, <1>2 DEF Right

LEMMA LookupStep ==
    ASSUME MetricsInv, NEW g \in Recorders, NEW t \in TenantIDs, NEW class \in Classes,
           Lookup(g, t, class)
    PROVE  MetricsInv'
<1> DEFINE s == IF buckets[t] # 0 THEN "total" ELSE "create"
           new == [tenant |-> t, class |-> class, m |-> buckets[t], step |-> s]
<1>1. /\ Typed /\ OnePerTenant /\ \A u \in TenantIDs : Right(u)
      /\ job[g].step = "idle" /\ job' = [job EXCEPT ![g] = new]
      /\ buckets' = buckets /\ metrics' = metrics
  BY RightAll DEF MetricsInv, Lookup, At
<1>2. buckets[t] \in Nat
  BY <1>1 DEF Typed
<1>3. s \in Steps
  BY DEF Steps
<1>4. new \in Active
  BY <1>2, <1>3 DEF Active
<1>5. job'[g] = new /\ \A h \in Recorders : h # g => job'[h] = job[h]
  BY <1>1 DEF Typed
<1>6. Typed'
  BY <1>1, <1>4 DEF Typed
<1>7. OnePerTenant'
  <2>1. ASSUME NEW h \in Recorders, job'[h].step \in Steps \ {"create"}
        PROVE  job'[h].m # 0 /\ job'[h].m = buckets'[job'[h].tenant]
    <3>1. CASE h = g
      BY <1>1, <1>5, <2>1, <3>1
    <3>2. CASE h # g
      BY <1>1, <1>5, <2>1, <3>2 DEF OnePerTenant
    <3>3. QED
      BY <3>1, <3>2
  <2>2. QED
    BY <1>1, <2>1 DEF OnePerTenant
<1>8. ASSUME NEW u \in TenantIDs PROVE Right(u)'
  <2>1. Shown(u)' = Shown(u)
    BY <1>1 DEF Shown
  <2>2. new.step \notin {"class", "latency", "done"}
    OBVIOUS
  <2> HIDE DEF new
  <2>3. QED
    BY <1>1, <1>5, <2>1, <2>2, RightKept
<1>9. NoRecordLost'
  BY <1>8, RightAll DEF NoRecordLost, Right
<1>10. QED
  BY <1>6, <1>7, <1>9 DEF MetricsInv

LEMMA CreateStep ==
    ASSUME MetricsInv, NEW g \in Recorders, Create(g) PROVE MetricsInv'
<1> DEFINE n == Len(metrics)
<1>1. /\ Typed /\ OnePerTenant /\ \A u \in TenantIDs : Right(u)
      /\ job[g].step = "create"
  BY RightAll DEF MetricsInv, Create, At
<1>2. job[g] \in Active /\ metrics \in Seq(Requests) /\ n \in Nat
  BY <1>1 DEF Typed
<1>3. PICK t \in TenantIDs : t = job[g].tenant
  BY <1>2 DEF Active
<1>4. \/ buckets[t] # 0 /\ buckets' = buckets /\ metrics' = metrics
      \/ /\ buckets[t] = 0
         /\ metrics' = Append(metrics, Zero)
         /\ buckets' = [buckets EXCEPT ![t] = Len(metrics')]
  BY <1>3 DEF Create
<1>5. job' = [job EXCEPT ![g] = [job[g] EXCEPT !.m = buckets'[t], !.step = "total"]]
  BY <1>3 DEF Create
<1>6. Zero \in Requests
  <2>1. <<>> \in Seq(Recorders)
    OBVIOUS
  <2>2. QED
    BY <2>1 DEF Zero, Requests
<1>7. /\ Append(metrics, Zero) \in Seq(Requests) /\ Len(Append(metrics, Zero)) = n + 1
      /\ \A i \in 1 .. n : Append(metrics, Zero)[i] = metrics[i]
      /\ Append(metrics, Zero)[n + 1] = Zero
  BY <1>2, <1>6, AppendProperties
<1>8. \A u \in TenantIDs : buckets[u] \in 0 .. n
  BY <1>1 DEF Typed
<1> HIDE DEF n
<1>9. /\ metrics' \in Seq(Requests)
      /\ buckets' \in [TenantIDs -> 0 .. Len(metrics')]
      /\ buckets'[t] # 0
      /\ \A u \in TenantIDs : u # t => buckets'[u] = buckets[u]
      /\ \A u \in TenantIDs : buckets[u] # 0 => buckets'[u] = buckets[u]
      /\ \A u \in TenantIDs : u # t /\ buckets'[u] # 0 => buckets'[u] # buckets'[t]
  <2>1. CASE buckets[t] # 0 /\ buckets' = buckets /\ metrics' = metrics
    BY <1>1, <1>2, <2>1 DEF Typed, OnePerTenant
  <2>2. CASE /\ buckets[t] = 0
             /\ metrics' = Append(metrics, Zero)
             /\ buckets' = [buckets EXCEPT ![t] = Len(metrics')]
    <3>1. metrics' \in Seq(Requests) /\ Len(metrics') = n + 1
      BY <1>7, <2>2
    <3>2. buckets' = [buckets EXCEPT ![t] = n + 1] /\ DOMAIN buckets = TenantIDs
          /\ buckets \in [TenantIDs -> 0 .. n]
      BY <1>1, <2>2, <3>1 DEF Typed, n
    <3>3. buckets'[t] = n + 1 /\ \A u \in TenantIDs : u # t => buckets'[u] = buckets[u]
      BY <3>2
    <3>4. buckets' \in [TenantIDs -> 0 .. n + 1]
      BY <1>2, <3>2
    <3>5. \A u \in TenantIDs : u # t => buckets'[u] # n + 1
      BY <1>2, <1>8, <3>3
    <3>6. n + 1 # 0
      BY <1>2
    <3>7. QED
      BY <2>2, <3>1, <3>3, <3>4, <3>5, <3>6
  <2>3. QED
    BY <1>4, <2>1, <2>2
<1>10. /\ [job[g] EXCEPT !.m = buckets'[t], !.step = "total"] \in Active
       /\ buckets'[t] \in Nat
  <2>1. Len(metrics') \in Nat
    BY <1>9
  <2>2. buckets'[t] \in Nat
    BY <1>9, <2>1
  <2>3. QED
    BY <1>2, <2>2 DEF Active, Steps
<1>11. /\ job'[g] = [job[g] EXCEPT !.m = buckets'[t], !.step = "total"]
       /\ \A h \in Recorders : h # g => job'[h] = job[h]
       /\ job' \in [Recorders -> [step : {"idle"}] \union Active]
  BY <1>1, <1>5, <1>10 DEF Typed
<1>12. job'[g].step = "total" /\ job'[g].tenant = t /\ job'[g].m = buckets'[t]
  BY <1>2, <1>3, <1>11 DEF Active
<1>13. Typed'
  BY <1>9, <1>11 DEF Typed
<1>14. OnePerTenant'
  <2>1. ASSUME NEW h \in Recorders, job'[h].step \in Steps \ {"create"}
        PROVE  job'[h].m # 0 /\ job'[h].m = buckets'[job'[h].tenant]
    <3>1. CASE h = g
      BY <1>9, <1>12, <3>1
    <3>2. CASE h # g
      <4>1. job'[h] = job[h] /\ job[h].step \in Steps \ {"create"}
        BY <1>11, <2>1, <3>2
      <4>2. job[h].tenant \in TenantIDs
        BY <1>1, <4>1 DEF Typed, Active, Steps
      <4>3. job[h].m # 0 /\ job[h].m = buckets[job[h].tenant]
        BY <1>1, <4>1 DEF OnePerTenant
      <4>4. QED
        BY <1>9, <4>1, <4>2, <4>3
    <3>3. QED
      BY <3>1, <3>2
  <2>2. ASSUME NEW u \in TenantIDs, NEW v \in TenantIDs, buckets'[u] # 0,
               buckets'[u] = buckets'[v], u # v
        PROVE  FALSE
    <3>1. u # t /\ v # t
      BY <1>9, <2>2
    <3>2. QED
      BY <1>1, <1>9, <2>2, <3>1 DEF OnePerTenant
  <2>3. QED
    BY <2>1, <2>2 DEF OnePerTenant
<1>15. ASSUME NEW u \in TenantIDs PROVE Right(u)'
  <2>1. Shown(u)' = Shown(u)
    <3>1. CASE buckets[t] # 0 /\ buckets' = buckets /\ metrics' = metrics
      BY <3>1 DEF Shown
    <3>2. CASE /\ buckets[t] = 0
               /\ metrics' = Append(metrics, Zero)
               /\ buckets' = [buckets EXCEPT ![t] = Len(metrics')]
      <4>1. CASE u = t
        <5>1. Len(metrics') = n + 1 /\ metrics'[n + 1] = Zero
          BY <1>7, <3>2
        <5>2. buckets'[t] = n + 1
          BY <1>1, <3>2, <5>1 DEF Typed
        <5>3. QED
          BY <1>9, <3>2, <4>1, <5>1, <5>2 DEF Shown
      <4>2. CASE u # t
        <5>1. buckets'[u] = buckets[u]
          BY <1>9, <4>2
        <5>2. buckets[u] # 0 => buckets[u] \in 1 .. n
          BY <1>2, <1>8
        <5>3. buckets[u] # 0 => metrics'[buckets[u]] = metrics[buckets[u]]
          BY <1>7, <3>2, <5>2
        <5>4. QED
          BY <5>1, <5>3 DEF Shown
      <4>3. QED
        BY <4>1, <4>2
    <3>3. QED
      BY <1>4, <3>1, <3>2
  <2>2. QED
    BY <1>1, <1>11, <1>12, <2>1, RightKept
<1>16. NoRecordLost'
  BY <1>15 DEF NoRecordLost, Right
<1>17. QED
  BY <1>13, <1>14, <1>16 DEF MetricsInv

\* Each step of Record replaces the RequestMetrics of the goroutine's tenant.
LEMMA RecordStep ==
    ASSUME Typed, OnePerTenant, NEW g \in Recorders, job[g].step \in Steps \ {"create"},
           NEW s \in Steps, Go(g, s), NEW rec \in Requests,
           metrics' = [metrics EXCEPT ![job[g].m] = rec], buckets' = buckets
    PROVE  Typed' /\ OnePerTenant'
<1>1. /\ job' \in [Recorders -> [step : {"idle"}] \union Active]
      /\ \A h \in Recorders : h # g => job'[h] = job[h]
      /\ job'[g].tenant = job[g].tenant /\ job'[g].m = job[g].m
  BY Moved
<1>2. metrics' \in Seq(Requests) /\ Len(metrics') = Len(metrics)
  BY Updated
<1>3. Typed'
  BY <1>1, <1>2 DEF Typed
<1>4. QED
  BY <1>1, <1>3 DEF OnePerTenant

\* The RequestMetrics that a goroutine in Record holds.
LEMMA Held ==
    ASSUME Typed, OnePerTenant, NEW g \in Recorders, job[g].step \in Steps \ {"create"}
    PROVE  /\ job[g].tenant \in TenantIDs /\ job[g].class \in Classes
           /\ job[g].m \in 1 .. Len(metrics) /\ metrics[job[g].m] = Shown(job[g].tenant)
           /\ Shown(job[g].tenant) \in Requests
           /\ metrics = [metrics EXCEPT ![job[g].m] = metrics[job[g].m]]
<1>1. job[g] \in Active
  BY DEF Typed, Steps
<1>2. job[g].tenant \in TenantIDs /\ job[g].class \in Classes
  BY <1>1 DEF Active
<1>3. job[g].m # 0 /\ job[g].m = buckets[job[g].tenant]
  BY DEF OnePerTenant
<1>4. job[g].m \in 1 .. Len(metrics) /\ Shown(job[g].tenant) \in Requests
  BY <1>2, <1>3, ShownTyped
<1>5. metrics = [metrics EXCEPT ![job[g].m] = metrics[job[g].m]]
  BY DEF Typed
<1>6. QED
  BY <1>2, <1>3, <1>4, <1>5 DEF Shown

LEMMA AddTotalStep ==
    ASSUME MetricsInv, NEW g \in Recorders, AddTotal(g) PROVE MetricsInv'
<1>1. /\ Typed /\ OnePerTenant /\ \A t \in TenantIDs : Right(t)
      /\ job[g].step = "total" /\ Go(g, "class") /\ buckets' = buckets
      /\ "class" \in Steps /\ job[g].step \in Steps \ {"create"}
  BY RightAll DEF MetricsInv, AddTotal, At, Steps
<1> DEFINE u == job[g].tenant
           rec == [Shown(u) EXCEPT !.Total = @ + 1]
<1>2. u \in TenantIDs /\ job[g].class \in Classes /\ metrics[job[g].m] = Shown(u)
      /\ Shown(u) \in Requests
  BY <1>1, Held
<1>3. metrics' = [metrics EXCEPT ![job[g].m] = rec]
  BY <1>2 DEF AddTotal
<1>4. /\ rec \in Requests /\ rec.Total = Shown(u).Total + 1 /\ rec.Errors = Shown(u).Errors
      /\ rec.ClientErr = Shown(u).ClientErr /\ rec.latency = Shown(u).latency
  BY <1>2 DEF Requests
<1> HIDE DEF u, rec
<1>5. Typed' /\ OnePerTenant'
  BY <1>1, <1>3, <1>4, RecordStep
<1>6. \A t \in TenantIDs : Shown(t)' = IF t = u THEN rec ELSE Shown(t)
  BY <1>1, <1>3, <1>4, Updated DEF u
<1>7. ASSUME NEW t \in TenantIDs PROVE Right(t)'
  <2>1. Cardinality(Past(t, {"class", "latency", "done"}, Classes)') =
           IF t = u THEN Cardinality(Past(t, {"class", "latency", "done"}, Classes)) + 1
           ELSE Cardinality(Past(t, {"class", "latency", "done"}, Classes))
    <3>1. job[g].step \notin {"class", "latency", "done"}
      BY <1>1
    <3>2. QED
      BY <1>1, <1>2, <3>1, PastGrows DEF u
  <2>2. ASSUME NEW S, NEW C, "class" \notin S, "total" \notin S
        PROVE  Cardinality(Past(t, S, C)') = Cardinality(Past(t, S, C))
    BY <1>1, <2>2, PastGrows
  <2>3. /\ Cardinality(Past(t, {"latency", "done"}, {"5xx"})')
              = Cardinality(Past(t, {"latency", "done"}, {"5xx"}))
        /\ Cardinality(Past(t, {"latency", "done"}, {"4xx"})')
              = Cardinality(Past(t, {"latency", "done"}, {"4xx"}))
        /\ Cardinality(Past(t, {"done"}, Classes)') = Cardinality(Past(t, {"done"}, Classes))
    BY <2>2
  <2>4. CASE t = u
    BY <1>1, <1>4, <1>6, <2>1, <2>3, <2>4 DEF Right
  <2>5. CASE t # u
    BY <1>1, <1>6, <2>1, <2>3, <2>5 DEF Right
  <2>6. QED
    BY <2>4, <2>5
<1>8. QED
  BY <1>5, <1>7 DEF MetricsInv, NoRecordLost, Right

LEMMA AddClassStep ==
    ASSUME MetricsInv, NEW g \in Recorders, AddClass(g) PROVE MetricsInv'
<1>1. /\ Typed /\ OnePerTenant /\ \A t \in TenantIDs : Right(t)
      /\ job[g].step = "class" /\ Go(g, "latency") /\ buckets' = buckets
      /\ "latency" \in Steps /\ job[g].step \in Steps \ {"create"}
  BY RightAll DEF MetricsInv, AddClass, At, Steps
<1> DEFINE u == job[g].tenant
           class == job[g].class
           rec == CASE class = "5xx" -> [Shown(u) EXCEPT !.Errors = @ + 1]
                    [] class = "4xx" -> [Shown(u) EXCEPT !.ClientErr = @ + 1]
                    [] OTHER -> Shown(u)
<1>2. /\ u \in TenantIDs /\ class \in Classes /\ metrics[job[g].m] = Shown(u)
      /\ Shown(u) \in Requests
      /\ metrics = [metrics EXCEPT ![job[g].m] = metrics[job[g].m]]
  BY <1>1, Held
<1>3. metrics' = [metrics EXCEPT ![job[g].m] = rec]
  <2>1. CASE class = "5xx"
    BY <1>2, <2>1 DEF AddClass
  <2>2. CASE class = "4xx"
    BY <1>2, <2>2 DEF AddClass
  <2>3. CASE class # "5xx" /\ class # "4xx"
    BY <1>2, <2>3 DEF AddClass
  <2>4. QED
    BY <2>1, <2>2, <2>3
<1>4. /\ rec \in Requests /\ rec.Total = Shown(u).Total
      /\ rec.Errors = Shown(u).Errors + (IF class = "5xx" THEN 1 ELSE 0)
      /\ rec.ClientErr = Shown(u).ClientErr + (IF class = "4xx" THEN 1 ELSE 0)
      /\ rec.latency = Shown(u).latency
  <2>1. CASE class = "5xx"
    BY <1>2, <2>1 DEF Requests
  <2>2. CASE class = "4xx"
    BY <1>2, <2>2 DEF Requests
  <2>3. CASE class # "5xx" /\ class # "4xx"
    BY <1>2, <2>3 DEF Requests
  <2>4. QED
    BY <2>1, <2>2, <2>3
<1> HIDE DEF u, rec, class
<1>5. Typed' /\ OnePerTenant'
  BY <1>1, <1>3, <1>4, RecordStep
<1>6. \A t \in TenantIDs : Shown(t)' = IF t = u THEN rec ELSE Shown(t)
  BY <1>1, <1>3, <1>4, Updated DEF u
<1>7. ASSUME NEW t \in TenantIDs PROVE Right(t)'
  <2>1. Past(t, {"class", "latency", "done"}, Classes)'
           = Past(t, {"class", "latency", "done"}, Classes)
    <3>1. job[g].step \in {"class", "latency", "done"}
      BY <1>1
    <3>2. QED
      BY <1>1, <3>1, PastStays
  <2>2. ASSUME NEW C
        PROVE  Cardinality(Past(t, {"latency", "done"}, C)') =
                  IF t = u /\ class \in C THEN Cardinality(Past(t, {"latency", "done"}, C)) + 1
                  ELSE Cardinality(Past(t, {"latency", "done"}, C))
    <3>1. job[g].step \notin {"latency", "done"}
      BY <1>1
    <3>2. QED
      BY <1>1, <3>1, PastGrows DEF u, class
  <2>3. Cardinality(Past(t, {"done"}, Classes)') = Cardinality(Past(t, {"done"}, Classes))
    <3>1. job[g].step \notin {"done"} /\ "latency" \notin {"done"}
      BY <1>1
    <3>2. QED
      BY <1>1, <3>1, PastGrows
  <2>4. /\ Cardinality(Past(t, {"latency", "done"}, {"5xx"})) \in Nat
        /\ Cardinality(Past(t, {"latency", "done"}, {"4xx"})) \in Nat
    BY PastFinite
  <2>5. /\ Cardinality(Past(t, {"latency", "done"}, {"5xx"})') =
              Cardinality(Past(t, {"latency", "done"}, {"5xx"}))
                + (IF t = u /\ class = "5xx" THEN 1 ELSE 0)
        /\ Cardinality(Past(t, {"latency", "done"}, {"4xx"})') =
              Cardinality(Past(t, {"latency", "done"}, {"4xx"}))
                + (IF t = u /\ class = "4xx" THEN 1 ELSE 0)
    BY <2>2, <2>4
  <2>6. CASE t = u
    BY <1>1, <1>4, <1>6, <2>1, <2>3, <2>5, <2>6 DEF Right
  <2>7. CASE t # u
    BY <1>1, <1>6, <2>1, <2>3, <2>4, <2>5, <2>7 DEF Right
  <2>8. QED
    BY <2>6, <2>7
<1>8. QED
  BY <1>5, <1>7 DEF MetricsInv, NoRecordLost, Right

LEMMA AddLatencyStep ==
    ASSUME MetricsInv, NEW g \in Recorders, AddLatency(g) PROVE MetricsInv'
<1>1. /\ Typed /\ OnePerTenant /\ \A t \in TenantIDs : Right(t)
      /\ job[g].step = "latency" /\ Go(g, "done") /\ buckets' = buckets
      /\ "done" \in Steps /\ job[g].step \in Steps \ {"create"}
  BY RightAll DEF MetricsInv, AddLatency, At, Steps
<1> DEFINE u == job[g].tenant
           n == Len(Shown(u).latency)
           rec == IF n < MaxSamples THEN [Shown(u) EXCEPT !.latency = Append(@, g)]
                  ELSE Shown(u)
<1>2. /\ u \in TenantIDs /\ job[g].class \in Classes /\ metrics[job[g].m] = Shown(u)
      /\ Shown(u) \in Requests
      /\ metrics = [metrics EXCEPT ![job[g].m] = metrics[job[g].m]]
  BY <1>1, Held
<1>3. metrics' = [metrics EXCEPT ![job[g].m] = rec]
  <2>1. CASE n < MaxSamples
    BY <1>2, <2>1 DEF AddLatency
  <2>2. CASE ~ (n < MaxSamples)
    BY <1>2, <2>2 DEF AddLatency
  <2>3. QED
    BY <2>1, <2>2
<1>4. Shown(u).latency \in Seq(Recorders) /\ n \in Nat
  BY <1>2 DEF Requests
<1>5. /\ Append(Shown(u).latency, g) \in Seq(Recorders)
      /\ Len(Append(Shown(u).latency, g)) = n + 1
  BY <1>4, AppendProperties
<1>6. /\ rec \in Requests /\ rec.Total = Shown(u).Total /\ rec.Errors = Shown(u).Errors
      /\ rec.ClientErr = Shown(u).ClientErr
      /\ Len(rec.latency) = IF n < MaxSamples THEN n + 1 ELSE n
  <2>1. CASE n < MaxSamples
    BY <1>2, <1>5, <2>1 DEF Requests
  <2>2. CASE ~ (n < MaxSamples)
    BY <1>2, <2>2 DEF Requests
  <2>3. QED
    BY <2>1, <2>2
<1> HIDE DEF u, n, rec
<1>7. Typed' /\ OnePerTenant'
  BY <1>1, <1>3, <1>6, RecordStep
<1>8. \A t \in TenantIDs : Shown(t)' = IF t = u THEN rec ELSE Shown(t)
  BY <1>1, <1>3, <1>6, Updated DEF u
<1>9. ASSUME NEW t \in TenantIDs PROVE Right(t)'
  <2> DEFINE before == Cardinality(Past(t, {"done"}, Classes))
             after == Cardinality(Past(t, {"done"}, Classes)')
  <2>1. ASSUME NEW S, NEW C, "latency" \in S, "done" \in S
        PROVE  Past(t, S, C)' = Past(t, S, C)
    BY <1>1, <2>1, PastStays
  <2>2. /\ Past(t, {"class", "latency", "done"}, Classes)'
              = Past(t, {"class", "latency", "done"}, Classes)
        /\ Past(t, {"latency", "done"}, {"5xx"})' = Past(t, {"latency", "done"}, {"5xx"})
        /\ Past(t, {"latency", "done"}, {"4xx"})' = Past(t, {"latency", "done"}, {"4xx"})
    BY <2>1
  <2>3. after = IF t = u THEN before + 1 ELSE before
    <3>1. job[g].step \notin {"done"}
      BY <1>1
    <3>2. QED
      BY <1>1, <1>2, <3>1, PastGrows DEF u
  <2>4. before \in Nat /\ MaxSamples \in Nat
    BY PastFinite, MetricsAssumption
  <2>5. Len(Shown(t).latency) = IF before < MaxSamples THEN before ELSE MaxSamples
    BY <1>1 DEF Right
  <2> HIDE DEF before, after
  <2>6. CASE t = u
    <3>1. n = IF before < MaxSamples THEN before ELSE MaxSamples
      BY <2>5, <2>6 DEF n
    <3>2. Len(rec.latency) = IF after < MaxSamples THEN after ELSE MaxSamples
      BY <1>6, <2>3, <2>4, <2>6, <3>1
    <3>3. QED
      BY <1>1, <1>6, <1>8, <2>2, <2>6, <3>2 DEF Right, after
  <2>7. CASE t # u
    <3>1. Shown(t)' = Shown(t) /\ after = before
      BY <1>8, <2>3, <2>7
    <3>2. QED
      BY <1>1, <2>2, <3>1 DEF Right, before, after
  <2>8. QED
    BY <2>6, <2>7
<1>10. QED
  BY <1>7, <1>9 DEF MetricsInv, NoRecordLost, Right

LEMMA MetricsStepInv == MetricsInv /\ [MetricsNext]_metricsVars => MetricsInv'
<1> SUFFICES ASSUME MetricsInv, [MetricsNext]_metricsVars PROVE MetricsInv'
  OBVIOUS
<1>1. CASE UNCHANGED metricsVars
  <2>1. buckets' = buckets /\ metrics' = metrics /\ job' = job
    BY <1>1 DEF metricsVars
  <2>2. Typed' /\ OnePerTenant'
    BY <2>1 DEF MetricsInv, Typed, OnePerTenant
  <2>3. ASSUME NEW t \in TenantIDs PROVE Right(t)'
    <3>1. Shown(t)' = Shown(t) /\ Right(t)
      BY <2>1, RightAll DEF MetricsInv, Shown
    <3>2. QED
      BY <2>1, <3>1, RightKept
  <2>4. QED
    BY <2>2, <2>3 DEF MetricsInv, NoRecordLost, Right
<1>2. CASE MetricsNext
  BY <1>2, LookupStep, CreateStep, AddTotalStep, AddClassStep, AddLatencyStep
  DEF MetricsNext
<1>3. QED
  BY <1>1, <1>2

\* MetricsRegistry.For and RequestMetrics.Record keep the invariant: one
\* RequestMetrics per tenant, which every recorder of the tenant holds.
THEOREM MetricsInvariant == MetricsSpec => []MetricsInv
BY MetricsInitInv, MetricsStepInv, PTL DEF MetricsSpec

\* However goroutines interleave in For's two lookups and in Record's atomic
\* counters, the counters that the registry shows for a tenant are those of
\* all the requests recorded so far, and a sample is dropped only when
\* MaxSamples are kept.
THEOREM MetricsExact == MetricsSpec => []NoRecordLost
<1>1. MetricsInv => NoRecordLost
  BY DEF MetricsInv
<1>2. QED
  BY <1>1, MetricsInvariant, PTL
=============================================================================
