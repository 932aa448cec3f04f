------------------------------ MODULE Metrics -------------------------------
(***************************************************************************)
(* The metrics of api-gateway/observability.go: goroutines that each do    *)
(* registry.For(tenant).Record(status, latency).  For looks the tenant up  *)
(* under the read lock and again under the write lock; every atomic        *)
(* counter is a step of its own, so is the critical section of the samples.*)
(***************************************************************************)
EXTENDS Integers, Sequences, FiniteSets

CONSTANTS Recorders,   \* the goroutines, each of which records one request
          TenantIDs,   \* keys of the registry
          MaxSamples   \* 1000 in Record

ASSUME MetricsAssumption == IsFiniteSet(Recorders) /\ MaxSamples \in Nat

VARIABLES buckets,  \* MetricsRegistry.buckets: per tenant the RequestMetrics, 0 for none
          metrics,  \* the RequestMetrics, in the order of their allocation
          job       \* per goroutine: step, tenant, class of status, its RequestMetrics

metricsVars == <<buckets, metrics, job>>

Classes == {"2xx", "4xx", "5xx"}
Zero    == [Total |-> 0, Errors |-> 0, ClientErr |-> 0, latency |-> <<>>]

MetricsInit ==
    /\ buckets = [t \in TenantIDs |-> 0]
    /\ metrics = <<>>
    /\ job = [g \in Recorders |-> [step |-> "idle"]]

At(g, step) == job[g].step = step
Go(g, step) == job' = [job EXCEPT ![g].step = step]

\* For: the lookup under the read lock.
Lookup(g, t, class) ==
    /\ At(g, "idle")
    /\ job' = [job EXCEPT ![g] = [tenant |-> t, class |-> class, m |-> buckets[t],
                                  step |-> IF buckets[t] # 0 THEN "total" ELSE "create"]]
    /\ UNCHANGED <<buckets, metrics>>

\* Mutant: no second lookup under the write lock.
Create_NoRecheck(g) ==
    /\ At(g, "create")
    /\ metrics' = Append(metrics, Zero)
    /\ buckets' = [buckets EXCEPT ![job[g].tenant] = Len(metrics')]
    /\ job' = [job EXCEPT ![g].m = Len(metrics'), ![g].step = "total"]

\* For: under the write lock, another goroutine's RequestMetrics or a new one.
Create(g) ==
    LET t == job[g].tenant
    IN  /\ At(g, "create")
        /\ IF buckets[t] # 0 THEN UNCHANGED <<buckets, metrics>>
           ELSE /\ metrics' = Append(metrics, Zero)
                /\ buckets' = [buckets EXCEPT ![t] = Len(metrics')]
        /\ job' = [job EXCEPT ![g].m = buckets'[t], ![g].step = "total"]

\* Record, counter by counter.
AddTotal(g) ==
    /\ At(g, "total")
    /\ metrics' = [metrics EXCEPT ![job[g].m].Total = @ + 1]
    /\ Go(g, "class")
    /\ UNCHANGED buckets

AddClass(g) ==
    /\ At(g, "class")
    /\ metrics' = CASE job[g].class = "5xx" -> [metrics EXCEPT ![job[g].m].Errors = @ + 1]
                    [] job[g].class = "4xx" -> [metrics EXCEPT ![job[g].m].ClientErr = @ + 1]
                    [] OTHER -> metrics
    /\ Go(g, "latency")
    /\ UNCHANGED buckets

\* Only the first samples are kept; g stands for the measured latency.
AddLatency(g) ==
    /\ At(g, "latency")
    /\ metrics' = IF Len(metrics[job[g].m].latency) < MaxSamples
                  THEN [metrics EXCEPT ![job[g].m].latency = Append(@, g)] ELSE metrics
    /\ Go(g, "done")
    /\ UNCHANGED buckets

MetricsNext ==
    \E g \in Recorders :
        \/ \E t \in TenantIDs, class \in Classes : Lookup(g, t, class)
        \/ Create(g) \/ AddTotal(g) \/ AddClass(g) \/ AddLatency(g)

MetricsSpec == MetricsInit /\ [][MetricsNext]_metricsVars
-----------------------------------------------------------------------------
\* What the registry shows for a tenant.
Shown(t) == IF buckets[t] = 0 THEN Zero ELSE metrics[buckets[t]]

\* The recorders of a tenant that have passed a step of Record, of a class.
Past(t, steps, classes) ==
    {g \in Recorders : job[g].step \in steps /\ job[g].tenant = t /\ job[g].class \in classes}

\* No record is lost to a RequestMetrics that another goroutine's replaces, or
\* counted for another tenant: the counters a reader of the registry finds
\* are at every moment those of all the requests recorded so far.
NoRecordLost ==
    \A t \in TenantIDs :
        /\ Shown(t).Total = Cardinality(Past(t, {"class", "latency", "done"}, Classes))
        /\ Shown(t).Errors = Cardinality(Past(t, {"latency", "done"}, {"5xx"}))
        /\ Shown(t).ClientErr = Cardinality(Past(t, {"latency", "done"}, {"4xx"}))
        /\ LET recorded == Cardinality(Past(t, {"done"}, Classes))
           IN  Len(Shown(t).latency) = IF recorded < MaxSamples THEN recorded ELSE MaxSamples
=============================================================================
