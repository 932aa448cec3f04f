-------------------------- MODULE ObservedGateway ---------------------------
(***************************************************************************)
(* The gateway inside its outermost middleware, observability.go: when the *)
(* chain has answered, the middleware reads the tenant from the context it *)
(* made itself and records the request in that tenant's metrics.  A        *)
(* context is the sequence of key-value pairs it was derived with; the     *)
(* inner middlewares derive longer ones and never change an outer one.     *)
(* Module Metrics has the steps of the record, which are one step here.    *)
(***************************************************************************)
EXTENDS Gateway

VARIABLES observed,  \* the requests whose handler has returned
          recorded   \* MetricsRegistry: per tenant and class of status, how many

observedVars == <<observed, recorded>>

ObservedInit ==
    /\ Init
    /\ observed = {}
    /\ recorded = [t \in Tenants |-> [class \in {"2xx", "4xx", "5xx"} |-> 0]]
-----------------------------------------------------------------------------
\* The contexts of a request: the observability middleware's own, and the one
\* verifyJWT or verifyAPIKey derives from it.
ObsCtx(r)  == <<[key |-> "ctxTraceID", value |-> r]>>
AuthCtx(r) == Append(ObsCtx(r), [key |-> "ctxTenantID", value |-> claims[r].tenant])

\* The innermost value of the key, None for the empty string.
TenantFromCtx(ctx) ==
    LET at == {i \in DOMAIN ctx : ctx[i].key = "ctxTenantID"}
    IN  IF at = {} THEN None ELSE ctx[CHOOSE i \in at : \A k \in at : k <= i].value

\* What the statusRecorder may have seen; an upstream answers anything.
StatusOf(answer) ==
    CASE answer = "forwarded" -> {"2xx", "4xx", "5xx"}
      [] answer = "internal"  -> {"5xx"}
      [] OTHER                -> {"4xx"}

\* Middleware after next.ServeHTTP.
Observe(r) ==
    /\ pc[r] \in Answers /\ r \notin observed
    /\ observed' = observed \union {r}
    /\ LET tenantID == TenantFromCtx(ObsCtx(r))
       IN  IF tenantID = None THEN UNCHANGED recorded
           ELSE \E class \in StatusOf(pc[r]) :
                   recorded' = [recorded EXCEPT ![tenantID][class] = @ + 1]
    /\ UNCHANGED vars

ObservedNext ==
    \/ Next /\ UNCHANGED observedVars
    \/ \E r \in Requests : Observe(r)

ObservedSpec == ObservedInit /\ [][ObservedNext]_<<vars, observedVars>>
-----------------------------------------------------------------------------
Total(t) == recorded[t]["2xx"] + recorded[t]["4xx"] + recorded[t]["5xx"]

\* observability.go:192-195, "Records latency, status code, and tenant in the
\* metrics registry": every answered request whose tenant was resolved counts
\* among the requests recorded for that tenant.
EveryRequestRecorded ==
    \A t \in Tenants :
        Total(t) >= Cardinality({r \in observed :
                                   /\ pc[r] \notin {"unauthenticated", "noTenant"}
                                   /\ TenantFromCtx(AuthCtx(r)) = t})
=============================================================================
