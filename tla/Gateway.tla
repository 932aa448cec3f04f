------------------------------ MODULE Gateway -------------------------------
(***************************************************************************)
(* The middleware chain of system-design/api-gateway: authentication,      *)
(* tenant resolution, the per-tenant rate limiter, authorization and the   *)
(* upstream proxy, for requests that run in goroutines of their own while  *)
(* the stores for tenants, API keys and roles are changed.  Every store    *)
(* access, of one tenant, key or role, and each critical section of a      *)
(* bucket is a step of its own.                                            *)
(*                                                                         *)
(* Module ObservedGateway adds the observability middleware around the     *)
(* chain, whose metrics and log line influence no request.                 *)
(***************************************************************************)
EXTENDS Integers, FiniteSets, Sequences

CONSTANTS Requests,    \* the requests, each served once
          Tenants,     \* tenant IDs, of stored tenants or not
          Keys,        \* raw API keys, as good as their SHA-256 hashes
          Inputs,      \* what a client may send: credential, method and path
          Seeds,       \* the contents NewMemTenantStore may be given
          TenantRecs,  \* the Tenant records Upsert may store
          KeyRecs,     \* the APIKeyRecords Register may store
          CustomRoles, \* the Roles AddRole may add
          PlanQuota,   \* PlanQuota[p]: the plan's requests per window
          Window,      \* RateLimiter.window in clock ticks
          MaxChanges,  \* bound: how often the stores are changed
          Horizon,     \* bound: the clock never passes this instant
          None         \* no record, no permission, nothing yet

IsSequence(s) == s \in Seq({s[i] : i \in DOMAIN s})

ASSUME GatewayAssumption ==
    /\ \A p \in DOMAIN PlanQuota : PlanQuota[p] \in Nat \ {0}
    /\ \A rec \in TenantRecs : rec.plan \in DOMAIN PlanQuota /\ rec.override \in Int
    /\ Seeds \subseteq [Tenants -> TenantRecs \union {None}]
    /\ \A rec \in KeyRecs : rec.tenant \in Tenants /\ IsSequence(rec.roles)
    /\ \A in \in Inputs :
          /\ in.cred.kind = "jwt" =>
                in.cred.tenant \in Tenants \union {None} /\ IsSequence(in.cred.roles)
          /\ in.cred.kind = "key" => in.cred.key \in Keys
    /\ Window \in Nat /\ MaxChanges \in Nat /\ Horizon \in Nat

VARIABLES now,        \* the clock
          tenants,    \* MemTenantStore.tenants
          keys,       \* APIKeyStore.keys
          roles,      \* MemPolicyStore.roles, [tenant][role name]
          ring,       \* RateLimiter.buckets: the timestamps of each tenant
          changes,    \* how often the stores were changed
          pc,         \* the middleware each request is in, or its answer
          input,      \* what the client sent
          claims,     \* the Claims and the tenant ID in the request's context
          limit,      \* the quota the limiter read for the request
          remaining,  \* the header X-RateLimit-Remaining
          looked,     \* how many of its roles hasPermission has looked up
          admitted,   \* history: when and under which quota, per tenant
          since       \* history: what held of its tenant since authentication

stores  == <<tenants, keys, roles, changes>>
request == <<pc, input, claims, limit, remaining, looked>>
vars    == <<now, stores, ring, request, admitted, since>>

\* The answers that end a request.
Answers == {"unauthenticated", "noTenant", "internal", "rateLimited", "forbidden", "forwarded"}

Init ==
    /\ now = 0
    /\ tenants \in Seeds
    /\ keys = [k \in Keys |-> None]
    /\ roles = [t \in Tenants |-> {}]
    /\ ring = [t \in Tenants |-> <<>>]
    /\ changes = 0
    /\ pc = [r \in Requests |-> "authn"]
    /\ input = [r \in Requests |-> None]
    /\ claims = [r \in Requests |-> None]
    /\ limit = [r \in Requests |-> 0]
    /\ remaining = [r \in Requests |-> None]
    /\ looked = [r \in Requests |-> 0]
    /\ admitted = [t \in Tenants |-> <<>>]
    /\ since = [r \in Requests |-> {}]
-----------------------------------------------------------------------------
\* Tenant.RateLimit.
RateLimit(rec) == IF rec.override > 0 THEN rec.override ELSE PlanQuota[rec.plan]

\* MemTenantStore.Get: the record, or None for an error.
Get(t) == IF tenants[t] # None /\ tenants[t].enabled THEN tenants[t] ELSE None

\* BuiltinRoles; a permission is a pair of resource and action.
PermRead    == <<"*", "read">>
PermWrite   == <<"*", "write">>
PermDelete  == <<"*", "delete">>
PermBilling == <<"billing", "admin">>
BuiltinRoles ==
    {[name |-> "viewer", permissions |-> {PermRead}],
     [name |-> "editor", permissions |-> {PermRead, PermWrite}],
     [name |-> "admin",  permissions |-> {PermRead, PermWrite, PermDelete, PermBilling}]}

Permissions(set, name) == UNION {role.permissions : role \in {x \in set : x.name = name}}
Defined(set, name)     == \E role \in set : role.name = name

\* Mutant: a tenant's own roles only add to the built-in ones.
RolePermissions_Adds(t, name) == Permissions(roles[t] \union BuiltinRoles, name)

\* MemPolicyStore.RolePermissions: the tenant's own role hides a built-in one.
RolePermissions(t, name) ==
    Permissions(IF Defined(roles[t], name) THEN roles[t] ELSE BuiltinRoles, name)

matchPermission(granted, required) ==
    \A i \in {1, 2} : granted[i] \in {"*", required[i]}

\* The route table.  A path is one of "/api/billing/...", "/api/..." or other.
routePermissions ==
    {<<"GET", "/api/", PermRead>>, <<"POST", "/api/", PermWrite>>,
     <<"PUT", "/api/", PermWrite>>, <<"PATCH", "/api/", PermWrite>>,
     <<"DELETE", "/api/", PermDelete>>, <<"POST", "/api/billing/", PermBilling>>}

HasPrefix(path, prefix) == path = prefix \/ (path = "/api/billing/" /\ prefix = "/api/")

\* The permission of the longest matching prefix, None without a match.
requiredPermission(in) ==
    LET match == {x \in routePermissions : x[1] = in.method /\ HasPrefix(in.path, x[2])}
        best  == {x \in match : \A y \in match : HasPrefix(x[2], y[2])}
    IN  IF match = {} THEN None ELSE (CHOOSE x \in best : TRUE)[3]
-----------------------------------------------------------------------------
\* What holds of an authenticated request at this instant.  A role means what
\* the tenant defines it to mean, or else what the platform does.
RolesOf(r) == {claims[r].roles[i] : i \in DOMAIN claims[r].roles}
Enabled(t) == tenants[t] # None /\ tenants[t].enabled
Grants(t, name, p) ==
    \E role \in IF Defined(roles[t], name) THEN roles[t] ELSE BuiltinRoles :
        role.name = name /\ \E g \in role.permissions : matchPermission(g, p)
Withheld(r, name) ==
    /\ requiredPermission(input[r]) # None
    /\ ~ Grants(claims[r].tenant, name, requiredPermission(input[r]))
Permitted(r) ==
    \/ requiredPermission(input[r]) = None
    \/ \E name \in RolesOf(r) : ~ Withheld(r, name)
Facts(r) ==
    IF claims[r] = None THEN {}
    ELSE {<<"tenant", IF Enabled(claims[r].tenant) THEN "enabled" ELSE "disabled">>,
          <<"request", IF Permitted(r) THEN "permitted" ELSE "denied">>}
         \union {<<"withheld", name>> : name \in {x \in RolesOf(r) : Withheld(r, x)}}

\* The history keeps what held at some instant since authentication, for as
\* long as the request is served.
Watch ==
    since' = [r \in Requests |->
                IF pc[r] \in Answers THEN since[r] ELSE since[r] \union Facts(r)']

\* The answer ends the request; going on takes it to the next middleware.
Go(r, next) == pc' = [pc EXCEPT ![r] = next]

\* JWTVerifier.Verify: genuine stands for well-formed, correctly signed and
\* of the right issuer and audience.
Verify(token) == token.genuine /\ now <= token.exp /\ token.tenant # None

\* authenticate: the claims a credential stands for, None for an error.
authenticate(cred) ==
    IF cred.kind = "jwt" /\ Verify(cred)
    THEN [tenant |-> cred.tenant, roles |-> cred.roles]
    ELSE IF cred.kind = "key" THEN keys[cred.key]
    ELSE None

AuthN(r, in) ==
    /\ pc[r] = "authn"
    /\ input' = [input EXCEPT ![r] = in]
    /\ claims' = [claims EXCEPT ![r] = authenticate(in.cred)]
    /\ Go(r, IF claims'[r] = None THEN "unauthenticated" ELSE "tenant")
    /\ UNCHANGED <<now, stores, ring, limit, remaining, looked, admitted>>

\* tenantMiddleware.
ResolveTenant(r) ==
    /\ pc[r] = "tenant"
    /\ Go(r, IF Get(claims[r].tenant) = None THEN "noTenant" ELSE "limiter")
    /\ UNCHANGED <<now, stores, ring, input, claims, limit, remaining, looked, admitted>>

\* RateLimiter.Middleware looks the tenant up again, for its current quota.
ReadQuota(r) ==
    LET rec == Get(claims[r].tenant)
    IN  /\ pc[r] = "limiter"
        /\ Go(r, IF rec = None THEN "internal" ELSE "bucket")
        /\ limit' = [limit EXCEPT ![r] = IF rec = None THEN 0 ELSE RateLimit(rec)]
        /\ UNCHANGED <<now, stores, ring, input, claims, remaining, looked, admitted>>

\* Mutant: a timestamp of the cutoff itself is evicted.
Stale_OnCutoff(t) == {i \in 1 .. Len(ring[t]) : ring[t][i] <= now - Window}

\* Mutant: timestamps are kept a tick too long.
Stale_Late(t) == {i \in 1 .. Len(ring[t]) : ring[t][i] < now - Window - 1}

\* The positions of the timestamps before the cutoff, a prefix of the ring.
Stale(t) == {i \in 1 .. Len(ring[t]) : ring[t][i] < now - Window}

\* Mutant: the newest timestamp goes to the front of the FIFO.
allowed_NewestFirst(r) ==
    LET t    == claims[r].tenant
        kept == SubSeq(ring[t], Cardinality(Stale(t)) + 1, Len(ring[t]))
    IN  /\ pc[r] = "bucket"
        /\ IF Len(kept) >= limit[r]
           THEN /\ Go(r, "rateLimited")
                /\ ring' = [ring EXCEPT ![t] = kept]
                /\ UNCHANGED admitted
           ELSE /\ Go(r, "header")
                /\ ring' = [ring EXCEPT ![t] = <<now>> \o kept]
                /\ admitted' = [admitted EXCEPT
                                    ![t] = Append(@, [at |-> now, limit |-> limit[r]])]
        /\ UNCHANGED <<now, stores, input, claims, limit, remaining, looked>>

\* Mutant: the admitted request is not recorded.
allowed_NotRecorded(r) ==
    LET t    == claims[r].tenant
        kept == SubSeq(ring[t], Cardinality(Stale(t)) + 1, Len(ring[t]))
    IN  /\ pc[r] = "bucket"
        /\ ring' = [ring EXCEPT ![t] = kept]
        /\ IF Len(kept) >= limit[r]
           THEN Go(r, "rateLimited") /\ UNCHANGED admitted
           ELSE /\ Go(r, "header")
                /\ admitted' = [admitted EXCEPT
                                    ![t] = Append(@, [at |-> now, limit |-> limit[r]])]
        /\ UNCHANGED <<now, stores, input, claims, limit, remaining, looked>>

\* requestTimestamps.allowed.
allowed(r) ==
    LET t    == claims[r].tenant
        kept == SubSeq(ring[t], Cardinality(Stale(t)) + 1, Len(ring[t]))
    IN  /\ pc[r] = "bucket"
        /\ IF Len(kept) >= limit[r]
           THEN /\ Go(r, "rateLimited")
                /\ ring' = [ring EXCEPT ![t] = kept]
                /\ UNCHANGED admitted
           ELSE /\ Go(r, "header")
                /\ ring' = [ring EXCEPT ![t] = Append(kept, now)]
                /\ admitted' = [admitted EXCEPT
                                    ![t] = Append(@, [at |-> now, limit |-> limit[r]])]
        /\ UNCHANGED <<now, stores, input, claims, limit, remaining, looked>>

\* The header is computed in a second critical section of the bucket.
SetHeader(r) ==
    /\ pc[r] = "header"
    /\ remaining' = [remaining EXCEPT ![r] = limit[r] - Len(ring[claims[r].tenant])]
    /\ Go(r, "authz")
    /\ UNCHANGED <<now, stores, ring, input, claims, limit, looked, admitted>>

\* AuthZ.Middleware: a route without a required permission is open.
OpenRoute(r) ==
    /\ pc[r] = "authz"
    /\ requiredPermission(input[r]) = None
    /\ Go(r, "forwarded")
    /\ UNCHANGED <<now, stores, ring, input, claims, limit, remaining, looked, admitted>>

\* hasPermission takes the lock of the role store anew for every role, in
\* the order of the claims, and is done with the first one that grants.
LookUpRole(r) ==
    LET required == requiredPermission(input[r])
        name     == claims[r].roles[looked[r] + 1]
    IN  /\ pc[r] = "authz"
        /\ required # None
        /\ looked[r] < Len(claims[r].roles)
        /\ looked' = [looked EXCEPT ![r] = @ + 1]
        /\ IF \E p \in RolePermissions(claims[r].tenant, name) : matchPermission(p, required)
           THEN Go(r, "forwarded")
           ELSE UNCHANGED pc
        /\ UNCHANGED <<now, stores, ring, input, claims, limit, remaining, admitted>>

\* None of the roles granted the permission when it was looked up.
Forbid(r) ==
    /\ pc[r] = "authz"
    /\ requiredPermission(input[r]) # None
    /\ looked[r] = Len(claims[r].roles)
    /\ Go(r, "forbidden")
    /\ UNCHANGED <<now, stores, ring, input, claims, limit, remaining, looked, admitted>>
-----------------------------------------------------------------------------
\* The operators of the gateway change a store.
Change ==
    /\ changes < MaxChanges
    /\ changes' = changes + 1
    /\ UNCHANGED <<now, ring, request, admitted>>

Upsert(t, rec) ==
    Change /\ tenants' = [tenants EXCEPT ![t] = rec] /\ UNCHANGED <<keys, roles>>

Register(k, rec) ==
    Change /\ keys' = [keys EXCEPT ![k] = rec] /\ UNCHANGED <<tenants, roles>>

\* AddRole replaces a role of the same name.
AddRole(t, role) ==
    /\ Change
    /\ roles' = [roles EXCEPT ![t] = {x \in @ : x.name # role.name} \union {role}]
    /\ UNCHANGED <<tenants, keys>>

Tick == now < Horizon /\ now' = now + 1 /\ UNCHANGED <<stores, ring, request, admitted>>

Serve(r) ==
    \/ \E in \in Inputs : AuthN(r, in)
    \/ ResolveTenant(r) \/ ReadQuota(r) \/ allowed(r) \/ SetHeader(r)
    \/ OpenRoute(r) \/ LookUpRole(r) \/ Forbid(r)

Next ==
    /\ \/ \E r \in Requests : Serve(r)
       \/ \E t \in Tenants, rec \in TenantRecs : Upsert(t, rec)
       \/ \E k \in Keys, rec \in KeyRecs : Register(k, rec)
       \/ \E t \in Tenants, role \in CustomRoles : AddRole(t, role)
       \/ Tick
    /\ Watch

Spec == Init /\ [][Next]_vars
-----------------------------------------------------------------------------
\* The shape of the state; a bucket is in the order of time, oldest first, as
\* the eviction of a prefix takes for granted, and never outgrows every quota.
TypeOK ==
    /\ now \in 0 .. Horizon
    /\ tenants \in [Tenants -> TenantRecs \union {None}]
    /\ keys \in [Keys -> KeyRecs \union {None}]
    /\ roles \in [Tenants -> SUBSET CustomRoles]
    /\ \A t \in Tenants :
          /\ ring[t] \in Seq(0 .. now)
          /\ \A i \in 1 .. Len(ring[t]) : i > 1 => ring[t][i - 1] <= ring[t][i]
          /\ ring[t] = <<>> \/ \E rec \in TenantRecs : Len(ring[t]) <= RateLimit(rec)
    /\ changes \in 0 .. MaxChanges
    /\ pc \in [Requests -> {"authn", "tenant", "limiter", "bucket", "header", "authz"}
                             \union Answers]
    /\ limit \in [Requests -> Nat]
    /\ looked \in [Requests -> Nat]
    /\ \A r \in Requests : looked[r] > 0 => looked[r] <= Len(claims[r].roles)

Within(t, i, k) == admitted[t][i].at - Window <= admitted[t][k].at /\ k <= i

\* rate_limiter.go:1-28, "no boundary burst": whenever a request passes the
\* limiter, its tenant has passed at most the quota that the request read in
\* the window that ends there, whoever else was between reading a quota, an
\* older or a newer one, and the bucket.
QuotaKept ==
    \A t \in Tenants : \A i \in DOMAIN admitted[t] :
        Cardinality({k \in DOMAIN admitted[t] : Within(t, i, k)}) <= admitted[t][i].limit

\* A request is refused with 429 only when its own tenant has used up the
\* quota in the current window.  No other tenant's traffic counts.
RefusedOnlyWhenFull ==
    [][\A r \in Requests : pc[r] = "bucket" /\ pc'[r] = "rateLimited" =>
            LET t == claims[r].tenant
            IN  Cardinality({k \in DOMAIN admitted[t] : admitted[t][k].at >= now - Window})
                    >= limit[r]]_vars

\* The remaining quota that a client is told always counts its own request
\* off, although the bucket is read again after others may have evicted it.
\* (It may be negative after a quota was raised.)
RemainingBelowLimit ==
    \A r \in Requests : remaining[r] # None => remaining[r] < limit[r]

\* Every answer is justified by the stores as they were since the request was
\* authenticated: a request of a tenant that was disabled all along, or whose
\* roles never allowed it, is not forwarded; a tenant is missed only if it was
\* at some instant; and permission is denied only if each of the roles, at an
\* instant of its own, did not grant it.  (The roles are looked up one after
\* the other, so that a request may be denied that was permitted all along.)
AnswerJustified ==
    \A r \in Requests :
        /\ pc[r] = "forwarded" =>
              {<<"tenant", "enabled">>, <<"request", "permitted">>} \subseteq since[r]
        /\ pc[r] \in {"noTenant", "internal"} => <<"tenant", "disabled">> \in since[r]
        /\ pc[r] = "forbidden" =>
              /\ requiredPermission(input[r]) # None
              /\ \A name \in RolesOf(r) : <<"withheld", name>> \in since[r]
=============================================================================
