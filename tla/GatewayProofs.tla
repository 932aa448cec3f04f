---------------------------- MODULE GatewayProofs ---------------------------
(***************************************************************************)
(* What TLAPS proves about the API gateway for any set of requests,        *)
(* tenants, keys and roles, every quota and every window, alone and inside *)
(* the observability middleware.                                           *)
(***************************************************************************)
EXTENDS ObservedGateway, FiniteSetTheorems, SequenceTheorems, TLAPS

LEMMA LeastIndex ==
    ASSUME NEW S, S \subseteq Nat, S # {}
    PROVE  \E m \in S : \A k \in S : m <= k
<1>1. PICK m \in S : \A k \in S : ~ (<<k, m>> \in OpToRel(<, Nat))
  BY NatLessThanWellFounded, WFMin, Zenon
<1>2. \A k \in S : ~ (k < m)
  BY <1>1 DEF OpToRel
<1>3. QED
  BY <1>2

LEMMA IntervalSize ==
    ASSUME NEW m \in Nat, NEW k \in Nat, k <= m
    PROVE  IsFiniteSet(m - k + 1 .. m) /\ Cardinality(m - k + 1 .. m) = k
<1>1. m - k + 1 \in Int /\ m \in Int
  OBVIOUS
<1>2. /\ IsFiniteSet(m - k + 1 .. m)
      /\ Cardinality(m - k + 1 .. m) = IF m - k + 1 > m THEN 0 ELSE m - (m - k + 1) + 1
  BY <1>1, FS_Interval
<1>3. QED
  BY <1>2

LEMMA Appended ==
    ASSUME NEW S, NEW s \in Seq(S), NEW e \in S
    PROVE  /\ Append(s, e) \in Seq(S) /\ Len(Append(s, e)) = Len(s) + 1
           /\ \A i \in 1 .. Len(s) : Append(s, e)[i] = s[i]
           /\ Append(s, e)[Len(s) + 1] = e
BY AppendProperties

\* Every quota lets at least one request through.
LEMMA RateLimitPositive ==
    ASSUME NEW rec \in TenantRecs PROVE RateLimit(rec) \in Nat \ {0}
BY GatewayAssumption DEF RateLimit

-----------------------------------------------------------------------------
(***************************************************************************)
(* The inductive invariant.                                                *)
(***************************************************************************)
AllClaims ==
    KeyRecs \union {None} \union
    {[tenant |-> in.cred.tenant, roles |-> in.cred.roles] :
        in \in {x \in Inputs : x.cred.kind = "jwt"}}

Before == {"authn", "unauthenticated"}

\* What a request carries: past authentication claims of some tenant, in front
\* of the bucket a quota of some record, and the number of its roles looked up,
\* which the authorization alone counts.
Carried(r) ==
    /\ pc[r] \notin Before =>
          claims[r] # None /\ claims[r].tenant \in Tenants /\ IsSequence(claims[r].roles)
    /\ pc[r] = "bucket" => \E rec \in TenantRecs : limit[r] = RateLimit(rec)
    /\ looked[r] > 0 =>
          pc[r] \in {"authz", "forbidden", "forwarded"} /\ looked[r] <= Len(claims[r].roles)

Shape ==
    /\ now \in 0 .. Horizon
    /\ tenants \in [Tenants -> TenantRecs \union {None}]
    /\ keys \in [Keys -> KeyRecs \union {None}]
    /\ roles \in [Tenants -> SUBSET CustomRoles]
    /\ changes \in 0 .. MaxChanges
    /\ pc \in [Requests -> {"authn", "tenant", "limiter", "bucket", "header", "authz"}
                             \union Answers]
    /\ limit \in [Requests -> Nat]
    /\ looked \in [Requests -> Nat]
    /\ input \in [Requests -> Inputs \union {None}]
    /\ claims \in [Requests -> AllClaims]
    /\ remaining \in [Requests -> Int \union {None}]
    /\ \A r \in Requests : Carried(r)

\* A tenant's ring is in the order of time and is the end of its admissions;
\* what the ring no longer holds has left the window.
Log(t) ==
    LET l == Len(ring[t])
        m == Len(admitted[t])
    IN  /\ \A i, k \in 1 .. l : i <= k => ring[t][i] <= ring[t][k]
        /\ l <= m
        /\ \A i \in 1 .. l : ring[t][i] = admitted[t][m - l + i].at
        /\ \A i \in 1 .. m : i <= m - l => admitted[t][i].at < now - Window

Rings ==
    /\ ring \in [Tenants -> Seq(0 .. now)]
    /\ admitted \in [Tenants -> Seq([at : Nat, limit : Nat])]
    /\ \A t \in Tenants :
          /\ Log(t)
          /\ ring[t] = <<>> \/ \E rec \in TenantRecs : Len(ring[t]) <= RateLimit(rec)

\* A request that is about to compute its header finds a timestamp, its own or
\* a later one; only then is the header set.
Headers ==
    \A r \in Requests :
        /\ pc[r] = "header" => ring[claims[r].tenant] # <<>>
        /\ remaining[r] # None =>
              pc[r] \in {"authz", "forbidden", "forwarded"} /\ remaining[r] < limit[r]

\* The history holds what is the case now, what a passed middleware saw, and
\* that each role looked up so far did not grant the permission.
Witnessed ==
    \A r \in Requests :
        /\ pc[r] \notin Answers => Facts(r) \subseteq since[r]
        /\ pc[r] \in {"limiter", "bucket", "header", "authz"} =>
              <<"tenant", "enabled">> \in since[r]
        /\ pc[r] = "authz" =>
              \A i \in 1 .. looked[r] : <<"withheld", claims[r].roles[i]>> \in since[r]

GatewayInv == Shape /\ Rings /\ QuotaKept /\ Headers /\ Witnessed /\ AnswerJustified

LEMMA ShapeTyped == Shape /\ Rings => TypeOK
<1> SUFFICES ASSUME Shape, Rings, NEW t \in Tenants
             PROVE  /\ ring[t] \in Seq(0 .. now)
                    /\ \A i \in 1 .. Len(ring[t]) : i > 1 => ring[t][i - 1] <= ring[t][i]
  BY DEF Shape, Rings, TypeOK, Carried
<1>1. ring[t] \in Seq(0 .. now) /\ Len(ring[t]) \in Nat
  BY DEF Rings
<1>2. ASSUME NEW i \in 1 .. Len(ring[t]), i > 1 PROVE ring[t][i - 1] <= ring[t][i]
  <2>1. i - 1 \in 1 .. Len(ring[t]) /\ i - 1 <= i
    BY <1>1, <1>2
  <2>2. QED
    BY <2>1 DEF Rings, Log
<1>3. QED
  BY <1>1, <1>2

-----------------------------------------------------------------------------
(***************************************************************************)
(* The bucket.                                                             *)
(***************************************************************************)
\* The stale timestamps of an ordered ring are a prefix of it.
LEMMA StalePrefix ==
    ASSUME NEW t \in Tenants, now \in Nat, ring[t] \in Seq(0 .. now), Log(t)
    PROVE  /\ Len(ring[t]) \in Nat
           /\ Cardinality(Stale(t)) \in 0 .. Len(ring[t])
           /\ Stale(t) = 1 .. Cardinality(Stale(t))
<1> DEFINE l == Len(ring[t])
           S == {k \in 0 .. l : k < l => ~ (ring[t][k + 1] < now - Window)}
<1>1. l \in Nat /\ \A i \in 1 .. l : ring[t][i] \in 0 .. now
  BY ElementOfSeq
<1>2. l \in S /\ S \subseteq Nat
  BY <1>1
<1>3. PICK m \in S : \A k \in S : m <= k
  <2> HIDE DEF S
  <2>1. QED
    BY <1>2, LeastIndex
<1>4. m \in 0 .. l
  BY <1>3
<1>5. ASSUME NEW i \in 1 .. m PROVE i \in Stale(t)
  <2>1. i - 1 \in 0 .. l /\ i - 1 < l /\ ~ (m <= i - 1) /\ (i - 1) + 1 = i /\ i \in 1 .. l
    BY <1>1, <1>4
  <2>2. i - 1 \notin S
    <3> HIDE DEF S
    <3>1. QED
      BY <1>3, <2>1
  <2>3. ring[t][i] < now - Window
    BY <2>1, <2>2
  <2>4. QED
    BY <2>1, <2>3 DEF Stale
<1>6. ASSUME NEW i \in Stale(t) PROVE i \in 1 .. m
  <2>1. i \in 1 .. l /\ ring[t][i] < now - Window
    BY DEF Stale
  <2>2. CASE i <= m
    BY <1>4, <2>1, <2>2
  <2>3. CASE ~ (i <= m)
    <3>1. m < l /\ m + 1 \in 1 .. l /\ m + 1 <= i
      BY <1>1, <1>4, <2>1, <2>3
    <3>2. ~ (ring[t][m + 1] < now - Window)
      BY <1>3, <3>1
    <3>3. ring[t][m + 1] <= ring[t][i]
      BY <2>1, <3>1 DEF Log
    <3>4. ring[t][m + 1] \in Nat /\ ring[t][i] \in Nat /\ now - Window \in Int
      BY <1>1, <2>1, <3>1, GatewayAssumption
    <3>5. QED
      BY <2>1, <3>2, <3>3, <3>4
  <2>4. QED
    BY <2>2, <2>3
<1>7. Stale(t) = 1 .. m
  BY <1>5, <1>6
<1>8. Cardinality(1 .. m) = m
  <2>1. 1 \in Int /\ m \in Int
    BY <1>1, <1>4
  <2>2. Cardinality(1 .. m) = IF 1 > m THEN 0 ELSE m - 1 + 1
    BY <2>1, FS_Interval
  <2>3. QED
    BY <1>1, <1>4, <2>2
<1>9. QED
  BY <1>1, <1>4, <1>7, <1>8

\* What the eviction keeps is the end of the tenant's admissions, recent, and
\* preceded by older ones only.
LEMMA KeptFacts ==
    ASSUME NEW t \in Tenants, Shape, Rings
    PROVE  LET kept == SubSeq(ring[t], Cardinality(Stale(t)) + 1, Len(ring[t]))
               c == Len(kept)
               m == Len(admitted[t])
           IN  /\ kept \in Seq(0 .. now) /\ c \in Nat /\ m \in Nat
               /\ c <= m /\ c <= Len(ring[t]) /\ Len(ring[t]) \in Nat
               /\ \A i \in 1 .. c : kept[i] = admitted[t][m - c + i].at
               /\ \A i \in 1 .. m : i <= m - c => admitted[t][i].at < now - Window
               /\ \A i \in 1 .. m : i > m - c => admitted[t][i].at >= now - Window
               /\ \A i, k \in 1 .. c : i <= k => kept[i] <= kept[k]
<1> DEFINE kept == SubSeq(ring[t], Cardinality(Stale(t)) + 1, Len(ring[t]))
           c == Len(kept)
           m == Len(admitted[t])
           l == Len(ring[t])
           s == Cardinality(Stale(t))
<1>1. now \in Nat /\ ring[t] \in Seq(0 .. now) /\ Log(t) /\ Window \in Nat
  BY GatewayAssumption DEF Shape, Rings
<1>2. l \in Nat /\ s \in 0 .. l /\ Stale(t) = 1 .. s
  BY <1>1, StalePrefix
<1>3. admitted[t] \in Seq([at : Nat, limit : Nat])
  BY DEF Rings
<1>4. m \in Nat /\ \A i \in 1 .. m : admitted[t][i].at \in Nat
  <2>1. m \in Nat
    BY <1>3
  <2>2. \A i \in 1 .. m : admitted[t][i] \in [at : Nat, limit : Nat]
    BY <1>3, ElementOfSeq
  <2>3. QED
    BY <2>1, <2>2
<1>5. \A i \in 1 .. l : ring[t][i] \in 0 .. now
  BY <1>1, ElementOfSeq
<1>6. /\ \A i, k \in 1 .. l : i <= k => ring[t][i] <= ring[t][k]
      /\ l <= m
      /\ \A i \in 1 .. l : ring[t][i] = admitted[t][m - l + i].at
      /\ \A i \in 1 .. m : i <= m - l => admitted[t][i].at < now - Window
  BY <1>1 DEF Log
<1>7. \A i \in 1 .. l : i <= s <=> ring[t][i] < now - Window
  BY <1>2 DEF Stale
<1>8. /\ kept = SubSeq(ring[t], s + 1, l)
  OBVIOUS
<1> HIDE DEF s, l, m
<1>9. /\ kept \in Seq(0 .. now) /\ c = l - s
      /\ \A i \in 1 .. l - s : kept[i] = ring[t][s + i]
  <2>1. s + 1 \in Int /\ l \in Int /\ \A i \in s + 1 .. l : ring[t][i] \in 0 .. now
    BY <1>2, <1>5
  <2>2. /\ SubSeq(ring[t], s + 1, l) \in Seq(0 .. now)
        /\ Len(SubSeq(ring[t], s + 1, l)) = IF s + 1 <= l THEN l - (s + 1) + 1 ELSE 0
        /\ \A i \in 1 .. l - (s + 1) + 1 :
              SubSeq(ring[t], s + 1, l)[i] = ring[t][(s + 1) + i - 1]
    BY <2>1, SubSeqProperties
  <2>3. l - (s + 1) + 1 = l - s /\ \A i \in Int : (s + 1) + i - 1 = s + i
    BY <1>2
  <2>4. (IF s + 1 <= l THEN l - (s + 1) + 1 ELSE 0) = l - s
    BY <1>2
  <2>5. kept \in Seq(0 .. now)
    BY <1>8, <2>2
  <2>6. Len(kept) = l - s
    <3> HIDE DEF kept
    <3>1. QED
      BY <1>8, <2>2, <2>4
  <2>7. ASSUME NEW i \in 1 .. l - s PROVE kept[i] = ring[t][s + i]
    <3> HIDE DEF kept
    <3>1. i \in Int /\ i \in 1 .. l - (s + 1) + 1
      BY <1>2, <2>3
    <3>2. (s + 1) + i - 1 = s + i
      BY <2>3, <3>1
    <3>3. kept[i] = ring[t][(s + 1) + i - 1]
      BY <1>8, <2>2, <3>1
    <3>4. QED
      BY <3>2, <3>3
  <2>8. QED
    BY <2>5, <2>6, <2>7
<1> HIDE DEF kept, c
<1>10. c \in Nat /\ c <= m /\ c <= l
  BY <1>2, <1>4, <1>6, <1>9
<1>11. ASSUME NEW i \in 1 .. c PROVE kept[i] = admitted[t][m - c + i].at
  <2>1. s + i \in 1 .. l /\ m - l + (s + i) = m - c + i
    BY <1>2, <1>4, <1>9
  <2>2. QED
    BY <1>6, <1>9, <2>1
<1>12. ASSUME NEW i \in 1 .. m, i <= m - c PROVE admitted[t][i].at < now - Window
  <2>1. CASE i <= m - l
    BY <1>6, <2>1
  <2>2. CASE ~ (i <= m - l)
    <3>1. /\ i - (m - l) \in 1 .. l /\ i - (m - l) <= s
          /\ m - l + (i - (m - l)) = i
      BY <1>2, <1>4, <1>6, <1>9, <1>12, <2>2
    <3>2. ring[t][i - (m - l)] < now - Window
      BY <1>7, <3>1
    <3>3. ring[t][i - (m - l)] = admitted[t][i].at
      BY <1>6, <3>1
    <3>4. QED
      BY <3>2, <3>3
  <2>3. QED
    BY <2>1, <2>2
<1>13. ASSUME NEW i \in 1 .. m, i > m - c PROVE admitted[t][i].at >= now - Window
  <2>1. /\ i - (m - l) \in 1 .. l /\ ~ (i - (m - l) <= s)
        /\ m - l + (i - (m - l)) = i
    BY <1>2, <1>4, <1>6, <1>9, <1>13
  <2>2. ~ (ring[t][i - (m - l)] < now - Window)
    BY <1>7, <2>1
  <2>3. ring[t][i - (m - l)] = admitted[t][i].at
    BY <1>6, <2>1
  <2>4. QED
    BY <1>1, <1>4, <2>2, <2>3
<1>14. ASSUME NEW i \in 1 .. c, NEW k \in 1 .. c, i <= k PROVE kept[i] <= kept[k]
  <2>1. s + i \in 1 .. l /\ s + k \in 1 .. l /\ s + i <= s + k
    BY <1>2, <1>9, <1>14
  <2>2. QED
    BY <1>6, <1>9, <2>1
<1>15. QED
  BY <1>2, <1>4, <1>9, <1>10, <1>11, <1>12, <1>13, <1>14 DEF kept, c, m, l, s

\* What a request does in the critical section of its tenant's bucket.
LEMMA BucketStep ==
    ASSUME NEW r \in Requests, Shape, allowed(r)
    PROVE  LET t == claims[r].tenant
               kept == SubSeq(ring[t], Cardinality(Stale(t)) + 1, Len(ring[t]))
           IN  /\ t \in Tenants /\ limit[r] \in Nat \ {0} /\ pc[r] = "bucket"
               /\ \E rec \in TenantRecs : limit[r] = RateLimit(rec)
               /\ now' = now /\ claims' = claims /\ limit' = limit /\ remaining' = remaining
               /\ \/ /\ Len(kept) >= limit[r]
                     /\ ring' = [ring EXCEPT ![t] = kept]
                     /\ admitted' = admitted
                     /\ pc' = [pc EXCEPT ![r] = "rateLimited"]
                  \/ /\ ~ (Len(kept) >= limit[r])
                     /\ ring' = [ring EXCEPT ![t] = Append(kept, now)]
                     /\ admitted' = [admitted EXCEPT
                                        ![t] = Append(@, [at |-> now, limit |-> limit[r]])]
                     /\ pc' = [pc EXCEPT ![r] = "header"]
<1>1. pc[r] = "bucket"
  BY DEF allowed
<1>2. claims[r].tenant \in Tenants /\ \E rec \in TenantRecs : limit[r] = RateLimit(rec)
  BY <1>1 DEF Shape, Carried, Before
<1>3. limit[r] \in Nat \ {0}
  BY <1>2, RateLimitPositive
<1>4. QED
  BY <1>1, <1>2, <1>3 DEF allowed, Go

-----------------------------------------------------------------------------
(***************************************************************************)
(* The way of a request through the chain.                                 *)
(***************************************************************************)
\* Looking a role's permissions up and matching them is being granted one.
LEMMA PermissionGranted ==
    ASSUME NEW t, NEW name, NEW p
    PROVE  (\E g \in RolePermissions(t, name) : matchPermission(g, p)) <=> Grants(t, name, p)
BY DEF Grants, RolePermissions, Permissions

\* Where a step may take a request, and what the middleware saw.
Goes(q) ==
    \/ pc'[q] = pc[q] /\ looked'[q] = looked[q]
    \/ pc[q] = "authn" /\ pc'[q] \in {"unauthenticated", "tenant"}
    \/ pc[q] = "tenant" /\ pc'[q] = "noTenant" /\ ~ Enabled(claims[q].tenant)
    \/ pc[q] = "tenant" /\ pc'[q] = "limiter" /\ Enabled(claims[q].tenant)
    \/ pc[q] = "limiter" /\ pc'[q] = "internal" /\ ~ Enabled(claims[q].tenant)
    \/ pc[q] = "limiter" /\ pc'[q] = "bucket"
    \/ pc[q] = "bucket" /\ pc'[q] \in {"rateLimited", "header"}
    \/ pc[q] = "header" /\ pc'[q] = "authz" /\ looked'[q] = looked[q]
    \/ pc[q] = "authz" /\ pc'[q] = "forwarded" /\ Permitted(q)
    \/ /\ pc[q] = "authz" /\ pc'[q] = "authz" /\ looked'[q] = looked[q] + 1
       /\ looked[q] < Len(claims[q].roles)
       /\ Withheld(q, claims[q].roles[looked[q] + 1])
    \/ /\ pc[q] = "authz" /\ pc'[q] = "forbidden" /\ looked[q] = Len(claims[q].roles)
       /\ requiredPermission(input[q]) # None

Move(q) ==
    /\ Goes(q)
    /\ pc[q] # "authn" => input'[q] = input[q] /\ claims'[q] = claims[q]

LEMMA Moves ==
    ASSUME Shape, Next, NEW q \in Requests PROVE Move(q)
<1>1. /\ pc \in [Requests -> {"authn", "tenant", "limiter", "bucket", "header", "authz"}
                                \union Answers]
      /\ looked \in [Requests -> Nat]
      /\ input \in [Requests -> Inputs \union {None}] /\ claims \in [Requests -> AllClaims]
  BY DEF Shape
<1>2. ASSUME NEW r \in Requests, NEW x, pc' = [pc EXCEPT ![r] = x]
      PROVE  pc'[r] = x /\ (q # r => pc'[q] = pc[q])
  BY <1>1, <1>2
<1>3. ASSUME NEW r \in Requests, NEW in \in Inputs, AuthN(r, in) PROVE Move(q)
  <2>1. /\ pc[r] = "authn" /\ looked' = looked
        /\ pc' = [pc EXCEPT ![r] = IF claims'[r] = None THEN "unauthenticated" ELSE "tenant"]
        /\ q # r => input'[q] = input[q] /\ claims'[q] = claims[q]
    BY <1>1, <1>3 DEF AuthN, Go
  <2>2. QED
    BY <1>2, <2>1 DEF Move, Goes
<1>4. ASSUME NEW r \in Requests, ResolveTenant(r) PROVE Move(q)
  <2>1. Get(claims[r].tenant) = None <=> ~ Enabled(claims[r].tenant)
    BY DEF Get, Enabled
  <2>2. QED
    BY <1>2, <1>4, <2>1 DEF ResolveTenant, Go, Move, Goes
<1>5. ASSUME NEW r \in Requests, ReadQuota(r) PROVE Move(q)
  <2>1. Get(claims[r].tenant) = None <=> ~ Enabled(claims[r].tenant)
    BY DEF Get, Enabled
  <2>2. QED
    BY <1>2, <1>5, <2>1 DEF ReadQuota, Go, Move, Goes
<1>6. ASSUME NEW r \in Requests, allowed(r) PROVE Move(q)
  <2>1. /\ pc[r] = "bucket" /\ UNCHANGED <<input, claims, looked>>
        /\ \/ pc' = [pc EXCEPT ![r] = "rateLimited"]
           \/ pc' = [pc EXCEPT ![r] = "header"]
    BY <1>6 DEF allowed, Go
  <2>2. QED
    BY <1>2, <2>1 DEF Move, Goes
<1>7. ASSUME NEW r \in Requests, SetHeader(r) PROVE Move(q)
  BY <1>2, <1>7 DEF SetHeader, Go, Move, Goes
<1>8. ASSUME NEW r \in Requests, OpenRoute(r) PROVE Move(q)
  BY <1>2, <1>8 DEF OpenRoute, Go, Move, Goes, Permitted
<1>9. ASSUME NEW r \in Requests, LookUpRole(r) PROVE Move(q)
  <2> DEFINE required == requiredPermission(input[r])
             i == looked[r] + 1
             name == claims[r].roles[i]
             granted == \E g \in RolePermissions(claims[r].tenant, name) :
                            matchPermission(g, required)
  <2>1. /\ pc[r] = "authz" /\ required # None /\ looked[r] < Len(claims[r].roles)
        /\ looked' = [looked EXCEPT ![r] = looked[r] + 1]
        /\ granted => pc' = [pc EXCEPT ![r] = "forwarded"]
        /\ ~ granted => pc' = pc
        /\ input' = input /\ claims' = claims
    BY <1>9 DEF LookUpRole, Go
  <2>2. Withheld(r, name) <=> ~ granted
    BY <2>1, PermissionGranted DEF Withheld
  <2>3. name \in RolesOf(r)
    <3>1. IsSequence(claims[r].roles) /\ looked[r] \in Nat
      BY <2>1 DEF Shape, Carried, Before
    <3>2. i \in DOMAIN claims[r].roles
      BY <2>1, <3>1 DEF IsSequence
    <3>3. QED
      BY <3>2 DEF RolesOf
  <2> HIDE DEF granted
  <2>4. CASE q # r
    <3>1. pc'[q] = pc[q] /\ looked'[q] = looked[q]
      BY <1>1, <2>1, <2>4
    <3>2. QED
      BY <2>1, <3>1 DEF Move, Goes
  <2>5. CASE q = r /\ granted
    <3>1. Permitted(q) /\ pc'[q] = "forwarded"
      BY <1>1, <2>1, <2>2, <2>3, <2>5 DEF Permitted
    <3>2. QED
      BY <2>1, <2>5, <3>1 DEF Move, Goes
  <2>6. CASE q = r /\ ~ granted
    <3>1. Withheld(q, name) /\ pc'[q] = "authz" /\ looked'[q] = looked[q] + 1
      BY <1>1, <2>1, <2>2, <2>6
    <3>2. QED
      BY <2>1, <2>6, <3>1 DEF Move, Goes
  <2>7. QED
    BY <2>4, <2>5, <2>6
<1>10. ASSUME NEW r \in Requests, Forbid(r) PROVE Move(q)
  BY <1>2, <1>10 DEF Forbid, Go, Move, Goes
<1>11. ASSUME Change \/ Tick PROVE Move(q)
  BY <1>11 DEF Change, Tick, request, Move, Goes
<1>12. QED
  BY <1>3, <1>4, <1>5, <1>6, <1>7, <1>8, <1>9, <1>10, <1>11
  DEF Next, Serve, Upsert, Register, AddRole

-----------------------------------------------------------------------------
(***************************************************************************)
(* Shape.                                                                  *)
(***************************************************************************)
LEMMA ShapeInit == Init => Shape
BY GatewayAssumption DEF Init, Shape, Carried, AllClaims, Before

\* Claims name a tenant ID, whichever credential they come from.
LEMMA Authenticated ==
    ASSUME Shape, NEW in \in Inputs
    PROVE  /\ authenticate(in.cred) \in AllClaims
           /\ authenticate(in.cred) # None =>
                 /\ authenticate(in.cred).tenant \in Tenants
                 /\ IsSequence(authenticate(in.cred).roles)
<1>1. CASE in.cred.kind = "jwt" /\ Verify(in.cred)
  <2>1. authenticate(in.cred) = [tenant |-> in.cred.tenant, roles |-> in.cred.roles]
    BY <1>1 DEF authenticate
  <2>2. in.cred.tenant \in Tenants /\ IsSequence(in.cred.roles)
    BY <1>1, GatewayAssumption DEF Verify
  <2>3. QED
    BY <1>1, <2>1, <2>2 DEF AllClaims
<1>2. CASE ~ (in.cred.kind = "jwt" /\ Verify(in.cred)) /\ in.cred.kind = "key"
  <2>1. authenticate(in.cred) = keys[in.cred.key]
    BY <1>2 DEF authenticate
  <2>2. keys[in.cred.key] \in KeyRecs \union {None}
    BY <1>2, GatewayAssumption DEF Shape
  <2>3. QED
    BY <2>1, <2>2, GatewayAssumption DEF AllClaims
<1>3. CASE ~ (in.cred.kind = "jwt" /\ Verify(in.cred)) /\ in.cred.kind # "key"
  BY <1>3 DEF authenticate, AllClaims
<1>4. QED
  BY <1>1, <1>2, <1>3

LEMMA ShapeStep == Shape /\ Rings /\ [Next]_vars => Shape'
<1> SUFFICES ASSUME Shape, Rings, [Next]_vars PROVE Shape'
  OBVIOUS
<1> USE DEF Shape, Carried
<1>1. \A q \in Requests : Carried(q)
  OBVIOUS
<1>2. ASSUME NEW r \in Requests, NEW in \in Inputs, AuthN(r, in) PROVE Shape'
  <2>1. authenticate(in.cred) \in AllClaims
    BY Authenticated
  <2>2. authenticate(in.cred) # None =>
          /\ authenticate(in.cred).tenant \in Tenants
          /\ IsSequence(authenticate(in.cred).roles)
    BY Authenticated
  <2>3. claims' = [claims EXCEPT ![r] = authenticate(in.cred)]
    BY <1>2 DEF AuthN
  <2>4. claims' \in [Requests -> AllClaims] /\ claims'[r] = authenticate(in.cred)
    BY <2>1, <2>3
  <2>5. pc' = [pc EXCEPT ![r] = IF claims'[r] = None THEN "unauthenticated" ELSE "tenant"]
    BY <1>2 DEF AuthN, Go
  <2>6. ASSUME NEW q \in Requests PROVE Carried(q)'
    <3>1. CASE q = r
      <4>1. looked' = looked /\ ~ (looked[r] > 0)
        BY <1>1, <1>2 DEF AuthN
      <4>2. QED
        BY <2>2, <2>4, <2>5, <3>1, <4>1 DEF Before
    <3>2. CASE q # r
      <4>1. pc'[q] = pc[q] /\ claims'[q] = claims[q] /\ limit' = limit /\ looked' = looked
        BY <1>2, <2>3, <2>5, <3>2 DEF AuthN
      <4>2. QED
        BY <1>1, <4>1
    <3>3. QED
      BY <3>1, <3>2
  <2>7. pc' \in [Requests -> {"authn", "tenant", "limiter", "bucket", "header", "authz"}
                              \union Answers]
    BY <2>5 DEF Answers
  <2>8. QED
    BY <1>2, <2>4, <2>6, <2>7 DEF AuthN, stores
<1>3. ASSUME NEW r \in Requests, ResolveTenant(r) PROVE Shape'
  BY <1>3 DEF ResolveTenant, Go, stores, Before, Answers
<1>4. ASSUME NEW r \in Requests, ReadQuota(r) PROVE Shape'
  <2> DEFINE rec == Get(claims[r].tenant)
  <2>1. pc[r] = "limiter" /\ claims[r] # None /\ claims[r].tenant \in Tenants
    BY <1>4 DEF ReadQuota, Before
  <2>2. rec \in TenantRecs \union {None}
    BY <2>1 DEF Get
  <2>3. rec # None => rec \in TenantRecs /\ RateLimit(rec) \in Nat
    BY <2>2, RateLimitPositive
  <2>4. /\ limit' = [limit EXCEPT ![r] = IF rec = None THEN 0 ELSE RateLimit(rec)]
        /\ pc' = [pc EXCEPT ![r] = IF rec = None THEN "internal" ELSE "bucket"]
        /\ UNCHANGED <<now, tenants, keys, roles, changes, input, claims, remaining, looked>>
    BY <1>4 DEF ReadQuota, Go, stores
  <2> HIDE DEF rec
  <2>5. limit' \in [Requests -> Nat]
    BY <2>3, <2>4
  <2>6. ASSUME NEW q \in Requests PROVE Carried(q)'
    BY <1>1, <2>1, <2>3, <2>4 DEF Before
  <2>7. pc' \in [Requests -> {"authn", "tenant", "limiter", "bucket", "header", "authz"}
                              \union Answers]
    BY <2>4 DEF Answers
  <2>8. QED
    BY <2>4, <2>5, <2>6, <2>7
<1>5. ASSUME NEW r \in Requests, allowed(r) PROVE Shape'
  <2>1. /\ pc[r] = "bucket"
        /\ \/ pc' = [pc EXCEPT ![r] = "rateLimited"]
           \/ pc' = [pc EXCEPT ![r] = "header"]
        /\ UNCHANGED <<now, tenants, keys, roles, changes, input, claims, limit, remaining,
                        looked>>
    BY <1>5 DEF allowed, Go, stores
  <2>2. QED
    BY <2>1 DEF Before, Answers
<1>6. ASSUME NEW r \in Requests, SetHeader(r) PROVE Shape'
  <2>1. limit[r] - Len(ring[claims[r].tenant]) \in Int
    BY <1>6 DEF SetHeader, Before, Rings
  <2>2. QED
    BY <1>6, <2>1 DEF SetHeader, Go, stores, Before, Answers
<1>7. ASSUME NEW r \in Requests, OpenRoute(r) \/ Forbid(r) PROVE Shape'
  <2>1. /\ pc[r] = "authz"
        /\ \/ pc' = [pc EXCEPT ![r] = "forwarded"]
           \/ pc' = [pc EXCEPT ![r] = "forbidden"]
        /\ UNCHANGED <<now, tenants, keys, roles, changes, input, claims, limit, remaining,
                        looked>>
    BY <1>7 DEF OpenRoute, Forbid, Go, stores
  <2>2. QED
    BY <2>1 DEF Before, Answers
<1>8. ASSUME NEW r \in Requests, LookUpRole(r) PROVE Shape'
  <2>1. /\ pc[r] = "authz" /\ looked[r] < Len(claims[r].roles)
        /\ looked' = [looked EXCEPT ![r] = looked[r] + 1]
        /\ pc' = pc \/ pc' = [pc EXCEPT ![r] = "forwarded"]
        /\ UNCHANGED <<now, tenants, keys, roles, changes, input, claims, limit, remaining>>
    BY <1>8 DEF LookUpRole, Go, stores
  <2>2. Len(claims[r].roles) \in Nat
    BY <1>1, <2>1 DEF Before, IsSequence
  <2>3. looked' \in [Requests -> Nat] /\ looked'[r] <= Len(claims[r].roles)
    BY <2>1, <2>2
  <2>4. ASSUME NEW q \in Requests PROVE Carried(q)'
    <3>1. CASE q = r
      BY <1>1, <2>1, <2>3, <3>1 DEF Before
    <3>2. CASE q # r
      <4>1. pc'[q] = pc[q] /\ looked'[q] = looked[q] /\ UNCHANGED <<claims, limit>>
        BY <2>1, <3>2
      <4>2. QED
        BY <1>1, <4>1
    <3>3. QED
      BY <3>1, <3>2
  <2>5. pc' \in [Requests -> {"authn", "tenant", "limiter", "bucket", "header", "authz"}
                              \union Answers]
    BY <2>1 DEF Answers
  <2>6. QED
    BY <2>1, <2>3, <2>4, <2>5
<1>9. ASSUME Change PROVE changes' \in 0 .. MaxChanges
  <2>1. changes \in Nat /\ MaxChanges \in Nat
    BY GatewayAssumption
  <2>2. QED
    BY <1>9, <2>1 DEF Change
<1>10. ASSUME NEW t \in Tenants, NEW rec \in TenantRecs, Upsert(t, rec) PROVE Shape'
  BY <1>9, <1>10 DEF Upsert, Change, request
<1>11. ASSUME NEW k \in Keys, NEW rec \in KeyRecs, Register(k, rec) PROVE Shape'
  BY <1>9, <1>11 DEF Register, Change, request
<1>12. ASSUME NEW t \in Tenants, NEW role \in CustomRoles, AddRole(t, role) PROVE Shape'
  BY <1>9, <1>12 DEF AddRole, Change, request
<1>13. ASSUME Tick PROVE Shape'
  <2>1. now' \in 0 .. Horizon
    BY <1>13, GatewayAssumption DEF Tick
  <2>2. QED
    BY <1>13, <2>1 DEF Tick, request, stores
<1>14. ASSUME UNCHANGED vars PROVE Shape'
  BY <1>14 DEF vars, request, stores
<1>15. QED
  BY <1>2, <1>3, <1>4, <1>5, <1>6, <1>7, <1>8, <1>10, <1>11, <1>12, <1>13, <1>14
  DEF Next, Serve

-----------------------------------------------------------------------------
(***************************************************************************)
(* The rings and the quotas.                                               *)
(***************************************************************************)
\* Only the critical section of a bucket touches the rings and the history
\* of admissions; the clock never goes back.
LEMMA OutsideBucket ==
    ASSUME Next, \A r \in Requests : ~ allowed(r)
    PROVE  ring' = ring /\ admitted' = admitted /\ (now' = now \/ now' = now + 1)
BY DEF Next, Serve, AuthN, ResolveTenant, ReadQuota, SetHeader, OpenRoute, LookUpRole,
       Forbid, Upsert, Register, AddRole, Change, Tick

LEMMA LogLater ==
    ASSUME NEW t \in Tenants, Shape, Rings, now' \in {now, now + 1},
           ring'[t] = ring[t], admitted'[t] = admitted[t]
    PROVE  /\ Log(t)' /\ ring'[t] \in Seq(0 .. now')
           /\ ring'[t] = <<>> \/ \E rec \in TenantRecs : Len(ring'[t]) <= RateLimit(rec)
<1>1. now \in Nat /\ now' \in Nat /\ now <= now' /\ Window \in Nat
  BY GatewayAssumption DEF Shape
<1>2. 0 .. now \subseteq 0 .. now'
  BY <1>1
<1>3. ring'[t] \in Seq(0 .. now')
  BY <1>2, SeqMonotonic DEF Rings
<1>4. admitted[t] \in Seq([at : Nat, limit : Nat]) /\ Len(admitted[t]) \in Nat
  BY DEF Rings
<1>5. ASSUME NEW i \in 1 .. Len(admitted[t]), admitted[t][i].at < now - Window
      PROVE  admitted[t][i].at < now' - Window
  <2>1. admitted[t][i] \in [at : Nat, limit : Nat]
    BY <1>4, ElementOfSeq
  <2>2. admitted[t][i].at \in Nat
    BY <2>1
  <2>3. QED
    BY <1>1, <1>5, <2>2
<1>6. Log(t)'
  BY <1>5 DEF Log, Rings
<1>7. QED
  BY <1>3, <1>6 DEF Rings

LEMMA RingsInit == Init => Rings
<1> SUFFICES ASSUME Init, NEW t \in Tenants PROVE Log(t)
  <2>1. <<>> \in Seq(0 .. now) /\ <<>> \in Seq([at : Nat, limit : Nat])
    OBVIOUS
  <2>2. QED
    BY <2>1 DEF Init, Rings
<1>1. ring[t] = <<>> /\ admitted[t] = <<>>
  BY DEF Init
<1>2. QED
  BY <1>1 DEF Log

LEMMA RingsStep == Shape /\ Rings /\ [Next]_vars => Rings'
<1> SUFFICES ASSUME Shape, Rings, [Next]_vars PROVE Rings'
  OBVIOUS
<1>1. CASE UNCHANGED vars
  BY <1>1 DEF vars, Rings, Log
<1>2. CASE Next /\ \A r \in Requests : ~ allowed(r)
  <2>1. ring' = ring /\ admitted' = admitted /\ now' \in {now, now + 1}
    BY <1>2, OutsideBucket
  <2>2. \A t \in Tenants :
          /\ Log(t)' /\ ring'[t] \in Seq(0 .. now')
          /\ ring'[t] = <<>> \/ \E rec \in TenantRecs : Len(ring'[t]) <= RateLimit(rec)
    BY <2>1, LogLater
  <2>3. QED
    BY <2>1, <2>2 DEF Rings
<1>3. ASSUME NEW r \in Requests, allowed(r) PROVE Rings'
  <2>0. PICK t \in Tenants : t = claims[r].tenant
    BY <1>3, BucketStep
  <2> DEFINE kept == SubSeq(ring[t], Cardinality(Stale(t)) + 1, Len(ring[t]))
             c == Len(kept)
             m == Len(admitted[t])
             new == [at |-> now, limit |-> limit[r]]
  <2>1. /\ limit[r] \in Nat \ {0} /\ now' = now
        /\ \E rec \in TenantRecs : limit[r] = RateLimit(rec)
    BY <1>3, BucketStep
  <2>2. \/ c >= limit[r] /\ ring' = [ring EXCEPT ![t] = kept] /\ admitted' = admitted
        \/ /\ ~ (c >= limit[r]) /\ ring' = [ring EXCEPT ![t] = Append(kept, now)]
           /\ admitted' = [admitted EXCEPT ![t] = Append(admitted[t], new)]
    BY <1>3, <2>0, BucketStep DEF Rings
  <2>3. /\ kept \in Seq(0 .. now) /\ c \in Nat /\ m \in Nat
        /\ c <= m /\ c <= Len(ring[t]) /\ Len(ring[t]) \in Nat
    BY <2>1, KeptFacts
  <2>4. /\ \A i \in 1 .. c : kept[i] = admitted[t][m - c + i].at
        /\ \A i \in 1 .. m : i <= m - c => admitted[t][i].at < now - Window
        /\ \A i, k \in 1 .. c : i <= k => kept[i] <= kept[k]
    BY <2>1, KeptFacts
  <2>5. now \in Nat /\ Window \in Nat /\ now \in 0 .. now
    BY GatewayAssumption DEF Shape
  <2>6. new \in [at : Nat, limit : Nat] /\ new.at = now
    BY <2>1, <2>5
  <2>7. admitted[t] \in Seq([at : Nat, limit : Nat])
    BY <2>1 DEF Rings
  <2>8. ring \in [Tenants -> Seq(0 .. now)]
        /\ admitted \in [Tenants -> Seq([at : Nat, limit : Nat])]
    BY DEF Rings
  <2> HIDE DEF kept, c, m, new
  <2>9. ASSUME NEW u \in Tenants, u # t
        PROVE  /\ Log(u)'
               /\ ring'[u] = <<>> \/ \E rec \in TenantRecs : Len(ring'[u]) <= RateLimit(rec)
    <3>1. ring'[u] = ring[u] /\ admitted'[u] = admitted[u] /\ now' \in {now, now + 1}
      BY <2>1, <2>2, <2>8, <2>9
    <3>2. QED
      BY <3>1, LogLater
  <2>10. CASE c >= limit[r] /\ ring' = [ring EXCEPT ![t] = kept] /\ admitted' = admitted
    <3>1. ring'[t] = kept /\ admitted'[t] = admitted[t] /\ Len(kept) = c
          /\ Len(admitted[t]) = m
      BY <2>1, <2>8, <2>10 DEF c, m
    <3>2. Log(t)'
      BY <2>1, <2>3, <2>4, <3>1 DEF Log
    <3>3. kept = <<>> \/ \E rec \in TenantRecs : Len(kept) <= RateLimit(rec)
      <4>1. CASE ring[t] = <<>>
        <5>1. c = 0
          BY <2>3, <4>1
        <5>2. QED
          BY <2>1, <2>3, <2>10, <5>1
      <4>2. CASE \E rec \in TenantRecs : Len(ring[t]) <= RateLimit(rec)
        <5>1. PICK rec \in TenantRecs : Len(ring[t]) <= RateLimit(rec)
          BY <4>2
        <5>2. RateLimit(rec) \in Nat
          BY RateLimitPositive
        <5>3. QED
          BY <2>3, <3>1, <5>1, <5>2
      <4>3. QED
        BY <2>1, <4>1, <4>2 DEF Rings
    <3>4. QED
      BY <2>1, <2>3, <2>8, <2>9, <2>10, <3>1, <3>2, <3>3 DEF Rings
  <2>11. CASE /\ ~ (c >= limit[r]) /\ ring' = [ring EXCEPT ![t] = Append(kept, now)]
              /\ admitted' = [admitted EXCEPT ![t] = Append(admitted[t], new)]
    <3>1. /\ ring'[t] = Append(kept, now) /\ admitted'[t] = Append(admitted[t], new)
          /\ Len(kept) = c /\ Len(admitted[t]) = m
      BY <2>1, <2>8, <2>11 DEF c, m
    <3>2. /\ Append(kept, now) \in Seq(0 .. now) /\ Len(Append(kept, now)) = c + 1
          /\ \A i \in 1 .. c : Append(kept, now)[i] = kept[i]
          /\ Append(kept, now)[c + 1] = now
      <4>1. kept \in Seq(0 .. now) /\ now \in 0 .. now
        BY <2>3, <2>5
      <4>2. /\ Append(kept, now) \in Seq(0 .. now)
            /\ Len(Append(kept, now)) = Len(kept) + 1
            /\ \A i \in 1 .. Len(kept) : Append(kept, now)[i] = kept[i]
            /\ Append(kept, now)[Len(kept) + 1] = now
        BY <4>1, Appended
      <4>3. QED
        BY <3>1, <4>2
    <3>3. /\ Append(admitted[t], new) \in Seq([at : Nat, limit : Nat])
          /\ Len(Append(admitted[t], new)) = m + 1
          /\ \A i \in 1 .. m : Append(admitted[t], new)[i] = admitted[t][i]
          /\ Append(admitted[t], new)[m + 1] = new
      BY <2>6, <2>7, <3>1, Appended
    <3>4. \A i \in 1 .. c : kept[i] \in 0 .. now
      BY <2>3, <3>1, ElementOfSeq
    <3> DEFINE ra == ring'[t]
               aa == admitted'[t]
    <3>5. ra \in Seq(0 .. now) /\ Len(ra) = c + 1 /\ Len(aa) = m + 1
      BY <3>1, <3>2, <3>3
    <3>6. (\A i \in 1 .. c : ra[i] = kept[i]) /\ ra[c + 1] = now
      BY <3>1, <3>2
    <3>7. (\A i \in 1 .. m : aa[i] = admitted[t][i]) /\ aa[m + 1] = new
      BY <3>1, <3>3
    <3> HIDE DEF ra, aa
    <3>8. ASSUME NEW i \in 1 .. c + 1, NEW k \in 1 .. c + 1, i <= k PROVE ra[i] <= ra[k]
      <4>1. CASE k = c + 1
        <5>1. ra[i] \in 0 .. now
          <6>1. i \in 1 .. c \/ i = c + 1
            BY <2>3
          <6>2. QED
            BY <2>5, <3>4, <3>6, <6>1
        <5>2. QED
          BY <2>5, <3>6, <4>1, <5>1
      <4>2. CASE k # c + 1
        <5>1. i \in 1 .. c /\ k \in 1 .. c
          BY <2>3, <3>8, <4>2
        <5>2. QED
          BY <2>4, <3>6, <3>8, <5>1
      <4>3. QED
        BY <4>1, <4>2
    <3>9. ASSUME NEW i \in 1 .. c + 1 PROVE ra[i] = aa[(m + 1) - (c + 1) + i].at
      <4>1. CASE i = c + 1
        <5>1. (m + 1) - (c + 1) + i = m + 1
          BY <2>3, <4>1
        <5>2. QED
          BY <2>6, <3>6, <3>7, <4>1, <5>1
      <4>2. CASE i # c + 1
        <5>1. i \in 1 .. c /\ (m + 1) - (c + 1) + i = m - c + i /\ m - c + i \in 1 .. m
          BY <2>3, <4>2
        <5>2. QED
          BY <2>4, <3>6, <3>7, <5>1
      <4>3. QED
        BY <4>1, <4>2
    <3>10. ASSUME NEW i \in 1 .. m + 1, i <= (m + 1) - (c + 1)
           PROVE  aa[i].at < now - Window
      <4>1. i \in 1 .. m /\ i <= m - c
        BY <2>3, <3>10
      <4>2. QED
        BY <2>4, <3>7, <4>1
    <3>11. c + 1 <= m + 1
      BY <2>3
    <3>12. Log(t)'
      BY <2>1, <3>5, <3>8, <3>9, <3>10, <3>11 DEF Log, ra, aa
    <3>13. c + 1 <= limit[r]
      BY <2>1, <2>3, <2>11
    <3>14. \E rec \in TenantRecs : Len(ra) <= RateLimit(rec)
      BY <2>1, <3>5, <3>13
    <3>15. ring' \in [Tenants -> Seq(0 .. now)]
           /\ admitted' \in [Tenants -> Seq([at : Nat, limit : Nat])]
      BY <2>1, <2>8, <2>11, <3>2, <3>3
    <3>16. QED
      BY <2>1, <2>9, <3>12, <3>14, <3>15 DEF Rings, ra
  <2>12. QED
    BY <2>2, <2>10, <2>11
<1>4. QED
  BY <1>1, <1>2, <1>3

\* The admissions of a tenant in the window that ends with the i-th.
Recent(t, i) == {k \in DOMAIN admitted[t] : Within(t, i, k)}

LEMMA QuotaKeptStep == Shape /\ Rings /\ QuotaKept /\ [Next]_vars => QuotaKept'
<1> SUFFICES ASSUME Shape, Rings, QuotaKept, [Next]_vars PROVE QuotaKept'
  OBVIOUS
<1>1. ASSUME admitted' = admitted PROVE QuotaKept'
  BY <1>1 DEF QuotaKept, Within
<1>2. ASSUME NEW r \in Requests, allowed(r), admitted' # admitted PROVE QuotaKept'
  <2>0. PICK t \in Tenants : t = claims[r].tenant
    BY <1>2, BucketStep
  <2>1. PICK m \in Nat : m = Len(admitted[t])
    BY DEF Rings
  <2> DEFINE kept == SubSeq(ring[t], Cardinality(Stale(t)) + 1, Len(ring[t]))
             c == Len(kept)
             new == [at |-> now, limit |-> limit[r]]
  <2>2. /\ limit[r] \in Nat \ {0} /\ ~ (c >= limit[r])
        /\ admitted' = [admitted EXCEPT ![t] = Append(admitted[t], new)]
    BY <1>2, <2>0, BucketStep DEF Rings
  <2>3. c \in Nat /\ m \in Nat /\ c <= m
    BY <2>1, KeptFacts
  <2>4. \A i \in 1 .. m : i <= m - c => admitted[t][i].at < now - Window
    BY <2>1, KeptFacts
  <2>5. now \in Nat /\ Window \in Nat
    BY GatewayAssumption DEF Shape
  <2>6. new \in [at : Nat, limit : Nat] /\ new.at = now /\ new.limit = limit[r]
    BY <2>2, <2>5
  <2>7. admitted \in [Tenants -> Seq([at : Nat, limit : Nat])]
    BY DEF Rings
  <2> HIDE DEF kept, c, new
  <2>8. /\ Append(admitted[t], new) \in Seq([at : Nat, limit : Nat])
        /\ Len(Append(admitted[t], new)) = m + 1
        /\ \A i \in 1 .. m : Append(admitted[t], new)[i] = admitted[t][i]
        /\ Append(admitted[t], new)[m + 1] = new
    BY <2>1, <2>6, <2>7, Appended
  <2>9. DOMAIN admitted[t] = 1 .. m
    BY <2>1, <2>7
  <2> DEFINE aa == admitted'[t]
  <2>10. /\ aa \in Seq([at : Nat, limit : Nat]) /\ Len(aa) = m + 1
         /\ \A i \in 1 .. m : aa[i] = admitted[t][i]
         /\ aa[m + 1] = new
    BY <2>2, <2>7, <2>8
  <2>11. DOMAIN aa = 1 .. m + 1
    BY <2>10
  <2>12. ASSUME NEW i \in 1 .. m PROVE Cardinality(Recent(t, i)') <= aa[i].limit
    <3>1. ASSUME NEW k PROVE k \in Recent(t, i)' <=> k \in Recent(t, i)
      <4>1. k \in 1 .. m + 1 /\ k <= i <=> k \in 1 .. m /\ k <= i
        BY <2>3
      <4>2. k \in 1 .. m => aa[k] = admitted[t][k]
        BY <2>10
      <4>3. aa[i] = admitted[t][i]
        BY <2>10
      <4>4. k \in Recent(t, i)' <=>
              k \in 1 .. m + 1 /\ k <= i /\ aa[i].at - Window <= aa[k].at
        BY <2>11 DEF Recent, Within
      <4>5. k \in Recent(t, i) <=>
              k \in 1 .. m /\ k <= i /\ admitted[t][i].at - Window <= admitted[t][k].at
        BY <2>9 DEF Recent, Within
      <4> HIDE DEF aa
      <4>6. QED
        BY <4>1, <4>2, <4>3, <4>4, <4>5
    <3>2. Recent(t, i)' = Recent(t, i)
      BY <3>1
    <3>3. Cardinality(Recent(t, i)) <= admitted[t][i].limit
      BY <2>9 DEF QuotaKept, Recent
    <3>4. QED
      BY <2>10, <3>2, <3>3
  <2>13. Cardinality(Recent(t, m + 1)') <= aa[m + 1].limit
    <3>1. ASSUME NEW k \in Recent(t, m + 1)' PROVE k \in (m + 1) - (c + 1) + 1 .. m + 1
      <4>1. k \in 1 .. m + 1 /\ aa[m + 1].at - Window <= aa[k].at
        BY <2>11 DEF Recent, Within
      <4>2. aa[m + 1].at = now
        BY <2>6, <2>10
      <4> HIDE DEF aa
      <4>3. CASE k \in 1 .. m /\ k <= m - c
        <5>1. aa[k] \in [at : Nat, limit : Nat]
          BY <2>10, <4>1, ElementOfSeq
        <5>2. aa[k].at \in Nat
          BY <5>1
        <5>3. aa[k].at < now - Window
          BY <2>4, <2>10, <4>3
        <5>4. QED
          BY <2>5, <4>1, <4>2, <5>2, <5>3
      <4>4. CASE ~ (k \in 1 .. m /\ k <= m - c)
        BY <2>3, <4>1, <4>4
      <4>5. QED
        BY <4>3, <4>4
    <3>2. /\ IsFiniteSet((m + 1) - (c + 1) + 1 .. m + 1)
          /\ Cardinality((m + 1) - (c + 1) + 1 .. m + 1) = c + 1
      <4>1. m + 1 \in Nat /\ c + 1 \in Nat /\ c + 1 <= m + 1
        BY <2>3
      <4>2. QED
        BY <4>1, IntervalSize
    <3>3. Recent(t, m + 1)' \subseteq (m + 1) - (c + 1) + 1 .. m + 1
      BY <3>1
    <3>4. /\ IsFiniteSet(Recent(t, m + 1)')
          /\ Cardinality(Recent(t, m + 1)')
                <= Cardinality((m + 1) - (c + 1) + 1 .. m + 1)
      BY <3>2, <3>3, FS_Subset
    <3>5. Cardinality(Recent(t, m + 1)') \in Nat
      BY <3>4, FS_CardinalityType
    <3>6. Cardinality(Recent(t, m + 1)') <= c + 1
      BY <3>2, <3>4
    <3>7. aa[m + 1].limit = limit[r]
      BY <2>6, <2>10
    <3>8. c + 1 <= limit[r]
      BY <2>2, <2>3
    <3> HIDE DEF aa
    <3>9. QED
      BY <2>2, <2>3, <3>5, <3>6, <3>7, <3>8
  <2>14. ASSUME NEW u \in Tenants, NEW i \in DOMAIN admitted'[u]
         PROVE  Cardinality(Recent(u, i)') <= admitted'[u][i].limit
    <3>1. CASE u = t
      <4>1. i \in 1 .. m \/ i = m + 1
        BY <2>3, <2>11, <3>1
      <4>2. QED
        BY <2>12, <2>13, <3>1, <4>1
    <3>2. CASE u # t
      <4>1. admitted'[u] = admitted[u]
        BY <2>2, <2>7, <3>2
      <4>2. Recent(u, i)' = Recent(u, i)
        BY <4>1 DEF Recent, Within
      <4>3. Cardinality(Recent(u, i)) <= admitted[u][i].limit
        BY <4>1 DEF QuotaKept, Recent
      <4>4. QED
        BY <4>1, <4>2, <4>3
    <3>3. QED
      BY <3>1, <3>2
  <2>15. QED
    BY <2>14 DEF QuotaKept, Recent
<1>3. CASE UNCHANGED vars
  BY <1>1, <1>3 DEF vars
<1>4. QED
  BY <1>1, <1>2, <1>3, OutsideBucket

-----------------------------------------------------------------------------
(***************************************************************************)
(* The header and the answers.                                             *)
(***************************************************************************)
\* A ring that holds a timestamp is never emptied: an eviction is followed by
\* a refusal, which needs a full ring, or by a new timestamp.
LEMMA RingStaysUsed ==
    ASSUME Shape, Rings, [Next]_vars, NEW t \in Tenants, ring[t] # <<>>
    PROVE  ring'[t] # <<>>
<1>1. CASE UNCHANGED vars
  BY <1>1 DEF vars
<1>2. CASE Next /\ \A r \in Requests : ~ allowed(r)
  BY <1>2, OutsideBucket
<1>3. ASSUME NEW r \in Requests, allowed(r) PROVE ring'[t] # <<>>
  <2> DEFINE u == claims[r].tenant
             kept == SubSeq(ring[u], Cardinality(Stale(u)) + 1, Len(ring[u]))
  <2>1. /\ u \in Tenants /\ limit[r] \in Nat \ {0}
        /\ \/ Len(kept) >= limit[r] /\ ring' = [ring EXCEPT ![u] = kept]
           \/ ring' = [ring EXCEPT ![u] = Append(kept, now)]
    BY <1>3, BucketStep
  <2>2. kept \in Seq(0 .. now) /\ Len(kept) \in Nat
    BY <2>1, KeptFacts
  <2>3. now \in 0 .. now
    BY DEF Shape
  <2> HIDE DEF u, kept
  <2>4. Append(kept, now) # <<>>
    BY <2>2, <2>3, AppendProperties
  <2>5. Len(kept) >= limit[r] => kept # <<>>
    BY <2>1, <2>2
  <2>6. QED
    BY <2>1, <2>4, <2>5 DEF Rings
<1>4. QED
  BY <1>1, <1>2, <1>3

LEMMA HeadersInit == Init => Headers
BY DEF Init, Headers

LEMMA HeadersStep == Shape /\ Rings /\ Headers /\ [Next]_vars => Headers'
<1> DEFINE H(q) == /\ pc[q] = "header" => ring[claims[q].tenant] # <<>>
                   /\ remaining[q] # None => /\ pc[q] \in {"authz", "forbidden", "forwarded"}
                                             /\ remaining[q] < limit[q]
<1> SUFFICES ASSUME Shape, Rings, Headers, [Next]_vars, NEW q \in Requests PROVE H(q)'
  BY DEF Headers
<1>1. H(q) /\ (pc[q] = "header" => claims[q].tenant \in Tenants)
  BY DEF Headers, Shape, Carried, Before
<1>2. pc[q] = "header" => ring'[claims[q].tenant] # <<>>
  BY <1>1, RingStaysUsed
<1>3. ASSUME pc'[q] = pc[q], claims'[q] = claims[q], remaining'[q] = remaining[q],
             limit'[q] = limit[q]
      PROVE  H(q)'
  BY <1>1, <1>2, <1>3
<1>4. ASSUME NEW r \in Requests, NEW in \in Inputs, AuthN(r, in) PROVE H(q)'
  <2>1. CASE q = r
    <3>1. pc[q] = "authn" /\ pc'[q] \in {"unauthenticated", "tenant"}
          /\ remaining' = remaining
      BY <1>4, <2>1 DEF AuthN, Go, Shape
    <3>2. QED
      BY <1>1, <3>1
  <2>2. CASE q # r
    BY <1>3, <1>4, <2>2 DEF AuthN, Go, Shape
  <2>3. QED
    BY <2>1, <2>2
<1>5. ASSUME NEW r \in Requests, ResolveTenant(r) PROVE H(q)'
  <2>1. CASE q = r
    <3>1. pc[q] = "tenant" /\ pc'[q] \in {"noTenant", "limiter"} /\ remaining' = remaining
      BY <1>5, <2>1 DEF ResolveTenant, Go, Shape
    <3>2. QED
      BY <1>1, <3>1
  <2>2. CASE q # r
    BY <1>3, <1>5, <2>2 DEF ResolveTenant, Go, Shape
  <2>3. QED
    BY <2>1, <2>2
<1>6. ASSUME NEW r \in Requests, ReadQuota(r) PROVE H(q)'
  <2>1. CASE q = r
    <3>1. pc[q] = "limiter" /\ pc'[q] \in {"internal", "bucket"} /\ remaining' = remaining
      BY <1>6, <2>1 DEF ReadQuota, Go, Shape
    <3>2. QED
      BY <1>1, <3>1
  <2>2. CASE q # r
    BY <1>3, <1>6, <2>2 DEF ReadQuota, Go, Shape
  <2>3. QED
    BY <2>1, <2>2
<1>7. ASSUME NEW r \in Requests, allowed(r) PROVE H(q)'
  <2> DEFINE t == claims[r].tenant
             kept == SubSeq(ring[t], Cardinality(Stale(t)) + 1, Len(ring[t]))
  <2>1. /\ t \in Tenants /\ pc[r] = "bucket" /\ claims' = claims /\ limit' = limit
        /\ remaining' = remaining
        /\ \/ pc' = [pc EXCEPT ![r] = "rateLimited"]
           \/ /\ pc' = [pc EXCEPT ![r] = "header"]
              /\ ring' = [ring EXCEPT ![t] = Append(kept, now)]
    BY <1>7, BucketStep
  <2>2. kept \in Seq(0 .. now) /\ now \in 0 .. now
    <3>1. kept \in Seq(0 .. now)
      BY <2>1, KeptFacts
    <3>2. QED
      BY <3>1 DEF Shape
  <2> HIDE DEF kept
  <2>3. Append(kept, now) # <<>>
    BY <2>2, AppendProperties
  <2>4. CASE q = r
    BY <1>1, <2>1, <2>3, <2>4 DEF Shape, Rings
  <2>5. CASE q # r
    BY <1>3, <2>1, <2>5 DEF Shape
  <2>6. QED
    BY <2>4, <2>5
<1>8. ASSUME NEW r \in Requests, SetHeader(r) PROVE H(q)'
  <2>1. CASE q = r
    <3>1. /\ pc[q] = "header" /\ pc'[q] = "authz" /\ limit' = limit
          /\ remaining'[q] = limit[q] - Len(ring[claims[q].tenant])
      BY <1>8, <2>1 DEF SetHeader, Go, Shape
    <3>2. ring[claims[q].tenant] \in Seq(0 .. now) /\ ring[claims[q].tenant] # <<>>
      BY <1>1, <3>1 DEF Rings
    <3>3. Len(ring[claims[q].tenant]) \in Nat \ {0}
      BY <3>2, EmptySeq
    <3>4. limit[q] \in Nat
      BY DEF Shape
    <3>5. remaining'[q] < limit'[q]
      BY <3>1, <3>3, <3>4
    <3>6. QED
      BY <3>1, <3>5
  <2>2. CASE q # r
    BY <1>3, <1>8, <2>2 DEF SetHeader, Go, Shape
  <2>3. QED
    BY <2>1, <2>2
<1>9. ASSUME NEW r \in Requests, OpenRoute(r) \/ LookUpRole(r) \/ Forbid(r) PROVE H(q)'
  <2>1. /\ pc[r] = "authz" /\ UNCHANGED <<claims, limit, remaining>>
        /\ \/ pc' = pc
           \/ pc' = [pc EXCEPT ![r] = "forwarded"]
           \/ pc' = [pc EXCEPT ![r] = "forbidden"]
    BY <1>9 DEF OpenRoute, LookUpRole, Forbid, Go
  <2>2. CASE q = r
    <3>1. pc'[q] \in {"authz", "forwarded", "forbidden"}
      BY <2>1, <2>2 DEF Shape
    <3>2. QED
      BY <1>1, <2>1, <2>2, <3>1
  <2>3. CASE q # r
    <3>1. pc'[q] = pc[q]
      BY <2>1, <2>3 DEF Shape
    <3>2. QED
      BY <1>3, <2>1, <3>1
  <2>4. QED
    BY <2>2, <2>3
<1>10. ASSUME Change \/ Tick \/ UNCHANGED vars PROVE H(q)'
  BY <1>3, <1>10 DEF Change, Tick, request, vars
<1> HIDE DEF H
<1>11. QED
  BY <1>4, <1>5, <1>6, <1>7, <1>8, <1>9, <1>10
  DEF Next, Serve, Upsert, Register, AddRole

LEMMA JustifiedInit == Init => Witnessed /\ AnswerJustified
BY DEF Init, Witnessed, AnswerJustified, Facts

\* The history only grows, and takes in what the step made true of a request
\* that is still served.
LEMMA SinceGrows ==
    ASSUME Watch, NEW q \in Requests
    PROVE  /\ since[q] \subseteq since'[q]
           /\ pc[q] \notin Answers => Facts(q)' \subseteq since'[q]
<1>1. since'[q] = IF pc[q] \in Answers THEN since[q] ELSE since[q] \union Facts(q)'
  BY DEF Watch
<1>2. QED
  BY <1>1

\* What the history holds of a request in the middleware next.
Seen(next, known) ==
    /\ next \in {"limiter", "bucket", "header", "authz"} => <<"tenant", "enabled">> \in known
    /\ next = "forwarded" =>
          {<<"tenant", "enabled">>, <<"request", "permitted">>} \subseteq known
    /\ next \in {"noTenant", "internal"} => <<"tenant", "disabled">> \in known

\* What it holds of the roles of a request that is being authorized or denied.
SeenRoles(q) ==
    /\ pc[q] = "authz" =>
          \A i \in 1 .. looked[q] : <<"withheld", claims[q].roles[i]>> \in since[q]
    /\ pc[q] = "forbidden" =>
          /\ requiredPermission(input[q]) # None
          /\ \A name \in RolesOf(q) : <<"withheld", name>> \in since[q]

LEMMA SeenRolesStep ==
    ASSUME Shape, Witnessed, AnswerJustified, Next, NEW q \in Requests
    PROVE  SeenRoles(q)'
<1>1. since[q] \subseteq since'[q]
  BY SinceGrows DEF Next
<1>2. Goes(q) /\ (pc[q] # "authn" => input'[q] = input[q] /\ claims'[q] = claims[q])
  BY Moves DEF Move
<1>3. /\ looked[q] \in Nat
      /\ pc[q] = "header" => ~ (looked[q] > 0)
      /\ pc[q] = "authz" => claims[q] # None /\ IsSequence(claims[q].roles)
  BY DEF Shape, Carried, Before
<1>4. SeenRoles(q)
  BY DEF Witnessed, AnswerJustified, SeenRoles
<1>5. CASE pc'[q] = pc[q] /\ looked'[q] = looked[q]
  BY <1>1, <1>2, <1>4, <1>5 DEF SeenRoles, RolesOf
<1>6. CASE pc[q] = "header" /\ pc'[q] = "authz" /\ looked'[q] = looked[q]
  BY <1>3, <1>6 DEF SeenRoles
<1>7. CASE /\ pc[q] = "authz" /\ pc'[q] = "authz" /\ looked'[q] = looked[q] + 1
           /\ looked[q] < Len(claims[q].roles)
           /\ Withheld(q, claims[q].roles[looked[q] + 1])
  <2> DEFINE name == claims[q].roles[looked[q] + 1]
  <2>1. looked[q] + 1 \in DOMAIN claims[q].roles
    BY <1>3, <1>7 DEF IsSequence
  <2>2. <<"withheld", name>> \in Facts(q)
    BY <1>3, <1>7, <2>1 DEF Facts, RolesOf
  <2>3. <<"withheld", name>> \in since[q]
    BY <1>7, <2>2 DEF Witnessed, Answers
  <2>4. ASSUME NEW i \in 1 .. looked[q] + 1
        PROVE  <<"withheld", claims[q].roles[i]>> \in since[q]
    <3>1. i \in 1 .. looked[q] \/ i = looked[q] + 1
      BY <1>3
    <3>2. QED
      BY <1>4, <1>7, <2>3, <3>1 DEF SeenRoles
  <2>5. QED
    BY <1>1, <1>2, <1>7, <2>4 DEF SeenRoles
<1>8. CASE /\ pc[q] = "authz" /\ pc'[q] = "forbidden" /\ looked[q] = Len(claims[q].roles)
           /\ requiredPermission(input[q]) # None
  <2>1. DOMAIN claims[q].roles = 1 .. looked[q]
    BY <1>3, <1>8 DEF IsSequence
  <2>2. \A name \in RolesOf(q) : <<"withheld", name>> \in since[q]
    BY <1>4, <1>8, <2>1 DEF SeenRoles, RolesOf
  <2>3. QED
    BY <1>1, <1>2, <1>8, <2>2 DEF SeenRoles, RolesOf
<1>9. CASE pc'[q] \notin {"authz", "forbidden"}
  BY <1>9 DEF SeenRoles
<1>10. QED
  BY <1>2, <1>5, <1>6, <1>7, <1>8, <1>9 DEF Goes

LEMMA JustifiedStep ==
    Shape /\ Witnessed /\ AnswerJustified /\ [Next]_vars => Witnessed' /\ AnswerJustified'
<1> SUFFICES ASSUME Shape, Witnessed, AnswerJustified, [Next]_vars
             PROVE  Witnessed' /\ AnswerJustified'
  OBVIOUS
<1>1. CASE UNCHANGED vars
  <2>1. /\ pc' = pc /\ claims' = claims /\ input' = input /\ looked' = looked /\ since' = since
        /\ tenants' = tenants /\ roles' = roles
    BY <1>1 DEF vars, stores, request
  <2>2. ASSUME NEW q \in Requests PROVE Facts(q)' = Facts(q) /\ RolesOf(q)' = RolesOf(q)
    <3>1. RolesOf(q)' = RolesOf(q)
      BY <2>1 DEF RolesOf
    <3>2. Enabled(claims[q].tenant)' <=> Enabled(claims[q].tenant)
      BY <2>1 DEF Enabled
    <3>3. \A name : Withheld(q, name)' <=> Withheld(q, name)
      BY <2>1 DEF Withheld, Grants, Defined
    <3>4. Permitted(q)' <=> Permitted(q)
      BY <2>1, <3>1, <3>3 DEF Permitted
    <3>5. {<<"withheld", name>> : name \in {x \in RolesOf(q) : Withheld(q, x)}}'
            = {<<"withheld", name>> : name \in {x \in RolesOf(q) : Withheld(q, x)}}
      BY <3>1, <3>3
    <3>6. QED
      BY <2>1, <3>1, <3>2, <3>4, <3>5 DEF Facts
  <2>3. Witnessed'
    BY <2>1, <2>2 DEF Witnessed
  <2>4. AnswerJustified'
    BY <2>1, <2>2 DEF AnswerJustified
  <2>5. QED
    BY <2>3, <2>4
<1>2. ASSUME Next, NEW q \in Requests
      PROVE  /\ pc'[q] \notin Answers => Facts(q)' \subseteq since'[q]
             /\ Seen(pc'[q], since'[q])
  <2>1. /\ since[q] \subseteq since'[q]
        /\ pc[q] \notin Answers => Facts(q)' \subseteq since'[q]
    BY <1>2, SinceGrows DEF Next
  <2>2. Goes(q)
    BY <1>2, Moves DEF Move
  <2>3. pc'[q] \notin Answers => pc[q] \notin Answers
    BY <2>2 DEF Goes, Answers
  <2>4. Seen(pc[q], since[q])
    BY DEF Witnessed, AnswerJustified, Seen
  <2>5. ASSUME pc[q] \in {"tenant", "limiter", "authz"}
        PROVE  /\ Enabled(claims[q].tenant) => <<"tenant", "enabled">> \in since[q]
               /\ ~ Enabled(claims[q].tenant) => <<"tenant", "disabled">> \in since[q]
               /\ Permitted(q) => <<"request", "permitted">> \in since[q]
    <3>1. claims[q] # None /\ Facts(q) \subseteq since[q]
      BY <2>5 DEF Shape, Carried, Before, Witnessed, Answers
    <3>2. QED
      BY <3>1 DEF Facts
  <2>6. Seen(pc'[q], since[q])
    BY <2>2, <2>4, <2>5 DEF Goes, Seen
  <2>7. QED
    BY <2>1, <2>3, <2>6 DEF Seen
<1>3. ASSUME Next PROVE Witnessed' /\ AnswerJustified'
  BY <1>2, <1>3, SeenRolesStep DEF Witnessed, AnswerJustified, Seen, SeenRoles
<1>4. QED
  BY <1>1, <1>3

-----------------------------------------------------------------------------
\* The API gateway keeps the invariant: the shape of its state, rings that are
\* the end of each tenant's admissions, the quotas, the header and the history
\* that justifies the answers.
THEOREM GatewayInvariant == Spec => []GatewayInv
<1>1. Init => GatewayInv
  <2>1. Init => QuotaKept
    BY DEF Init, QuotaKept
  <2>2. QED
    BY <2>1, ShapeInit, RingsInit, HeadersInit, JustifiedInit DEF GatewayInv
<1>2. GatewayInv /\ [Next]_vars => GatewayInv'
  BY ShapeStep, RingsStep, QuotaKeptStep, HeadersStep, JustifiedStep DEF GatewayInv
<1>3. QED
  BY <1>1, <1>2, PTL DEF Spec

\* The gateway's state keeps its shape (tenant.go, authn.go, authz.go): each
\* bucket is in the order of time, so that the eviction in
\* requestTimestamps.allowed removes a prefix, and never outgrows every quota.
THEOREM GatewayTyped == Spec => []TypeOK
<1>1. GatewayInv => TypeOK
  BY ShapeTyped DEF GatewayInv
<1>2. QED
  BY <1>1, GatewayInvariant, PTL

\* rate_limiter.go, "no boundary burst": in the window that ends with an
\* admitted request its tenant has passed at most the quota that the request
\* had read, however the requests interleave between the quota and the bucket.
THEOREM GatewayQuotaKept == Spec => []QuotaKept
<1>1. GatewayInv => QuotaKept
  BY DEF GatewayInv
<1>2. QED
  BY <1>1, GatewayInvariant, PTL

\* RateLimiter.Middleware reads the bucket a second time for the header, and
\* what it tells the client still counts the client's own request off.
THEOREM GatewayRemaining == Spec => []RemainingBelowLimit
<1>1. GatewayInv => RemainingBelowLimit
  BY DEF GatewayInv, Headers, RemainingBelowLimit
<1>2. QED
  BY <1>1, GatewayInvariant, PTL

\* Each answer of tenantMiddleware, of the limiter's lookup and of the
\* authorization rests on what the stores held since the request was
\* authenticated: a tenant missed was disabled at some instant, a forwarded
\* request permitted at one, and of a forbidden one hasPermission found each
\* role withholding the permission at an instant of its own.
THEOREM GatewayJustified == Spec => []AnswerJustified
<1>1. GatewayInv => AnswerJustified
  BY DEF GatewayInv
<1>2. QED
  BY <1>1, GatewayInvariant, PTL

\* Nothing but its own critical section refuses a request.
LEMMA RefusedInBucket ==
    ASSUME Shape, Next, NEW q \in Requests, pc[q] = "bucket", pc'[q] = "rateLimited"
    PROVE  allowed(q)
<1>1. pc \in [Requests -> {"authn", "tenant", "limiter", "bucket", "header", "authz"}
                             \union Answers]
  BY DEF Shape
<1>2. ASSUME NEW r \in Requests, NEW in \in Inputs, AuthN(r, in) PROVE FALSE
  BY <1>1, <1>2 DEF AuthN, Go
<1>3. ASSUME NEW r \in Requests, ResolveTenant(r) PROVE FALSE
  BY <1>1, <1>3 DEF ResolveTenant, Go
<1>4. ASSUME NEW r \in Requests, ReadQuota(r) PROVE FALSE
  BY <1>1, <1>4 DEF ReadQuota, Go
<1>5. ASSUME NEW r \in Requests, allowed(r), r # q PROVE FALSE
  <2>1. \/ pc' = [pc EXCEPT ![r] = "rateLimited"]
        \/ pc' = [pc EXCEPT ![r] = "header"]
    BY <1>5 DEF allowed, Go
  <2>2. QED
    BY <1>1, <1>5, <2>1
<1>6. ASSUME NEW r \in Requests, SetHeader(r) PROVE FALSE
  BY <1>1, <1>6 DEF SetHeader, Go
<1>7. ASSUME NEW r \in Requests, OpenRoute(r) \/ LookUpRole(r) \/ Forbid(r) PROVE FALSE
  <2>1. /\ pc[r] = "authz"
        /\ \/ pc' = pc
           \/ pc' = [pc EXCEPT ![r] = "forwarded"]
           \/ pc' = [pc EXCEPT ![r] = "forbidden"]
    BY <1>7 DEF OpenRoute, LookUpRole, Forbid, Go
  <2>2. QED
    BY <1>1, <2>1
<1>8. ASSUME Change \/ Tick PROVE FALSE
  BY <1>8 DEF Change, Tick, request
<1>9. QED
  BY <1>2, <1>3, <1>4, <1>5, <1>6, <1>7, <1>8 DEF Next, Serve, Upsert, Register, AddRole

LEMMA RefusedFull ==
    ASSUME Shape, Rings, Next, NEW r \in Requests, pc[r] = "bucket", pc'[r] = "rateLimited"
    PROVE  LET t == claims[r].tenant
           IN  Cardinality({k \in DOMAIN admitted[t] : admitted[t][k].at >= now - Window})
                   >= limit[r]
<1> DEFINE t == claims[r].tenant
           kept == SubSeq(ring[t], Cardinality(Stale(t)) + 1, Len(ring[t]))
           c == Len(kept)
           m == Len(admitted[t])
           recent == {k \in DOMAIN admitted[t] : admitted[t][k].at >= now - Window}
<1>1. allowed(r)
  BY RefusedInBucket
<1>2. t \in Tenants /\ limit[r] \in Nat /\ c >= limit[r]
  BY <1>1, BucketStep DEF Shape
<1>3. /\ c \in Nat /\ m \in Nat /\ c <= m
      /\ \A i \in 1 .. m : i > m - c => admitted[t][i].at >= now - Window
  BY <1>2, KeptFacts
<1>4. DOMAIN admitted[t] = 1 .. m
  BY <1>2 DEF Rings
<1> HIDE DEF t, kept, c, m
<1>5. m - c + 1 .. m \subseteq recent
  BY <1>3, <1>4
<1>6. IsFiniteSet(recent)
  <2>1. 1 \in Int /\ m \in Int
    BY <1>3
  <2>2. IsFiniteSet(1 .. m)
    BY <2>1, FS_Interval
  <2>3. recent \subseteq 1 .. m
    BY <1>4
  <2> HIDE DEF recent
  <2>4. QED
    BY <2>2, <2>3, FS_Subset
<1> HIDE DEF recent
<1>7. Cardinality(m - c + 1 .. m) = c
  BY <1>3, IntervalSize
<1>8. Cardinality(m - c + 1 .. m) <= Cardinality(recent)
  BY <1>5, <1>6, FS_Subset
<1>9. Cardinality(recent) \in Nat
  BY <1>6, FS_CardinalityType
<1>10. Cardinality(recent) >= limit[r]
  BY <1>2, <1>3, <1>7, <1>8, <1>9
<1>11. QED
  BY <1>10 DEF recent, t

\* requestTimestamps.allowed refuses a request only when its own tenant has
\* passed as many requests in the window as the quota it read.
THEOREM GatewayRefusesOnlyWhenFull == Spec => RefusedOnlyWhenFull
<1>1. GatewayInv /\ [Next]_vars =>
        [\A r \in Requests : pc[r] = "bucket" /\ pc'[r] = "rateLimited" =>
            LET t == claims[r].tenant
            IN  Cardinality({k \in DOMAIN admitted[t] : admitted[t][k].at >= now - Window})
                    >= limit[r]]_vars
  BY RefusedFull DEF GatewayInv
<1>2. QED
  BY <1>1, GatewayInvariant, PTL DEF Spec, RefusedOnlyWhenFull
-----------------------------------------------------------------------------
(***************************************************************************)
(* The gateway inside the observability middleware.                        *)
(***************************************************************************)
\* The middleware around the chain leaves it as it is: what holds of the
\* gateway holds of the observed one.
THEOREM ObservedImplementsGateway == ObservedSpec => Spec
<1>1. ObservedInit => Init
  BY DEF ObservedInit
<1>2. [ObservedNext]_<<vars, observedVars>> => [Next]_vars
  BY DEF ObservedNext, Observe
<1>3. QED
  BY <1>1, <1>2, PTL DEF ObservedSpec, Spec

\* The context that the middleware keeps carries the trace ID alone.
LEMMA NoTenantOutside ==
    ASSUME NEW r
    PROVE  TenantFromCtx(ObsCtx(r)) = None
<1> DEFINE at == {i \in DOMAIN ObsCtx(r) : ObsCtx(r)[i].key = "ctxTenantID"}
<1>1. DOMAIN ObsCtx(r) = {1} /\ ObsCtx(r)[1].key = "ctxTraceID"
  BY DEF ObsCtx
<1>2. at = {}
  BY <1>1
<1>3. QED
  BY <1>2 DEF TenantFromCtx

\* Whoever sends what, and whatever the operators change meanwhile, no request
\* is ever recorded for any tenant (observability.go:226-231): the run
\* gateway_metrics shows one that should have been.
THEOREM NothingIsRecorded == ObservedSpec => [](\A t \in Tenants : Total(t) = 0)
<1> DEFINE Blank == recorded = [t \in Tenants |-> [class \in {"2xx", "4xx", "5xx"} |-> 0]]
<1>1. ObservedInit => Blank
  BY DEF ObservedInit
<1>2. Blank /\ [ObservedNext]_<<vars, observedVars>> => Blank'
  <2> SUFFICES ASSUME Blank, [ObservedNext]_<<vars, observedVars>> PROVE recorded' = recorded
    OBVIOUS
  <2>1. CASE Next /\ UNCHANGED observedVars
    BY <2>1 DEF observedVars
  <2>2. ASSUME NEW r \in Requests, Observe(r) PROVE recorded' = recorded
    BY <2>2, NoTenantOutside DEF Observe
  <2>3. CASE UNCHANGED <<vars, observedVars>>
    BY <2>3 DEF observedVars
  <2>4. QED
    BY <2>1, <2>2, <2>3 DEF ObservedNext
<1>3. Blank => \A t \in Tenants : Total(t) = 0
  BY DEF Total
<1>4. QED
  BY <1>1, <1>2, <1>3, PTL DEF ObservedSpec
=============================================================================
