----------------------------- MODULE MCGateway ------------------------------
(***************************************************************************)
(* A small instance of module Gateway: two tenants, of which one has a key *)
(* and may redefine the built-in roles editor and viewer so that the one   *)
(* no longer lets it write and the other does.                             *)
(***************************************************************************)
EXTENDS Gateway, TLC

CONSTANTS t1, t2, k1

Jwt(t, names, exp) ==
    [kind |-> "jwt", genuine |-> TRUE, tenant |-> t, roles |-> names, exp |-> exp]
Send(cred, method, path) == [cred |-> cred, method |-> method, path |-> path]

MCInputs ==
    {Send(Jwt(t1, <<"viewer", "editor">>, 1), "POST", "/api/"),
     Send(Jwt(t2, <<"admin">>, 9), "POST", "/api/billing/"),
     Send([kind |-> "key", key |-> k1], "GET", "other")}

Free     == [plan |-> "free", enabled |-> TRUE, override |-> 0]
Raised   == [plan |-> "pro", enabled |-> TRUE, override |-> 2]
Disabled == [plan |-> "free", enabled |-> FALSE, override |-> 0]

MCTenantRecs == {Free, Raised, Disabled}
MCSeeds      == {[t \in Tenants |-> IF t = t1 THEN rec ELSE None] : rec \in {Free, Raised}}
                  \union {[t \in Tenants |-> Free]}
MCKeyRecs     == {[tenant |-> t1, roles |-> <<"editor">>]}
MCCustomRoles == {[name |-> "editor", permissions |-> {PermRead}],
                  [name |-> "viewer", permissions |-> {PermRead, PermWrite}]}
MCPlanQuota   == [p \in {"free", "pro"} |-> IF p = "free" THEN 1 ELSE 3]
Symmetry      == Permutations(Requests)
=============================================================================
