SPECIFICATION Spec
CONSTANTS
    t1 = t1
    t2 = t2
    k1 = k1
    None = None
    Requests = {r1, r2}
    Tenants = {t1, t2}
    Keys = {k1}
    Inputs <- MCInputs
    Seeds <- MCSeeds
    TenantRecs <- MCTenantRecs
    KeyRecs <- MCKeyRecs
    CustomRoles <- MCCustomRoles
    PlanQuota <- MCPlanQuota
    Window = 1
    MaxChanges = 2
    Horizon = 2
SYMMETRY Symmetry
INVARIANTS
    TypeOK
    QuotaKept
    RemainingBelowLimit
    AnswerJustified
PROPERTY
    RefusedOnlyWhenFull
CHECK_DEADLOCK FALSE
