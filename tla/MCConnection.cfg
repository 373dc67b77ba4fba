\* Two tenants, two shops, a pilot of one place, two authorizations, a failure.
\* Merchants and Shopify may stop.
CONSTANTS
    t1 = t1
    t2 = t2
    s1 = s1
    s2 = s2
    Tenants <- MCTenants
    Shops <- MCShops
    Pairs <- MCPairs
    MaximumStores = 1
    MaxApprovals = 2
    MaxFaults = 1
CHECK_DEADLOCK FALSE
SPECIFICATION Spec
INVARIANTS PilotHolds OneHolder ConnectedHasKey DenialIsEarned
PROPERTY DeadShopIsNoticed
