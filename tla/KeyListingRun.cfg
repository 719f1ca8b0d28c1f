SPECIFICATION Spec
CONSTANTS
    Key <- MCKey
    TenantOf <- MCTenantOf
    Limits <- MCLimits
    DefaultPage = 2
    MaxClock = 1
INVARIANTS
    PagesAdvance
    ListingComplete
    CursorHasPage
