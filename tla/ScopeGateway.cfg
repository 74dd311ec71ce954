\* Two callers, one host that two scopes name, a public, a private and an allow-listed private
\* address.
CONSTANTS
    Calls = {c1, c2}
    MaxRequests = 2
    Window = 2
    MaxCount = 3
    MaxCrashes = 1
    Hosts = {h1}
    public = public
    lab = lab
    private = private
    s1 = s1
    s2 = s2
    Addresses <- MC_Addresses
    Private = {lab, private}
    ScopeIds = {s1, s2}
    LimitedScope = s1
    Configurations <- MC_Configurations
SPECIFICATION GatewaySpec
INVARIANTS
    GatewayTypeOK
    AddressesAccepted
    RebindingMeansAllowlisted
    BurstBounded
    CounterWithoutExpiryExplained
PROPERTIES
    ValidationEnds
    WindowReopens
