CONSTANTS
    Nics <- TwoNics
    Virtual <- OneOfEach
    KindOf <- NameSaysKind
    BuiltOn <- Common
    MaxRoutes = 2
    Overrides <- OneOfEachKind
    MaxMute = 1
    MaxMishaps = 2
SPECIFICATION BootSpec
INVARIANTS
    BootTypeOK
    OneRoute
    GrubInterfaceIsNic
    TunnelOverTheRightDevice
    OneAddressOneRoute
    NeverStopsByPlan
