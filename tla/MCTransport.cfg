CONSTANTS
    Procedures = {"p", "q"}
    Configs <- MCConfigs
    Paths <- MCPaths
    Verbs = {"", "v"}
    HTTPMethods = {"GET", "POST"}
    Joined <- MCJoined
    Callers = {c1, c2}
    Specs <- MCSpecs
SPECIFICATION TransportSpec
INVARIANTS
    TransportTypeOK
    MatchesBest
    MountDecided
    PrimaryIsFirst
    RoutesAreTheRules
    ClientAgrees
