SPECIFICATION Spec
CONSTANTS
    v1 = v1
    v2 = v2
    Clients = {c1, c2}
    Sessions = {s1, s2}
    Channels = {k1}
    Services = {v1, v2}
    DefaultService = v1
    NoService = NoService
    NoSession = NoSession
    NoRequest = NoRequest
    Requests <- TwoServiceRequests
    LinkTimeout = 0
    SessionTimeout = 0
SYMMETRY Symmetry
VIEW RoutingView
INVARIANTS
    ExclusiveInlet
    InletOwned
    OutputFollowsInlet
    SessionOwnership
PROPERTIES
    LeaseSpec
