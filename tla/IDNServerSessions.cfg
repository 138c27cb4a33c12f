SPECIFICATION Spec
CONSTANTS
    v1 = v1
    v2 = v2
    Clients = {c1, c2}
    Sessions = {s1}
    Channels = {k1, k2}
    Services = {v1}
    DefaultService = v1
    NoService = NoService
    NoSession = NoSession
    NoRequest = NoRequest
    Requests <- ChannelRequests
    LinkTimeout = 1
    SessionTimeout = 0
INVARIANTS
    OpenCountExact
    AckTruthful
PROPERTIES
    DeadClientReleases
    QuietServerRecovers
