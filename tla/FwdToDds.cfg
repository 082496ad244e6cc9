SPECIFICATION Spec
CONSTANTS
    w1 = w1
    r1 = r1
    r2 = r2
    p1 = p1
    xw = xw
    yw = yw
    xr = xr
    yr = yr
    X = X
    Y = Y
    Self = Self
    NoRegex = NoRegex
    NoEntity = NoEntity
    BadEntity = BadEntity
    Writer = {}
    Reader = {r1, r2}
    Participant = {}
    Topic <- MCTopic
    Partition <- MCPartition
    Scope <- MCScope
    RemoteScope <- MCNone
    Allow = NoRegex
    Deny <- MCDeny
    Periodic <- MCNone
    ForwardDiscovery = TRUE
    RosDiscoveryTopic <- MCRos
    TopicOf <- MCTopicOf
    PartitionsOf <- MCPartitionsOf
    QosOf <- MCQosOf
    BuiltinTopic <- MCNone
    MaxPending = 1
    MayFail <- MCMayFailP
    Plugin = {X, Y}
    RemoteWriter = {xw, yw}
    RemoteReader = {}
    PluginOf <- MCPluginOf
    RemoteTopicOf <- MCRemoteTopicOf
    RemotePartitionsOf <- MCRemotePartitionsOf
    RemoteQosOf <- MCRemoteQosOf
    RemoteScopeOf <- MCRemoteScopeOf
    MayLeave = {X}
    MaxSamples = 1
INVARIANT TypeOK
INVARIANT RoutesAreUsed
INVARIANT WriterIffRemoteWriter
INVARIANT AdminSpaceExact
INVARIANT NoEndpointLeak
INVARIANT ReadersListed
INVARIANT StayingReleased
PROPERTY ProxyKept
PROPERTY ReaderRouteKept
PROPERTY LedgerToDds
CHECK_DEADLOCK FALSE
