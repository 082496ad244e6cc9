SPECIFICATION RosSpec
CONSTANTS
    w1 = w1
    r1 = r1
    r2 = r2
    p1 = p1
    xw = xw
    yw = yw
    xr = xr
    yr = yr
    X = X
    Y = Y
    n = n
    m = m
    Self = Self
    NoRegex = NoRegex
    NoEntity = NoEntity
    BadEntity = BadEntity
    Writer = {}
    Reader = {}
    Participant = {}
    Topic <- MCTopic
    Partition <- MCNoPartition
    Scope <- MCScope
    RemoteScope <- MCNone
    Allow = NoRegex
    Deny <- MCDeny
    Periodic <- MCNone
    ForwardDiscovery = TRUE
    RosDiscoveryTopic <- MCRos
    TopicOf <- MCTopicOf
    PartitionsOf <- MCUnpartitioned
    QosOf <- MCQosOf
    BuiltinTopic <- MCNone
    MaxPending = 1
    MayFail <- MCNone
    Plugin = {X}
    RemoteWriter = {xw}
    RemoteReader = {xr}
    PluginOf <- MCPluginOf
    RemoteTopicOf <- MCRemoteTopicOf
    RemotePartitionsOf <- MCRemoteUnpartitioned
    RemoteQosOf <- MCRemoteQosOf
    RemoteScopeOf <- MCRemoteScopeOf
    MayLeave = {X}
    MaxSamples = 1
    Node = {n}
    NodeOf <- MCNodeOf
    MaxInfos = 1
PROPERTY RoutedNodesListed
CHECK_DEADLOCK FALSE
