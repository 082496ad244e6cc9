SPECIFICATION FairSpec
CONSTANTS
    w1 = w1
    w2 = w2
    w3 = w3
    r1 = r1
    r2 = r2
    d1 = d1
    p1 = p1
    Self = Self
    NoRegex = NoRegex
    NoEntity = NoEntity
    BadEntity = BadEntity
    Writer = {w1, w2, d1}
    Reader = {r1}
    Participant = {}
    Topic <- MCTopicDcps
    Partition <- MCPartition
    Scope <- MCScope
    RemoteScope <- MCNone
    Allow = NoRegex
    Deny <- MCDeny
    Periodic <- MCNone
    ForwardDiscovery = FALSE
    RosDiscoveryTopic <- MCNone
    TopicOf <- MCTopicOf
    PartitionsOf <- MCPartitionsOf
    QosOf <- MCSameQos
    BuiltinTopic <- MCBuiltin
    MaxPending = 2
    MayFail <- MCMayFail
INVARIANT RoutedIsActive
INVARIANT QuiescentMirror
INVARIANT QuiescentRoutes
PROPERTY EventuallyServed
PROPERTY EventuallyReleased
CHECK_DEADLOCK FALSE
