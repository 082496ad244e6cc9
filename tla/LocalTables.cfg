SPECIFICATION Spec
CONSTANTS
    w1 = w1
    w2 = w2
    w3 = w3
    r1 = r1
    r2 = r2
    d1 = d1
    p1 = p1
    Self = Self
    NoRegex = NoRegex
    NoEntity = NoEntity
    BadEntity = BadEntity
    Writer = {w1, w3}
    Reader = {r1, r2}
    Participant = {p1}
    Topic <- MCTopic
    Partition <- MCPartition
    Scope <- MCScope
    RemoteScope <- MCNone
    Allow = NoRegex
    Deny <- MCDeny
    Periodic <- MCMayFail
    ForwardDiscovery = FALSE
    RosDiscoveryTopic <- MCNone
    TopicOf <- MCTopicOf
    PartitionsOf <- MCPartitionsOf
    QosOf <- MCSameQos
    BuiltinTopic <- MCBuiltin
    MaxPending = 2
    MayFail <- MCMayFail
INVARIANT TypeOK
INVARIANT RoutesAreUsed
INVARIANT StatusAgrees
INVARIANT AdminSpaceExact
INVARIANT NoEndpointLeak
PROPERTY RouteNotInterrupted
PROPERTY LedgerFromDds
PROPERTY LedgerToDds
CHECK_DEADLOCK FALSE
