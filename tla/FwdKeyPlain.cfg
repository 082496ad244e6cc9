SPECIFICATION Spec
CONSTANTS
    Uuid <- MCUuid
    ScopeName <- MCScopeName
    TopicName <- MCTopicName
    Guid <- MCGuid
INVARIANT PlainUnderstood
