SPECIFICATION Spec
CONSTANTS
    Uuid <- MCUuid
    ScopeName <- MCNoScope
    TopicName <- MCTopicName
    Guid <- MCGuid
INVARIANT AllUnderstood
