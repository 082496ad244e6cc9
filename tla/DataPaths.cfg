SPECIFICATION DataFairSpec
CONSTANTS
    h1 = h1
    h2 = h2
    s1 = s1
    s2 = s2
    DDS_ENTITY_NULL = DDS_ENTITY_NULL
    Handle = {h1, h2}
    MaxCreations = 2
    Sample = {s1, s2}
    MaxPolls = 2
    MaxRoutes = 2
INVARIANTS DataTypeOK EntitiesHeld OneLatePeriod
PROPERTIES LostToDeletion SamplesSettled WaitersServed TasksEnd
CHECK_DEADLOCK FALSE
