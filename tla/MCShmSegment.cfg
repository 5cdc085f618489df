SPECIFICATION FairSpec
CONSTANTS
    pub = pub
    pub2 = pub2
    sub = sub
    Publishers = {pub, pub2}
    Subscribers = {sub}
    Geometry <- MixedGeometry
    Capacity = 2
    FailuresInInit = TRUE
    MaxSegments = 2
    MaxPids = 3
    MaxPushes = 2
INVARIANTS
    TypeOK
    OneInitialiser
    GeometryAgrees
PROPERTY
    OpenSucceedsUnlessOrphaned
CHECK_DEADLOCK FALSE
