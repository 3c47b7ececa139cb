CONSTANTS
    Scenes = {s1, s2, s3}
    CanFail = {s3}
    MAX_CHANGES = 4
    None = None
    Invalid = Invalid
SPECIFICATION Spec
INVARIANTS
    TypeOK
    SceneResolvesUnlessClash
    OneSceneUnlessOverlapped
PROPERTIES
    WantedBecomesCurrent
