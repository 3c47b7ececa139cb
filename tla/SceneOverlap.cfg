CONSTANTS
    Scenes = {s1, s2, s3}
    CanFail = {}
    MAX_CHANGES = 4
    None = None
    Invalid = Invalid
SPECIFICATION Spec
INVARIANT
    SceneResolves
