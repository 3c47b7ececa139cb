CONSTANTS
    Main = Main
    Worker = Worker
    scene = scene
    mesh = mesh
    base = base
    new = new
    Assets = {scene, mesh}
    Deps <- MCDeps
    Parent <- MCNoParent
    Requests = {scene, mesh}
    Unloads = {scene}
    Writes = {}
    Creates = {}
    CanFail = {}
    NUM_SLOTS = 3
    MAX_ATTEMPTS = 1
    MAX_WRITES = 1
    None = None
    Invalid = Invalid
SPECIFICATION FairSpec
PROPERTY
    LoadedIsNoop
