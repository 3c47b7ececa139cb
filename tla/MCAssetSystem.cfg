CONSTANTS
    Main = Main
    Worker = Worker
    scene = scene
    mesh = mesh
    base = base
    new = new
    Assets = {scene, mesh, base, new}
    Deps <- MCDeps
    Parent <- MCParent
    Requests = {scene, mesh}
    Unloads = {scene}
    Writes = {new, scene}
    Creates = {new}
    CanFail = {scene, mesh}
    NUM_SLOTS = 5
    MAX_ATTEMPTS = 2
    MAX_WRITES = 1
    None = None
    Invalid = Invalid
SPECIFICATION FairSpec
INVARIANTS
    TypeOK
    SlotsAccountedFor
    OnlyLateSavesFail
    HeldCopyIsCurrent
    LoadedChildHasParent
    ParentWaitIsVain
PROPERTIES
    ImplementsLifecycle
CONSTRAINT UntilRaced
