SPECIFICATION Spec
CONSTANTS
    build = build
    test = test
    draft = draft
    deep = deep
    coder = coder
    gemma = gemma
    giant = giant
    qwen = qwen
    g4 = g4
    plain = plain
    tuned = tuned
    red = red
    blue = blue
    NoNode = NoNode
    Nodes <- FourNodes
    Models <- ThreeModels
    Families <- TwoFamilies
    Loras <- TwoLoras
    Workspaces <- TwoWorkspaces
    ModelOf <- ModelOfNode
    WorkspaceOf <- WorkspaceOfNode
    Priority <- PriorityOfNode
    Review <- ReviewNodes
    FamilyOf <- FamilyOfModel
    Vram <- VramOfModel
    Total = 3
    Limit = 2
INVARIANTS
    TypeOK
    NeverWaits
    FitsUntilRelease
PROPERTIES
    StarvingFirst
    EveryNodeScheduled
CHECK_DEADLOCK FALSE
