SPECIFICATION ViewSpec
CONSTANTS
    Dataset = {"a", "b"}
    Content = {"plate", "image"}
    Layout = {"grid", "row", "mine"}
    Entity = {"g", "t1", "t2"}
    Pin = {"p"}
    Comment = {"c1", "c2"}
    Text = {"x", "y"}
    Spot = {0, 3}
    None = None
    EntitiesOf <- MCEntitiesOf
    LabelsOf <- MCLabelsOf
    SourceLayouts <- MCSourceLayouts
    DefaultLayout <- MCDefaultLayout
    IsCollection <- MCIsCollection
    Placements <- MCPlacements
    Parent <- MCParent
    Offset <- MCOffset
    PeerSettings <- MCPeerSettings
    Scenarios <- MCScenarios
    Reach = 1
    Zooms = {3, 5, 9}
    Modes = {"slice", "arcball", "fly"}
    PeerCameras <- MCPeerCameras
    Ratios <- MCRatios
    Never = Never
    SourceLevels <- MCSourceLevels
    Extent <- MCExtent
    MaxThrows = 1
    MaxPlanners = 1
INVARIANTS
    ViewersAgree
    SwitchesFollowLabels
    TargetsAreSourceLevels
PROPERTIES
    PinsAreKept
    
CHECK_DEADLOCK FALSE
