------------------------------- MODULE MCScene -------------------------------
EXTENDS SceneView

MCEntitiesOf == [plate |-> <<"g", "t1", "t2">>, image |-> <<"t1">>]
MCLabelsOf == [plate |-> <<"cells", "cells", "nuclei">>, image |-> <<"nuclei", "cells">>]
MCSourceLayouts == [plate |-> <<"grid", "row">>, image |-> <<>>]
MCDefaultLayout == [plate |-> "grid", image |-> None]
MCIsCollection == [plate |-> TRUE, image |-> FALSE]
MCPlacements ==
    [grid |-> [g |-> 0, t2 |-> 2], row |-> [t1 |-> 3, t2 |-> 1], mine |-> [t1 |-> 1, g |-> 3]]
MCParent == [g |-> None, t1 |-> "g", t2 |-> "g"]
MCOffset == [g |-> 0, t1 |-> 1, t2 |-> 2]
Blob(shown, names) == [visible |-> TRUE, pin |-> None, names |-> names, shown |-> shown]
MCPeerSettings ==
    {[d \in Dataset |-> Blob(<<TRUE, FALSE>>, <<"nuclei", "cells">>)],
     [d \in Dataset |-> Blob(<<FALSE, TRUE, TRUE>>, <<"cells", "cells", "nuclei">>)],
     [d \in Dataset |-> None],
     [d \in Dataset |-> Blob(<<TRUE>>, <<>>)]}
Of(datasets, n, types) == [datasets |-> datasets, commands |-> n, types |-> types]
MCScenarios ==
    {Of({"a"}, 5, {"opened", "remove", "register", "activate", "pin", "move", "unpin", "reload"}),
     Of({"a"}, 5, {"opened", "pin", "move", "unpin", "comment", "uncomment", "edit"}),
     Of({"a", "b"}, 4, {"opened", "remove", "rename", "assets", "reload", "order", "visible",
                        "labels", "presence"}),
     Of({"a"}, 5, {"opened", "camera", "level", "tick"}),
     Of({"a"}, 4, {"opened", "activate", "camera", "tick", "remount"}),
     Of({"a"}, 4, {"opened", "remove", "swap", "camera", "visible", "tick"}),
     Of({"a", "b"}, 4, {"opened", "remove", "reload", "camera", "tick"}),
     Of({"a"}, 4, {"opened", "register", "activate", "tick"})}

MCRatios ==
    [plate |-> [plane |-> <<0, 4, Never>>, volume |-> <<0, 4, 8>>],
     image |-> [plane |-> <<0, 4>>, volume |-> <<0, 4>>]]
MCSourceLevels == [plate |-> {0, 1}, image |-> {0}]
MCPeerCameras == {[mode |-> "arcball", at |-> 3, zoom |-> 9]}
MCExtent == [plate |-> 2, image |-> 1]
=============================================================================
