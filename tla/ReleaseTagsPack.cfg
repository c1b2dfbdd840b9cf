SPECIFICATION Spec
CONSTANTS
    Clones = {"maintainer", "workflow"}
    Fresh = {"workflow"}
    Requests <- MCRequests
    Plugins = {"engine"}
    Packs = {"pack"}
    Commits <- MCCommits
    Version <- MCVersion
    Line <- MCLine
    MaxRuns = 2
    MaxInterrupts = 1
INVARIANT PushesItsOwn
CHECK_DEADLOCK FALSE
