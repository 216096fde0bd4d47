CONSTANTS
    Nodes <- BranchNodes
    Edges <- Branches
    Start = "start"
    Or <- BranchOr
    Outcomes <- BranchOutcomes
    Modes = {"block", "loop", "knowledge"}
    PoolSize = 1
    MaxFutures = 5
SPECIFICATION FairSpec
INVARIANTS TypeOK NoLostNode
PROPERTIES Terminates
