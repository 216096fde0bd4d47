CONSTANTS
    Nodes <- DiamondNodes
    Edges <- Diamond
    Start = "start"
    Or <- NoNodes
    Outcomes <- DiamondOutcomes
    Modes = {"stream", "knowledge"}
    PoolSize = 2
    MaxFutures = 6
SPECIFICATION Spec
INVARIANTS JoinsOnce
