CONSTANTS
    Nodes <- DiamondNodes
    Edges <- Diamond
    Start = "start"
    Or <- NoNodes
    Outcomes <- DiamondOutcomes
    Modes = {"stream", "knowledge"}
    PoolSize = 2
    MaxFutures = 4
    WriteNodes <- Writers
SPECIFICATION ActionSpec
INVARIANTS NothingRunsAfterTheEnd JoinAfterAll NoLostNode
INVARIANTS ActionTypeOK StateStands SuccessIsEarned CancelIsHeard
