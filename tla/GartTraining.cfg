CONSTANTS
    Nodes = {1, 2, 3, 4}
    Hops = 2
    BaseEdges <- MCBaseEdges
    rollout_length = 3
    Interactions = 5
SPECIFICATION TrainSpec
CHECK_DEADLOCK FALSE
INVARIANTS
    TrainingInv
    CreditWithinFlow
