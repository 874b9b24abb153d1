CONSTANTS
    Job <- MCTwoJobs
    Kind <- MCTwoKind
    Steps <- MCTwoSteps
    MaxKills = 1
SPECIFICATION Spec
INVARIANTS
    OneWriter
