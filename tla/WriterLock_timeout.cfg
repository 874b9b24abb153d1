CONSTANTS
    Job <- MCTwoJobs
    Kind <- MCTwoKind
    Steps <- MCTwoSteps
    MaxKills = 0
SPECIFICATION Spec
INVARIANTS
    TimeoutIsReported
