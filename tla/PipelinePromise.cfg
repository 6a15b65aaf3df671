\* Does every finding get its recommendation, whatever the model answers?
CONSTANTS
    MaxDepth = 2
    MaxRetries = 2
    Values <- MCValues
    Within <- MCWithin
    Conditions <- MCConditions
    Height <- MCHeight
    Finding <- MCFinding
    Jobs <- MCJobs
    NoCall = NoCall
    NoItem = NoItem
SPECIFICATION Spec
PROPERTY KeepsThePromise
\* A request ends.
CHECK_DEADLOCK FALSE
