\* Lists of up to three findings, two retries, conditions of depth two.
CONSTANTS
    MaxDepth = 2
    MaxRetries = 2
    Values <- MCValues
    Within <- MCWithin
    Conditions <- MCConditions
    Height <- MCHeight
    Finding <- MCFinding
    Jobs <- MCJobs
    NoCall = NoCall
    NoItem = NoItem
SPECIFICATION Spec
INVARIANTS TypeOK RecommendationsAreVetted TelemetryIsOwn AsksAgainOnlyIfTransient EvaluationGateHolds AveragesAgree
PROPERTIES FindingsAreTheRules EngineRaisesOnlyInTexts ImplementsAdvice EnhancementEnds
\* A request ends.
CHECK_DEADLOCK FALSE
