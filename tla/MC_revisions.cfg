CONSTANTS
    Rev <- Ids
    Parent <- ParentOf
    Deleted <- Deletions
    Scenarios <- AllScenarios
SPECIFICATION Spec
INVARIANTS
    HeadsSurvive
    StemmedLateIsExact
    ResurrectionOrders
PROPERTY
    RepeatChangesNothing
