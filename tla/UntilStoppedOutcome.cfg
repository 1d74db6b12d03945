SPECIFICATION Spec
CONSTANTS
    Kinds = {"until_all_succeeded"}
    Sizes = {2}
    MaxSize = 3
    Endless = {}
    ParentStops = TRUE
INVARIANTS OutcomeAsDocumented
\* A combinator that has ended takes no further step.
CHECK_DEADLOCK FALSE
