SPECIFICATION FairSpec
CONSTANT Shines <- MCShines
INVARIANTS
    TypeOK
    RequestStands
    Rest
PROPERTIES
    SteadyShown
    BlinkShown
    BlinkEnds
CHECK_DEADLOCK FALSE
