CONSTANTS
    LastDay = 2
    Today = 2
    Month <- MCMonth
    GivenOptions <- MCGiven
    TypedText <- MCTyped
    Clock <- MCClock
    Spot <- MCSpot
    MaxCalls = 1
SPECIFICATION Spec
INVARIANTS
    TypeOK
    LabelShowsSliders
PROPERTIES
    LimitsFollowDay
    ClosesInBounds
    TimeLostWithSliders
    TypedTextKept
