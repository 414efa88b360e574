CONSTANTS
    Tasks = {a, b, c, d, e}
    Heavy = {a, b, c}
    MaxAll = 3
    MaxHeavy = 1
SPECIFICATION FairResSpec
INVARIANT SlotsConserved
INVARIANT CountersHonest
PROPERTY WaitersAreServed
