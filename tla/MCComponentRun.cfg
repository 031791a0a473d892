CONSTANTS
    Missing = Missing
    Bad = Bad
    Beginnings <- MCBeginnings
    Recipes <- MCRecipes
    Versions = {"v1", "v2"}
    Values = {"one", "two"}
    PipeSize = 2
    MaxConversions = 2
    MaxStarts = 2
    MaxEvents = 1
SPECIFICATION FairSpec
CHECK_DEADLOCK FALSE
INVARIANTS
    UnitsOfRecipe
    ScriptIsRun
PROPERTIES
    ProcessEnds
