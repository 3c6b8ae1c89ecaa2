CONSTANTS
    Functions <- MCFunctions
    ConfigTiles = 1
SPECIFICATION Spec
INVARIANTS
    ResultsAreProducts
    MachineInv
