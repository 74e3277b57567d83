SPECIFICATION Spec
CONSTANTS
    None = None
    Unused = Unused

    
PROPERTIES
    OpeningKeepsTheStore
    EveryCallIsAnswered
    RepairsConverge
