\* Two root commands, nothing fails.
SPECIFICATION Spec
CONSTANTS
    Root = {pair, send}
    Service = {}
    HomeChannel = TRUE
    MaxFaults = 0
INVARIANTS
    FilesHandedBack
