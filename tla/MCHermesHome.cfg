\* Two root commands and one request of the service, two faults.
SPECIFICATION Spec
CONSTANTS
    Root = {pair, revoke}
    Service = {dashboard}
    HomeChannel = TRUE
    MaxFaults = 2
SYMMETRY RootSymmetry
INVARIANTS
    TypeOK
    FilesAreWhole
    LitterHasACause
    ServiceCanRead
    HandedBack
