SPECIFICATION Spec
CONSTANTS
    Sizes <- MCSizes
    Ids = {"ID"}
    MaxArgs = 2
    MaxBytes = 8
    CommandLines <- MCCommandLines
    Windows <- MCWindows
    MaxDimension = 4096
    Shell = "sh"
    Room = 2
    Faults = {"error", "kill"}
CHECK_DEADLOCK FALSE
INVARIANTS CommandDelivered ReadyMeansServing NoStrayChild
PROPERTY LauncherReturns
