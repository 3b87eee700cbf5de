SPECIFICATION OnboardSpec
CONSTANTS
    Missing = Missing
    Builtin = {"zai"}
    Slugs = {"own", "other"}
    Offered = {"m"}
    Models = {"m", "n"}
    Names = {"home", "work"}
    Pulses = {TRUE}
    Modes = {"backup"}
    Scenarios <- Known
CHECK_DEADLOCK FALSE
INVARIANTS
    CredentialsAreStored
    SetupIsSaved
    TextSurvivesABackup
