SPECIFICATION Spec
CONSTANTS
    MaxCommands = 1
    MaxFaults = 1
INVARIANTS
    WelcomeComesFirst
    CommandsRunOnce
PROPERTIES
    EventuallySynced
    SnapshotNeverGoesBack
CHECK_DEADLOCK FALSE
