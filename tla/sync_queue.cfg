SPECIFICATION Spec
CONSTANTS
    Enums = {Enum}
    Workflows = {Workflow}
    Preferences = {P1, P2}
    Folders = {Folder}
    None = None
    MaxItems = 3
    MaxMishaps = 1
    MaxRetries = 1
INVARIANTS TypeOK OwnEditsAccepted NothingStuck ShownStatusIsTrue
PROPERTY NothingForgotten
CHECK_DEADLOCK FALSE
SYMMETRY Symmetry
