CONSTANTS
    MaxId = 2
    MaxHistory = 1
    Notes <- MCNotes
    Configs <- MCConfigs
    MaxChanges = 1
    MaxRestarts = 1
    NoNote = NoNote
SPECIFICATION Spec
INVARIANTS ClosedOnce ActionsHaveAnOwner BooksAgree
PROPERTY NoCloseIsLeftBehind
CHECK_DEADLOCK FALSE
