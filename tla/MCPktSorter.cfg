CONSTANTS
    Registrars = {r1}
    Entries = {e1, e2, e3}
    Default = Default
    NULL = NULL
    MaxBatch = 2
    StoresInOrder = TRUE
SPECIFICATION PsSpec
INVARIANT NothingLeftBehind
INVARIANT NewestEntryFirst
INVARIANT TasteSet
