SPECIFICATION Spec
CONSTANTS
    Files = {f1, f2}
    Modes = {m1, m2}
    MAX_RECORD_SEC = 2
    None = None
INVARIANTS OneDictation FilesAreThere ModeKept
PROPERTY FilesAreDeleted
