CONSTANTS
    default = default
    other = other
    Databases <- MCDatabases
    Default = default
    AtomicSettings <- DefaultOnly
    EnclosingAtomic = {FALSE}
    PythonVersion = "py3"

SPECIFICATION CompatSpec

INVARIANT SimpleCallableMatchesDocstring
