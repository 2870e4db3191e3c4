CONSTANTS
    default = default
    other = other
    Databases <- MCDatabases
    Default = default
    AtomicSettings <- DefaultOnly
    EnclosingAtomic = {FALSE, TRUE}
    PythonVersion = "py2"

SPECIFICATION CompatSpec

INVARIANT CallerBlockUsable
