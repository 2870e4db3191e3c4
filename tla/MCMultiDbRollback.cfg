CONSTANTS
    default = default
    other = other
    Databases <- MCDatabases
    Default = default
    AtomicSettings <- AnyAtomic
    EnclosingAtomic = {FALSE}
    PythonVersion = "py2"

SPECIFICATION CompatSpec

INVARIANT ErrorLeavesNoWrites
