CONSTANTS
    u1 = u1
    u2 = u2
    None = None
    NoClass = NoClass
    NoActions = NoActions
    NoRequest = NoRequest
    Callers = {c1, c2}
    Users <- MCUsers
    Classes <- MCClasses
    Callbacks <- MCCallbacks
    SegOrder <- MCSegOrder
    FieldParent <- MCFieldParent
    Identifiers <- MCIdentifiers
    RouteTables <- CollisionTables

SPECIFICATION Spec

INVARIANT NoCrash
