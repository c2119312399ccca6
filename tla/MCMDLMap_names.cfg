SPECIFICATION Spec
CONSTANTS
    Thread = {t1, t2, t3}
    NoThread = NoThread
    g = g
    o0 = o0
    Key = {k1, k2}
    FixedKeys = {}
    Obj = {o1, o2, o3}
    FixedObj <- NoFixed
    NoObj = NoObj
    NoKey = NoKey
SYMMETRY Perms
INVARIANTS
    OneLockPerName
    FoundKeepsName
    NoLeakedLock
PROPERTIES
    ImplementsNames
