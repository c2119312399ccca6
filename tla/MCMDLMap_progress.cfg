SPECIFICATION FairSpec
CONSTANTS
    Thread = {t1, t2}
    NoThread = NoThread
    g = g
    o0 = o0
    Key = {g, k1}
    FixedKeys = {g}
    Obj = {o0, o1, o2, o3}
    FixedObj <- GlobalObj
    NoObj = NoObj
    NoKey = NoKey
PROPERTIES
    SomeoneGetsIn
