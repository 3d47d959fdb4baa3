CONSTANTS
    c0 = c0
    c1 = c1
    c2 = c2
    d1 = d1
    d2 = d2
    Comments = {c0, c1, c2}
    Already = {c0}
    Dirs = {d1}
    DirOf <- MCDirOf
    r1 = r1
    r2 = r2
    Requests = {r1, r2}
    TTL = 1
    Delta = 3
    GenMax = 1
    StoreMax = 1
    MaxTime = 4
    None = None
    Unread = Unread
SPECIFICATION Spec
SYMMETRY RequestSymmetry
INVARIANT IInv
INVARIANT FreshAfterFlag
INVARIANT StalenessBounded
