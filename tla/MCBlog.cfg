\* All configurations of the caches; an entry lives for one tick.
CONSTANTS
    Date <- MCDate
    Days <- MCDays
    Files <- MCFiles
    DirOf <- MCDirOf
    BlogDir = "blog"
    Rank <- MCRank
    Unreal <- MCUnreal
    Commented = {}
    Users = {"ann", "bob"}
    NoUser = "nobody"
    DefaultUser = "nobody"
    Configs = {"off", "generators", "renders", "anonymous"}
    TTL = 1
    HowMany = 2
    FirstDisk <- MCFirstDisk
    FirstClock = 5
    Typed <- MCTyped
    Worked <- MCWorked
    Rendered = {"d"}
    Acls <- MCAcls
    Stamps = {2, 4}
    Furthest = 12
    LastClock <- MCLastClock
SPECIFICATION Spec
INVARIANT Continues
INVARIANT NeighboursTrue
INVARIANT GivenToReaders
\* At the last tick there may be nothing left to read.
CHECK_DEADLOCK FALSE
